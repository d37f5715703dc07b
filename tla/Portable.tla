------------------------------ MODULE Portable ------------------------------
(***************************************************************************)
(* Recordings that travel: captured by a finite plugin (capture_recording),*)
(* exported at any time, imported into any instance of InfraReplay, also   *)
(* the one they come from, by concurrent calls that may fail half way.     *)
(*                                                                         *)
(* A name stands for a fresh id: recording n has the events <<n, k>>.  An  *)
(* event is a record of Correlate with its payload.  Every action is one   *)
(* transaction of the recording service; of finish_recording, which here   *)
(* nobody else interferes with, the whole.                                 *)
(***************************************************************************)
EXTENDS Correlate, Payload

CONSTANTS
    Instances,
    Home,           \* the instance that captures
    Streams,        \* the event streams a finite plugin yields
    Imports,        \* import calls
    Names,          \* fresh names, 1..n, and 0, the name of a foreign recording
    MaxBundles,     \* bound on the files
    Foreign,        \* files this build did not write
    Substitutions   \* the [mapping, auto] replays are asked for

BundleVersion == 1
SchemaVersion == 1

\* Finitely many leaves, at paths that are sequences, none of them a UUID that a
\* later replay draws.
IsPayload(p) ==
    /\ IsFiniteSet(DOMAIN p)
    /\ \A path \in DOMAIN p : path \in Seq(Range(path)) /\ p[path] \notin FreshUuids

\* An event with its payload.
IsEvent(e) ==
    /\ e = [id |-> e.id, corr |-> e.corr, ts |-> e.ts, seq |-> e.seq, type |-> e.type,
            parent |-> e.parent, payload |-> e.payload]
    /\ e.id \in Seq(Nat) \ {NoParent} /\ e.ts \in Int /\ e.seq \in Int
    /\ IsPayload(e.payload)

\* Events that refer to nothing but each other, under the name n.
Closed(S, n) ==
    /\ \A e \in S : /\ IsEvent(e) /\ e.id[1] = n
                    /\ e.parent \in {NoParent} \union {f.id : f \in S}
    /\ \A e, f \in S : e.id = f.id => e = f

\* A list of such events, each once.
Whole(events, n) ==
    /\ events \in Seq(Range(events)) /\ Closed(Range(events), n)
    /\ \A j, k \in DOMAIN events : events[j] = events[k] => j = k

\* parse_bundle: a bundle of a newer format is refused.  Events of an older
\* schema (b.schema is the one its events state) cannot be upgraded, as no
\* migration is registered.
Parses(b) == b.version <= BundleVersion /\ (b.events = <<>> \/ b.schema >= SchemaVersion)

\* A plugin names an event before it refers to it.  A file this build did not
\* write, or wrote of a live capture, may hold its events in any order, with any
\* clocks and sequences, but a parent it names is in it.
ASSUME PortableAssumption ==
    /\ Home \in Instances
    /\ 0 \in Names /\ Names \subseteq Nat
    /\ \A s \in Streams :
          /\ s \in Seq(Range(s))
          /\ \A k \in DOMAIN s : /\ IsEvent(s[k])
                                 /\ s[k].parent \in {NoParent} \union {s[j].id : j \in 1..k - 1}
          /\ \A j, k \in DOMAIN s : s[j].id = s[k].id => j = k
    /\ \A b \in Foreign : b.name \in Names /\ (Parses(b) => Whole(b.events, b.name))

\* Nor is such a UUID the mask, or what a replay is asked to put in.
ASSUME FreshAssumption ==
    /\ Redaction \notin FreshUuids
    /\ \A s \in Substitutions : \A v \in DOMAIN s.mapping : s.mapping[v] \notin FreshUuids

Absent == [status |-> "absent", events |-> {}, blob |-> <<>>]

VARIABLES
    rows,           \* rows[i][n]: recording n of instance i, its events and snapshot
    capture,        \* the capture_recording call
    bundles,        \* the files that exist
    call,           \* the import calls: the recording in hand and the file it was read from
    made            \* names drawn so far

vars == <<rows, capture, bundles, call, made>>

Idle == [pc |-> "idle", at |-> Home, name |-> 0, events |-> <<>>, file |-> <<>>]

Init ==
    /\ rows = [i \in Instances |-> [n \in Names |-> Absent]]
    /\ capture \in [pc : {"idle"}, name : {0}, stream : Streams, next : {1}]
    /\ bundles = Foreign
    /\ call = [m \in Imports |-> Idle]
    /\ made = 0
-----------------------------------------------------------------------------
(* The recording service.                                                  *)

\* _events_for.
Ordered(S) == BySequence(SetToSeq(S))

SetRow(i, n, row) == rows' = [rows EXCEPT ![i][n] = row]

StartRecording(i, n) ==
    /\ rows[i][n].status = "absent"
    /\ SetRow(i, n, [Absent EXCEPT !.status = "recording"])

\* append_events stores what the redactor returns.
Clean(e) == [e EXCEPT !.payload = Redacted(@)]

AppendEvents(i, n, S) ==
    SetRow(i, n, [rows[i][n] EXCEPT !.events = @ \union {Clean(e) : e \in S}])

\* finish_recording: ordered and linked, a snapshot written, the status set.
FinishRecording(i, n) ==
    LET events == Correlated(Ordered(rows[i][n].events))
    IN SetRow(i, n, [status |-> "completed", events |-> Range(events), blob |-> events])

\* The same, failing after the snapshot was written.
FinishFails(i, n) ==
    LET events == Correlated(Ordered(rows[i][n].events))
    IN SetRow(i, n, [rows[i][n] EXCEPT !.blob = events])
-----------------------------------------------------------------------------
(* capture_recording                                                       *)

Stamped(n, e) ==
    [e EXCEPT !.id = <<n>> \o @, !.parent = IF @ = NoParent THEN @ ELSE <<n>> \o @]

CaptureStart ==
    /\ capture.pc = "idle"
    /\ made + 1 \in Names
    /\ StartRecording(Home, made + 1)
    /\ made' = made + 1
    /\ capture' = [capture EXCEPT !.pc = "open", !.name = made + 1]
    /\ UNCHANGED <<bundles, call>>

CaptureNext ==
    /\ capture.pc = "open"
    /\ capture.next <= Len(capture.stream)
    /\ AppendEvents(Home, capture.name, {Stamped(capture.name, capture.stream[capture.next])})
    /\ capture' = [capture EXCEPT !.next = @ + 1]
    /\ UNCHANGED <<bundles, call, made>>

\* The plugin or an append raises: fail_recording, unless that fails as well.
CaptureFails ==
    /\ capture.pc = "open"
    /\ capture' = [capture EXCEPT !.pc = "done"]
    /\ \/ SetRow(Home, capture.name, [rows[Home][capture.name] EXCEPT !.status = "failed"])
       \/ UNCHANGED rows
    /\ UNCHANGED <<bundles, call, made>>

CaptureEnds ==
    /\ capture.pc = "open"
    /\ capture.next > Len(capture.stream)
    /\ capture' = [capture EXCEPT !.pc = "done"]
    /\ \/ FinishRecording(Home, capture.name)
       \/ FinishFails(Home, capture.name)
    /\ UNCHANGED <<bundles, call, made>>
-----------------------------------------------------------------------------
(* Export and import.                                                      *)

\* export_recording, of a recording in any status: the bundle does not say which
\* one an importer should give it.
Export(i, n) ==
    /\ Cardinality(bundles) < MaxBundles
    /\ rows[i][n].status # "absent"
    /\ bundles' = bundles \union
          {[version |-> BundleVersion, schema |-> SchemaVersion, name |-> n,
            events |-> Ordered(rows[i][n].events)]}
    /\ UNCHANGED <<rows, capture, call, made>>

Reply(m, r) == call' = [call EXCEPT ![m].pc = r]

Refuse(m, b) ==
    /\ call[m].pc = "idle"
    /\ ~Parses(b)
    /\ Reply(m, IF b.version > BundleVersion THEN "refused" ELSE "error")
    /\ UNCHANGED <<rows, capture, bundles, made>>

\* Mutants of Rekeyed: only the recording gets a fresh id; the parents keep theirs.
RekeyedNameOnly(b, n) == b.events

RekeyedEventsOnly(b, n) ==
    [k \in DOMAIN b.events |-> [b.events[k] EXCEPT !.id = <<n, k>>]]

\* rekey: fresh ids, and the parents follow.
Rekeyed(b, n) ==
    LET position(id) == CHOOSE k \in DOMAIN b.events : b.events[k].id = id
        known        == {b.events[k].id : k \in DOMAIN b.events}
    IN [k \in DOMAIN b.events |->
           [b.events[k] EXCEPT !.id = <<n, k>>,
                               !.parent = IF @ \in known THEN <<n, position(@)>> ELSE NoParent]]

\* import_recording up to its get_status, which decides on the re-keying.
Check(m, i, b) ==
    /\ call[m].pc = "idle"
    /\ Parses(b)
    /\ IF rows[i][b.name].status = "absent"
       THEN /\ call' = [call EXCEPT ![m] =
                  [pc |-> "checked", at |-> i, name |-> b.name,
                   events |-> b.events, file |-> b.events]]
            /\ UNCHANGED made
       ELSE /\ made + 1 \in Names
            /\ made' = made + 1
            /\ call' = [call EXCEPT ![m] =
                  [pc |-> "checked", at |-> i, name |-> made + 1,
                   events |-> Rekeyed(b, made + 1), file |-> b.events]]
    /\ UNCHANGED <<rows, capture, bundles>>

\* Mutant of ImportStart: a row that is there by now is taken over.
ImportStartOver(m) ==
    /\ call[m].pc = "checked"
    /\ SetRow(call[m].at, call[m].name,
              [rows[call[m].at][call[m].name] EXCEPT !.status = "recording"])
    /\ Reply(m, "started")
    /\ UNCHANGED <<capture, bundles, made>>

\* start_recording; an id taken since the check violates the primary key.
ImportStart(m) ==
    /\ call[m].pc = "checked"
    /\ \/ /\ StartRecording(call[m].at, call[m].name)
          /\ Reply(m, "started")
       \/ /\ rows[call[m].at][call[m].name].status # "absent"
          /\ Reply(m, "error")
          /\ UNCHANGED rows
    /\ UNCHANGED <<capture, bundles, made>>

ImportAppend(m) ==
    /\ call[m].pc = "started"
    /\ AppendEvents(call[m].at, call[m].name, Range(call[m].events))
    /\ Reply(m, "appended")
    /\ UNCHANGED <<capture, bundles, made>>

\* Mutant of ImportFinish: it does not wait for the append.
ImportFinishEarly(m) ==
    /\ call[m].pc \in {"started", "appended"}
    /\ FinishRecording(call[m].at, call[m].name)
    /\ Reply(m, "imported")
    /\ UNCHANGED <<capture, bundles, made>>

ImportFinish(m) ==
    /\ call[m].pc = "appended"
    /\ FinishRecording(call[m].at, call[m].name)
    /\ Reply(m, "imported")
    /\ UNCHANGED <<capture, bundles, made>>

\* A transaction fails, or the process dies: nobody touches the row again.
ImportFails(m) ==
    /\ call[m].pc \in {"checked", "started", "appended"}
    /\ \/ UNCHANGED rows
       \/ call[m].pc = "appended" /\ FinishFails(call[m].at, call[m].name)
    /\ Reply(m, "error")
    /\ UNCHANGED <<capture, bundles, made>>

Next ==
    \/ CaptureStart \/ CaptureNext \/ CaptureFails \/ CaptureEnds
    \/ \E i \in Instances, n \in Names : Export(i, n)
    \/ \E m \in Imports, b \in bundles : Refuse(m, b)
    \/ \E m \in Imports, i \in Instances, b \in bundles : Check(m, i, b)
    \/ \E m \in Imports : ImportStart(m) \/ ImportAppend(m) \/ ImportFinish(m) \/ ImportFails(m)

Spec == Init /\ [][Next]_vars
-----------------------------------------------------------------------------
(* Properties.                                                             *)

Calls == {"idle", "checked", "started", "appended", "imported", "refused", "error"}
TypeOK ==
    /\ \A i \in Instances, n \in Names :
          /\ rows[i][n].status \in {"absent", "recording", "completed", "failed"}
          /\ rows[i][n].status = "absent" => rows[i][n] = Absent
          /\ \A e \in rows[i][n].events : e.id[1] = n
          /\ Cardinality({e.id : e \in rows[i][n].events}) = Cardinality(rows[i][n].events)
    /\ capture.pc \in {"idle", "open", "done"}
    /\ \A m \in Imports : call[m].pc \in Calls /\ call[m].at \in Instances /\ call[m].name \in Names
    /\ made \in Names

\* What an event says, but for its ids.
Says(e) == [type |-> e.type, corr |-> e.corr, ts |-> e.ts, payload |-> Redacted(e.payload)]

\* The events S are those of the file, each once, and linked as it links them.
CopyOf(file, S) ==
    \E copy \in Bijection(DOMAIN file, S) :
        \A k \in DOMAIN file :
            /\ Says(copy[k]) = Says(file[k])
            /\ \A p \in DOMAIN file : file[k].parent = file[p].id => copy[k].parent = copy[p].id

\* A list of events but for their ids: what each says, and the place of its parent.
Shape(events) ==
    [k \in DOMAIN events |->
        [says   |-> Says(events[k]),
         parent |-> {p \in DOMAIN events : events[p].id = events[k].parent}]]

\* An import that reports success stored all of its file, each event once and with
\* the links it has, whatever name it gave the recording, and whatever other imports
\* of that file did meanwhile.  A file already in order, as a finished recording is,
\* keeps its order and gets no further links; of any other, an unfinished recording
\* or one with late rows, the order is the one finish_recording finds
\* (portable.py:67-71, service.py:299-324).
CopyFaithful ==
    \A m \in Imports : call[m].pc = "imported" =>
        LET row  == rows[call[m].at][call[m].name]
            file == call[m].file
        IN /\ row.status = "completed"
           /\ CopyOf(file, row.events)
           /\ Correlated(file) = file => Shape(Ordered(row.events)) = Shape(file)

\* What a completed recording refers to is in it: parents, numbering, snapshot.
\* A partial import or a failed finish never looks like one.
SelfContained ==
    \A i \in Instances, n \in Names : rows[i][n].status = "completed" =>
        LET events == rows[i][n].events
        IN /\ {e.parent : e \in events} \subseteq {e.id : e \in events} \union {NoParent}
           /\ {e.seq : e \in events} = 0..Cardinality(events) - 1
           /\ rows[i][n].blob = Ordered(events)

\* No import touches a recording that is already complete, least of all the one
\* it is a copy of (service.py:306).
OriginalsUntouched ==
    [][\A i \in Instances, n \in Names :
          rows[i][n].status = "completed" => rows'[i][n] = rows[i][n]]_vars

\* A sensitive value is in no row, snapshot or file of this build, also when the
\* imported file was written without redaction (service.py:148).
NothingSensitive ==
    /\ \A i \in Instances, n \in Names :
          \A e \in rows[i][n].events \union Range(rows[i][n].blob) : Masked(e.payload)
    /\ \A b \in bundles \ Foreign : \A e \in Range(b.events) : Masked(e.payload)

\* Sent with the substitutions s, leaves that were equal still are, and UUIDs drawn
\* for different leaves are different from each other and from what they replace.
KeepsIdentity(leaves, s) ==
    LET sent  == Substituted(leaves, s.mapping, s.auto)
        drawn == {k \in DOMAIN leaves : s.auto /\ leaves[k] \in Uuids \ DOMAIN s.mapping}
    IN \A j, k \in DOMAIN leaves :
          /\ leaves[j] = leaves[k] => sent[j] = sent[k]
          /\ j \in drawn /\ leaves[j] # leaves[k] => sent[j] # sent[k]
          /\ j \in drawn => sent[j] # leaves[j]

\* Replayed from any completed recording, also a re-keyed copy, values that were
\* equal are sent as equal values across all requests, and different UUIDs stay
\* different and are new (substitution.py:5-9, 53-55).
IdentityKept ==
    \A i \in Instances, n \in Names : rows[i][n].status = "completed" =>
        LET events == Ordered(rows[i][n].events)
            leaves == Leaves([k \in DOMAIN events |->
                          IF events[k].type = "http.request" THEN events[k].payload ELSE <<>>])
        IN \A s \in Substitutions : KeepsIdentity(leaves, s)
-----------------------------------------------------------------------------
(* The inductive invariant behind OriginalsUntouched.                      *)

\* The capture, or import m, is at work on recording n of instance i.
Captures(i, n)  == capture.pc = "open" /\ i = Home /\ n = capture.name
Writes(m, i, n) == call[m].pc \in {"started", "appended"} /\ i = call[m].at /\ n = call[m].name

\* A call works on a recording in status "recording", and alone.
OneWriter ==
    \A i \in Instances, n \in Names :
        /\ Captures(i, n) => rows[i][n].status = "recording"
        /\ \A m \in Imports : Writes(m, i, n) =>
              /\ rows[i][n].status = "recording"
              /\ ~ Captures(i, n)
              /\ \A o \in Imports : Writes(o, i, n) => o = m
=============================================================================
