--------------------------- MODULE RecordingStore ---------------------------
(***************************************************************************)
(* The metadata database and the blob store as the recording service uses  *)
(* them (recording/service.py).  A recording is one row with a status; its *)
(* events are rows of their own; finishing it rewrites the sequence and    *)
(* the parent of the rows it selected and writes a snapshot blob.          *)
(*                                                                         *)
(* Every operator below is one committed transaction or one blob write:    *)
(* what lies between two of them is a point where another task can run or  *)
(* the process can die.  An event is its id: payloads, redaction and the   *)
(* columns of a row are left out.                                          *)
(***************************************************************************)

CONSTANT Recordings        \* recording ids (new_id never repeats one)

VARIABLES
    status,    \* status[r]: the row's status, "absent" before the row exists
    stored,    \* stored[r]: the event rows of the recording
    ordered,   \* ordered[r]: the rows whose sequence and parent were rewritten
    blob       \* blob[r]: the events of the snapshot file, {} when there is none

store == <<status, stored, ordered, blob>>

Statuses == {"absent", "recording", "completed", "failed"}

StoreTypeOK(Events) ==
    /\ status  \in [Recordings -> Statuses]
    /\ stored  \in [Recordings -> SUBSET Events]
    /\ ordered \in [Recordings -> SUBSET Events]
    /\ blob    \in [Recordings -> SUBSET Events]

StoreInit ==
    /\ status  = [r \in Recordings |-> "absent"]
    /\ stored  = [r \in Recordings |-> {}]
    /\ ordered = [r \in Recordings |-> {}]
    /\ blob    = [r \in Recordings |-> {}]

-----------------------------------------------------------------------------

\* start_recording: a row with a fresh id, in status "recording".
StartRecording(r) ==
    /\ status[r] = "absent"
    /\ status' = [status EXCEPT ![r] = "recording"]
    /\ UNCHANGED <<stored, ordered, blob>>

\* append_events: one transaction, and no look at the recording's status.
AppendEvents(r, E) ==
    /\ stored' = [stored EXCEPT ![r] = @ \cup E]
    /\ UNCHANGED <<status, ordered, blob>>

\* fail_recording: unconditional on the previous status.
FailRecording(r) ==
    /\ status' = [status EXCEPT ![r] = "failed"]
    /\ UNCHANGED <<stored, ordered, blob>>

\* put_blob inside finish_recording: the file replaces what was there, and is
\* written before the transaction that will point at it commits.
PutSnapshot(r, E) ==
    /\ blob' = [blob EXCEPT ![r] = E]
    /\ UNCHANGED <<status, stored, ordered>>

\* The commit of finish_recording: the rows it selected earlier get their
\* final sequence and parent, and the status becomes "completed".
CommitFinish(r, E) ==
    /\ ordered' = [ordered EXCEPT ![r] = @ \cup E]
    /\ status'  = [status EXCEPT ![r] = "completed"]
    /\ UNCHANGED <<stored, blob>>
=============================================================================
