------------------------ MODULE RecordingLifecycle ------------------------
(***************************************************************************)
(* What a recording promises its readers, as the comment above             *)
(* start_recording draws it (recording/service.py): it is opened, events   *)
(* are recorded while it is open, and it ends once, sealed with exactly    *)
(* what was recorded, or failed.                                           *)
(***************************************************************************)
CONSTANTS Recordings, Events

VARIABLES
    state,      \* state[r]: "absent", "open", "sealed" or "failed"
    log,        \* log[r]: what was recorded
    snapshot    \* snapshot[r]: what r was sealed with

Init ==
    /\ state    = [r \in Recordings |-> "absent"]
    /\ log      = [r \in Recordings |-> {}]
    /\ snapshot = [r \in Recordings |-> {}]

Open(r) ==
    /\ state[r] = "absent"
    /\ state' = [state EXCEPT ![r] = "open"]
    /\ UNCHANGED <<log, snapshot>>

Record(r, E) ==
    /\ state[r] = "open"
    /\ log' = [log EXCEPT ![r] = @ \cup E]
    /\ UNCHANGED <<state, snapshot>>

Seal(r) ==
    /\ state[r] = "open"
    /\ state' = [state EXCEPT ![r] = "sealed"]
    /\ snapshot' = [snapshot EXCEPT ![r] = log[r]]
    /\ UNCHANGED log

Fail(r) ==
    /\ state[r] = "open"
    /\ state' = [state EXCEPT ![r] = "failed"]
    /\ UNCHANGED <<log, snapshot>>

Next ==
    \E r \in Recordings :
        \/ Open(r) \/ Seal(r) \/ Fail(r)
        \/ \E E \in SUBSET Events : Record(r, E)

Spec == Init /\ [][Next]_<<state, log, snapshot>>
=============================================================================
