------------------------------ MODULE Payload ------------------------------
(***************************************************************************)
(* What is done to the content of an event: redaction before it is stored  *)
(* (plugins/redaction_default) and substitution before a request is sent   *)
(* again (replay/substitution.py).  A payload is a function from the paths *)
(* of its leaves (sequences of keys and list positions) to their values.   *)
(***************************************************************************)
EXTENDS FiniteSetsExt, SequencesExt

CONSTANTS
    Sensitive,      \* the keys whose values are masked
    Uuids,          \* the leaf values shaped like a UUID
    Templates       \* the mapping values that are ${...} templates

Redaction == "***REDACTED***"

\* Mutant of Cut: a container under a sensitive key is entered, not masked.
CutLeaf(path) == path

\* _scrub_entry: whatever is under a sensitive key is replaced as a whole.
Cut(path) ==
    LET hits == {k \in DOMAIN path : path[k] \in Sensitive}
    IN IF hits = {} THEN path ELSE SubSeq(path, 1, Min(hits))

\* DefaultRedactionPlugin.redact.
Redacted(payload) ==
    [path \in {Cut(p) : p \in DOMAIN payload} |->
        IF path # <<>> /\ Last(path) \in Sensitive THEN Redaction ELSE payload[path]]

\* No value under a sensitive key but the mask.
Masked(payload) ==
    \A path \in DOMAIN payload :
        (\E k \in DOMAIN path : path[k] \in Sensitive) => payload[path] = Redaction
-----------------------------------------------------------------------------
\* SubstitutionEngine(mapping, auto): templates are expanded once.
Engine(mapping, auto) ==
    [mapping   |-> [v \in DOMAIN mapping |->
                       IF mapping[v] \in Templates THEN <<"expanded", v>> ELSE mapping[v]],
     auto      |-> auto,
     generated |-> <<>>,
     sent      |-> <<>>]

\* The UUIDs the engine can draw: uuid4 gives one that is nowhere else.
FreshUuids == {"uuid"} \X Nat

\* Mutant of Swap: nothing is remembered.
SwapForgetting(engine, v) ==
    LET fresh == <<"uuid", Len(engine.sent)>>
        value == IF v \in DOMAIN engine.mapping THEN engine.mapping[v]
                 ELSE IF engine.auto /\ v \in Uuids THEN fresh ELSE v
    IN [engine EXCEPT !.sent = Append(@, value)]

\* What setdefault gives: the value drawn before, or a new one.
Remembered(engine, v) ==
    IF v \in DOMAIN engine.generated THEN engine.generated[v] ELSE <<"uuid", Len(engine.sent)>>

\* _swap: the mapping first, then a UUID drawn at its first appearance.
Swap(engine, v) ==
    LET drawn == IF engine.auto /\ v \in Uuids \ DOMAIN engine.mapping
                 THEN [u \in DOMAIN engine.generated \union {v} |-> Remembered(engine, u)]
                 ELSE engine.generated
        value == CASE v \in DOMAIN engine.mapping -> engine.mapping[v]
                   [] v \in DOMAIN drawn          -> drawn[v]
                   [] OTHER                       -> v
    IN [engine EXCEPT !.generated = drawn, !.sent = Append(@, value)]

\* The leaves of some payloads, in the order apply walks them.
Leaves(payloads) ==
    FlattenSeq([k \in DOMAIN payloads |->
        LET paths == SetToSeq(DOMAIN payloads[k])
        IN [n \in DOMAIN paths |-> payloads[k][paths[n]]]])

\* apply, for the leaves of the payloads of one run.
Substituted(leaves, mapping, auto) ==
    FoldLeft(Swap, Engine(mapping, auto), leaves).sent
=============================================================================
