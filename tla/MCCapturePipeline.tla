------------------------- MODULE MCCapturePipeline -------------------------
(***************************************************************************)
(* CapturePipeline on small instances.                                     *)
(***************************************************************************)
EXTENDS CapturePipeline

\* The statements of the requests: the value of the constant SqlEvents.
Statements == [req : Requests, n : 1 .. MaxSql]

\* Symmetry over recordings only: the statements are built from the requests.
Symmetry == Permutations(Recordings)
=============================================================================
