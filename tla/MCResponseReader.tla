--------------------------- MODULE MCResponseReader ---------------------------
(***************************************************************************)
(* Two readers, one of them with a batch of two tasks.                     *)
(***************************************************************************)
EXTENDS ResponseReader

CONSTANTS r1, r2
TwoReaders == {r1, r2}
OneAndTwo == (r1 :> {1, 2}) @@ (r2 :> {3})
=============================================================================
