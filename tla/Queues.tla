------------------------------- MODULE Queues -------------------------------
(***************************************************************************)
(* std::remove_if on a queue, for the modules that clean one up.           *)
(***************************************************************************)
EXTENDS Integers, Sequences

(* The elements of q at the positions in K, in their order.                 *)
KeepAt(q, K) ==
    LET kept[n \in 0..Len(q)] ==
            IF n = 0 THEN <<>>
            ELSE IF n \in K THEN Append(kept[n - 1], q[n]) ELSE kept[n - 1]
    IN  kept[Len(q)]
=============================================================================
