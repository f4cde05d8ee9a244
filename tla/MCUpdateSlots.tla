---------------------------- MODULE MCUpdateSlots ----------------------------
(***************************************************************************)
(* Instances of UpdateSlots: which requests arrive, under which params.    *)
(***************************************************************************)
EXTENDS UpdateSlots

Completion(n, predict, copies) ==
    [kind |-> "completion", n |-> n, n_predict |-> predict, copies |-> copies]
Embedding(n) == [kind |-> "embedding", n |-> n, n_predict |-> -1, copies |-> 0]

TwoParams ==
    {[ctx_shift |-> FALSE, cont_batching |-> TRUE, kv_unified |-> TRUE],
     [ctx_shift |-> TRUE, cont_batching |-> FALSE, kv_unified |-> FALSE]}
OneParams == {[ctx_shift |-> FALSE, cont_batching |-> TRUE, kv_unified |-> FALSE]}

(* A prompt longer than a batch, a limitless one, parents with a child that *)
(* reach their budget or the context, a prompt that cannot be split, an     *)
(* empty and a too long prompt.                                             *)
MixedRequests ==
    {Completion(4, 3, 0), Completion(2, -1, 0), Completion(2, 2, 1), Completion(3, 3, 1),
     Embedding(2), Completion(0, 1, 0), Completion(5, 1, 1)}

ParentRequests == {Completion(4, 2, 1)}
=============================================================================
