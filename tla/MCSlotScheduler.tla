--------------------------- MODULE MCSlotScheduler ---------------------------
(* Workloads for SlotScheduler.                                             *)
EXTENDS SlotScheduler

Completion(id, pin, children) ==
    [kind |-> "completion", id |-> id, pin |-> pin, children |-> children]
SlotAction(id, pin) == [kind |-> "slot", id |-> id, pin |-> pin, children |-> <<>>]

(* A request for two completions of each of two prompts, and a slot action. *)
MixedReaders == 1..2
MixedBatch == <<
    <<Completion(1, -1, <<2>>), Completion(3, -1, <<4>>)>>,
    <<SlotAction(5, 0)>> >>

(* Requests of one task each that compete for the slots.                    *)
SingleReaders == 1..4
SingleBatch == <<
    <<Completion(1, -1, <<2>>)>>,
    <<Completion(3, 0, <<>>)>>,
    <<Completion(4, -1, <<>>)>>,
    <<Completion(5, 5, <<>>)>> >>

(* Three completions for one slot.                                          *)
OneSlotReaders == 1..3
OneSlotBatch == <<
    <<Completion(1, -1, <<>>)>>, <<Completion(2, -1, <<>>)>>, <<Completion(3, -1, <<>>)>> >>

(* One request for two completions of the same prompt.                      *)
ParentReaders == 1..2
ParentBatch == << <<Completion(1, -1, <<2>>)>>, <<Completion(3, -1, <<>>)>> >>
=============================================================================
