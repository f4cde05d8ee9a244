---------------------------- MODULE TaskLifecycle ----------------------------
(***************************************************************************)
(* What the scheduler promises to the readers of its results, without      *)
(* queues and without a loop: a request's tasks are pending, run at most   *)
(* Capacity at a time and end, each once.  A parent and its children start *)
(* together or not at all.  When a request is given up, what has not       *)
(* started ends, save the one family the scheduler is looking at, which    *)
(* may still start.                                                        *)
(***************************************************************************)
EXTENDS Integers, FiniteSets

CONSTANTS
    Readers,    \* the requests
    Families,   \* Families[r]: the sets of ids that start together
    Capacity    \* slots

Ids == UNION {UNION Families[r] : r \in Readers}

VARIABLES
    phase,  \* of each id: "absent", "pending", "running" or "ended"
    open    \* the requests somebody still waits for

Move(S, to) == phase' = [id \in Ids |-> IF id \in S THEN to ELSE phase[id]]
At(where) == {id \in Ids : phase[id] = where}

Init == phase = [id \in Ids |-> "absent"] /\ open = {}

Submit(r) ==
    /\ (UNION Families[r]) \subseteq At("absent")
    /\ Move(UNION Families[r], "pending") /\ open' = open \cup {r}

Start(F) ==
    /\ F \subseteq At("pending")
    /\ Cardinality(At("running")) + Cardinality(F) <= Capacity
    /\ Move(F, "running") /\ UNCHANGED open

Refuse(F) ==
    /\ F \subseteq At("pending")
    /\ Move(F, "ended") /\ UNCHANGED open

End ==
    /\ \E S \in SUBSET At("running") : S # {} /\ Move(S, "ended")
    /\ UNCHANGED open

Close(r) ==
    /\ r \in open /\ open' = open \ {r}
    /\ \E missed \in Families[r] \cup {{}} :
           Move(((UNION Families[r]) \ missed) \cap At("pending"), "ended")

Next ==
    \/ \E r \in Readers :
        \/ Submit(r) \/ Close(r)
        \/ \E F \in Families[r] : Start(F) \/ Refuse(F)
    \/ End

Spec == Init /\ [][Next]_<<phase, open>>
=============================================================================
