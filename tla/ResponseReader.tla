---------------------------- MODULE ResponseReader ----------------------------
(***************************************************************************)
(* server_response and server_response_reader (server-queue.cpp): how the  *)
(* results of the loop reach the HTTP threads, one step per section under  *)
(* mutex_results.                                                          *)
(*                                                                         *)
(* The loop is a producer: of each task it was given it sends some partial *)
(* results, then one final result or one error (AnsweredOnce of            *)
(* UpdateSlots), unless a CANCEL ends the task first.                      *)
(***************************************************************************)
EXTENDS Integers, Sequences, FiniteSets, SequencesExt, Queues

CONSTANTS
    Readers,    \* server_response_readers
    IdsOf,      \* IdsOf[r]: id_tasks of reader r
    MaxPartial  \* bound on the partial results of a task

Ids == UNION {IdsOf[r] : r \in Readers}

ASSUME ReaderAssumption ==
    /\ MaxPartial \in Nat
    /\ \A r \in Readers : IdsOf[r] # {} /\ IsFiniteSet(IdsOf[r])
    /\ \A r1, r2 \in Readers : r1 # r2 => IdsOf[r1] \cap IdsOf[r2] = {}

VARIABLES
    waiting,    \* waiting_task_ids
    results,    \* queue_results
    pc,         \* what each reader does
    received,   \* received_count
    cancelled,  \* cancelled
    given,      \* ids the loop works on
    cancels,    \* ids whose CANCEL is in the task queue
    sent,       \* history: results the loop has produced for an id
    got         \* history: results of an id the caller of next() was given

vars == <<waiting, results, pc, received, cancelled, given, cancels, sent, got>>
loop == <<given, cancels, sent>>

HasNext(r) == ~cancelled[r] /\ received[r] < Cardinality(IdsOf[r])

Init ==
    /\ waiting = {} /\ results = <<>> /\ given = {} /\ cancels = {}
    /\ pc = [r \in Readers |-> "new"]
    /\ received = [r \in Readers |-> 0] /\ cancelled = [r \in Readers |-> FALSE]
    /\ sent = [id \in Ids |-> 0] /\ got = [id \in Ids |-> 0]

-----------------------------------------------------------------------------
(* The loop                                                                 *)

WakeNobody(state) == state     \* mutant
Wake(state) == IF state = "waiting" THEN "scan" ELSE state

(* send(): kept only if somebody waits for the id; everybody is woken.      *)
Send(id, kind) ==
    /\ sent' = [sent EXCEPT ![id] = @ + 1]
    /\ IF id \in waiting
       THEN /\ results' = Append(results, [id |-> id, n |-> sent[id] + 1, kind |-> kind])
            /\ pc' = [r \in Readers |-> Wake(pc[r])]
       ELSE UNCHANGED <<results, pc>>

SendPartial(id) ==
    /\ id \in given /\ sent[id] < MaxPartial /\ Send(id, "partial")
    /\ UNCHANGED <<waiting, received, cancelled, given, cancels, got>>

SendLast(id) ==
    /\ id \in given /\ \E kind \in {"final", "error"} : Send(id, kind)
    /\ given' = given \ {id}
    /\ UNCHANGED <<waiting, received, cancelled, cancels, got>>

(* A CANCEL takes the task out of the queues when it is posted and releases *)
(* its slot when it is processed; a task that was in process at the post    *)
(* and is deferred afterwards it does not reach, and the loop works on.     *)
ProcessCancel(id) ==
    /\ id \in cancels /\ cancels' = cancels \ {id}
    /\ given' \in {given, given \ {id}}
    /\ UNCHANGED <<waiting, results, pc, received, cancelled, sent, got>>

-----------------------------------------------------------------------------
(* A reader                                                                 *)

(* post_tasks: first the ids are added to the waiting list, then the tasks  *)
(* are posted.                                                              *)
FirstWait(r) == [wait |-> IdsOf[r], post |-> {}]
FirstPost(r) == [wait |-> {}, post |-> IdsOf[r]]    \* mutant
PostOrder(r) == FirstWait(r)

Register(r) ==
    /\ pc[r] = "new" /\ pc' = [pc EXCEPT ![r] = "registered"]
    /\ waiting' = waiting \cup PostOrder(r).wait /\ given' = given \cup PostOrder(r).post
    /\ UNCHANGED <<results, received, cancelled, cancels, sent, got>>

PostTasks(r) ==
    /\ pc[r] = "registered" /\ pc' = [pc EXCEPT ![r] = "scan"]
    /\ waiting' = waiting \cup (IdsOf[r] \ PostOrder(r).post)
    /\ given' = given \cup (IdsOf[r] \ PostOrder(r).post)
    /\ UNCHANGED <<results, received, cancelled, cancels, sent, got>>

(* recv_with_timeout takes the first result of one of the ids; an error     *)
(* makes next() stop the reader.                                            *)
NewestOf(r) == SelectLastInSeq(results, LAMBDA res : res.id \in IdsOf[r])   \* mutant
FirstOf(r)  == SelectInSeq(results, LAMBDA res : res.id \in IdsOf[r])

Receive(r) ==
    /\ pc[r] = "scan" /\ HasNext(r) /\ FirstOf(r) > 0
    /\ LET res == results[FirstOf(r)] IN
        /\ got' = [got EXCEPT ![res.id] = IF res.n = @ + 1 THEN res.n ELSE -1]
        /\ received' = [received EXCEPT ![r] = IF res.kind = "final" THEN @ + 1 ELSE @]
        /\ pc' = [pc EXCEPT ![r] = IF res.kind = "error" THEN "stop" ELSE "scan"]
    /\ results' = RemoveAt(results, FirstOf(r))
    /\ UNCHANGED <<waiting, cancelled, loop>>

Wait(r) ==
    /\ pc[r] = "scan" /\ HasNext(r) /\ FirstOf(r) = 0
    /\ pc' = [pc EXCEPT ![r] = "waiting"]
    /\ UNCHANGED <<waiting, results, received, cancelled, loop, got>>

(* wait_for ends; what was sent since is not looked at.                     *)
Timeout(r) ==
    /\ pc[r] = "waiting" /\ pc' = [pc EXCEPT ![r] = "timeout"]
    /\ UNCHANGED <<waiting, results, received, cancelled, loop, got>>

CheckStop(r) ==
    /\ pc[r] = "timeout"
    /\ \E should_stop \in BOOLEAN : pc' = [pc EXCEPT ![r] = IF should_stop THEN "stop" ELSE "scan"]
    /\ UNCHANGED <<waiting, results, received, cancelled, loop, got>>

(* The handler is done with the reader: all results are there, or it gives  *)
(* up between two results (the client is gone); the destructor calls stop().*)
Leave(r) ==
    /\ pc[r] = "scan" /\ pc' = [pc EXCEPT ![r] = "stop"]
    /\ UNCHANGED <<waiting, results, received, cancelled, loop, got>>

(* stop(): the ids are removed from the waiting list; if tasks are left,    *)
(* their results are erased and a CANCEL for every id is posted.  Each id   *)
(* has a lock section of its own in the code, all of one kind in a row.     *)
StopWaiting(r) ==
    /\ pc[r] = "stop" /\ waiting' = waiting \ IdsOf[r]
    /\ pc' = [pc EXCEPT ![r] = IF HasNext(r) THEN "erase" ELSE "closed"]
    /\ UNCHANGED <<results, received, cancelled, loop, got>>

KeepResults(r) == results   \* mutant: only the ids are removed
OtherResults(r) == KeepAt(results, {i \in DOMAIN results : results[i].id \notin IdsOf[r]})

EraseResults(r) ==
    /\ pc[r] = "erase" /\ pc' = [pc EXCEPT ![r] = "cancel"]
    /\ cancelled' = [cancelled EXCEPT ![r] = TRUE]
    /\ results' = OtherResults(r)
    /\ UNCHANGED <<waiting, received, loop, got>>

PostCancel(r) ==
    /\ pc[r] = "cancel" /\ pc' = [pc EXCEPT ![r] = "closed"]
    /\ cancels' = cancels \cup IdsOf[r]
    /\ UNCHANGED <<waiting, results, received, cancelled, given, sent, got>>

-----------------------------------------------------------------------------
LoopStep(id) == SendPartial(id) \/ SendLast(id) \/ ProcessCancel(id)
ReaderStep(r) ==
    \/ Register(r) \/ PostTasks(r) \/ Receive(r) \/ Wait(r) \/ CheckStop(r)
    \/ StopWaiting(r) \/ EraseResults(r) \/ PostCancel(r)

Next ==
    \/ \E id \in Ids : LoopStep(id)
    \/ \E r \in Readers : ReaderStep(r) \/ Timeout(r) \/ Leave(r)

Spec == Init /\ [][Next]_vars

(* The loop works on and takes up CANCELs, each HTTP thread runs, and a     *)
(* handler leaves when it has everything; nobody has to time out or give up.*)
FairSpec ==
    /\ Spec
    /\ \A id \in Ids : WF_vars(SendLast(id)) /\ WF_vars(ProcessCancel(id))
    /\ \A r \in Readers : WF_vars(ReaderStep(r)) /\ WF_vars(~HasNext(r) /\ Leave(r))

-----------------------------------------------------------------------------
(* Properties                                                               *)

Steps == {"new", "registered", "scan", "waiting", "timeout", "stop", "erase", "cancel", "closed"}
Result == [id : Ids, n : Nat, kind : {"partial", "final", "error"}]

(* Every variable stays within its type; no reader counts more final        *)
(* results than it has tasks ("duplicate result received").                 *)
TypeOK ==
    /\ waiting \subseteq Ids /\ given \subseteq Ids /\ cancels \subseteq Ids
    /\ results \in Seq(Result) /\ pc \in [Readers -> Steps]
    /\ \A r \in Readers : received[r] \in 0..Cardinality(IdsOf[r])
    /\ cancelled \in [Readers -> BOOLEAN]
    /\ sent \in [Ids -> Nat] /\ got \in [Ids -> Nat]

Pending(id) == {i \in DOMAIN results : results[i].id = id}

(* While a reader is open no result is lost, doubled or overtaken: what the *)
(* loop has sent for an id is what next() returned, then what is queued.    *)
Serving == {"registered", "scan", "waiting", "timeout"}
NothingLost ==
    \A r \in Readers : pc[r] \in Serving => \A id \in IdsOf[r] :
        /\ sent[id] = got[id] + Cardinality(Pending(id))
        /\ \A i \in Pending(id) :
            results[i].n = got[id] + Cardinality({j \in Pending(id) : j <= i})

(* A closed reader leaves no result in the queue, where nobody would ever   *)
(* take it, and no id in the waiting list, also when the loop works on for  *)
(* it: on a task whose CANCEL is not processed yet or missed it.            *)
NothingLeaked ==
    \A r \in Readers : pc[r] = "closed" =>
        waiting \cap IdsOf[r] = {} /\ \A id \in IdsOf[r] : Pending(id) = {}

(* Every reader gets its results, an error or gives up, and is closed.      *)
EveryReaderCloses == \A r \in Readers : (pc[r] = "registered") ~> (pc[r] = "closed")
=============================================================================
