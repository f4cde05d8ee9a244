---------------------------- MODULE SlotScheduler ----------------------------
(***************************************************************************)
(* Which task gets which slot: process_single_task, launch and release of  *)
(* slots and the outcome of update_slots (server-context.cpp) over the two *)
(* queues of server_queue and the HTTP threads' response readers.          *)
(*                                                                         *)
(* The loop thread takes a task off the queue in one step and runs the     *)
(* callback in another, because start_loop gives the lock up in between:   *)
(* the readers may post, and cancel, while a task is in neither queue.     *)
(* What the model computes is abstracted to how a slot's turn can end.     *)
(***************************************************************************)
EXTENDS Integers, Sequences, FiniteSets, SequencesExt, FiniteSetsExt, Queues

CONSTANTS
    NSlots,         \* slots.size()
    Readers,        \* server_response_readers, one per request
    Batch,          \* Batch[r]: the sequence of tasks reader r posts
    Refused,        \* ids whose launch (grammar, tokens) or slot action (file) may fail
    EmptyPrompt,    \* ids whose prompt has no tokens
    MayFail,        \* a slot may fail while it processes
    MayStop         \* a reader may be stopped before its results arrived

None == 0
Slots == 0..(NSlots - 1)

(* A task names its children; only a parent or a single task is posted.     *)
FamilyOf(task) == {task.id} \cup ToSet(task.children)
IdsOf(r) == UNION {FamilyOf(Batch[r][i]) : i \in DOMAIN Batch[r]}
Ids == UNION {IdsOf(r) : r \in Readers}
Owner == [id \in Ids |-> CHOOSE r \in Readers : id \in IdsOf(r)]
Posted == UNION {ToSet(Batch[r]) : r \in Readers}
ParentOf == [id \in Ids |-> (CHOOSE t \in Posted : id \in FamilyOf(t)).id]
Families == [r \in Readers |-> {FamilyOf(t) : t \in ToSet(Batch[r])}]
IsChild(id) == ParentOf[id] # id
IsParent(id) == \E t \in Posted : t.id = id /\ t.children # <<>>

Cancel(id) == [kind |-> "cancel", id |-> id, pin |-> -1, children |-> <<>>]
NextResponse == [kind |-> "next", id |-> None, pin |-> -1, children |-> <<>>]
Task == Posted \cup {Cancel(id) : id \in Ids} \cup {NextResponse}

Work == [kind : {"completion", "slot"}, id : Nat \ {None}, pin : Nat \cup {-1},
         children : Seq(Nat \ {None})]

(* get_new_id gives every task, also a child, an id of its own.             *)
ASSUME SchedulerAssumption ==
    /\ NSlots \in Nat \ {0}
    /\ \A r \in Readers : Batch[r] \in Seq(Work)
    /\ \A r \in Readers : \A i, j \in DOMAIN Batch[r] :
        i # j => FamilyOf(Batch[r][i]) \cap FamilyOf(Batch[r][j]) = {}
    /\ \A r1, r2 \in Readers : r1 # r2 => IdsOf(r1) \cap IdsOf(r2) = {}
    /\ \A t \in Posted :
        /\ IsInjective(t.children) /\ t.id \notin ToSet(t.children)
        /\ Len(t.children) < NSlots     \* n_cmpl <= n_parallel
        /\ t.kind = "slot" => t.pin >= 0 /\ t.children = <<>>
    /\ Refused \cup EmptyPrompt \subseteq Ids
    /\ {MayFail, MayStop} \subseteq BOOLEAN

VARIABLES
    queue,      \* queue_tasks
    deferred,   \* queue_tasks_deferred
    current,    \* the task being processed, a set of at most one
    pc,         \* "pop", "callback" or "batch" (inside update_slots)
    slotTask,   \* slot.task, None when the slot is idle
    slotState,  \* slot.state
    reader,     \* "new", "waiting" or "closed"
    outcome,    \* the final result each id's reader was sent, if any
    survivors   \* history: ids deferred when their CANCEL had been posted

vars == <<queue, deferred, current, pc, slotTask, slotState, reader, outcome, survivors>>

Processing == {s \in Slots : slotState[s] # "idle"}
Free == Slots \ Processing
InSlot(id) == \E s \in Slots : slotTask[s] = id

-----------------------------------------------------------------------------
(* pop_deferred_task(id_slot): a completion that asks for the slot, else    *)
(* the first task, moves to the front of the main queue (a slot action      *)
(* keeps its slot in another field, which is not compared).                 *)
PopDeferredOff(q, s) == q       \* mutant: slot.release() calls nobody back
PopDeferredTwice(q, s) ==       \* mutant: the moved-from task is not erased
    IF q.deferred = <<>> THEN q
    ELSE [main |-> SubSeq(q.deferred, 1, 1) \o q.main, deferred |-> q.deferred]
PopDeferred(q, s) ==
    LET wanted == SelectInSeq(q.deferred, LAMBDA t : t.kind = "completion" /\ t.pin = s)
        i == IF wanted = 0 THEN 1 ELSE wanted
    IN  IF q.deferred = <<>> THEN q
        ELSE [main |-> <<q.deferred[i]>> \o q.main, deferred |-> RemoveAt(q.deferred, i)]

(* slot.release() of the slots in S, in their order: callback_on_release is *)
(* pop_deferred_task.                                                       *)
PopForEach(S, q) ==
    LET after[n \in 0..NSlots] ==
            IF n = 0 THEN q
            ELSE IF n - 1 \in S THEN PopDeferred(after[n - 1], n - 1) ELSE after[n - 1]
    IN  after[NSlots]
Release(S) ==
    LET q == PopForEach(S, [main |-> queue, deferred |-> deferred])
    IN  /\ queue' = q.main /\ deferred' = q.deferred
        /\ slotTask'  = [s \in Slots |-> IF s \in S THEN None   ELSE slotTask[s]]
        /\ slotState' = [s \in Slots |-> IF s \in S THEN "idle" ELSE slotState[s]]

(* server_response::send: dropped unless somebody waits for the id.         *)
Send(S, result) ==
    outcome' = [id \in Ids |-> IF id \in S /\ reader[Owner[id]] = "waiting"
                               THEN result ELSE outcome[id]]

(* cleanup_pending_task of each of the ids; a CANCEL has an id of its own.  *)
Keep(q, ids) == q    \* mutant: a CANCEL does not clean up pending tasks
Without(q, ids) == KeepAt(q, {i \in DOMAIN q : q[i].kind = "cancel" \/ q[i].id \notin ids})

-----------------------------------------------------------------------------
Init ==
    /\ queue = <<>> /\ deferred = <<>> /\ current = {} /\ pc = "pop"
    /\ slotTask = [s \in Slots |-> None] /\ slotState = [s \in Slots |-> "idle"]
    /\ reader = [r \in Readers |-> "new"] /\ outcome = [id \in Ids |-> "none"]
    /\ survivors = {}

(* server_response_reader::post_tasks                                       *)
PostTasks(r) ==
    /\ reader[r] = "new"
    /\ reader' = [reader EXCEPT ![r] = "waiting"]
    /\ queue' = queue \o Batch[r]
    /\ UNCHANGED <<deferred, current, pc, slotTask, slotState, outcome, survivors>>

(* The reader has a final result for every id: stop() cancels nothing.      *)
ReceiveAll(r) ==
    /\ reader[r] = "waiting" /\ \A id \in IdsOf(r) : outcome[id] = "final"
    /\ reader' = [reader EXCEPT ![r] = "closed"]
    /\ UNCHANGED <<queue, deferred, current, pc, slotTask, slotState, outcome, survivors>>

Cancels(order) == [i \in DOMAIN order |-> Cancel(order[i])]

(* stop() with results outstanding: every id leaves the queues and a CANCEL *)
(* for it goes to the front, in the order an unordered_set is iterated.     *)
StopReader(r) ==
    /\ reader[r] = "waiting"
    /\ \E id \in IdsOf(r) : outcome[id] # "final"
    /\ MayStop \/ \E id \in IdsOf(r) : outcome[id] = "error"
    /\ reader' = [reader EXCEPT ![r] = "closed"]
    /\ \E order \in SetToSeqs(IdsOf(r)) : queue' = Cancels(order) \o Without(queue, IdsOf(r))
    /\ deferred' = Without(deferred, IdsOf(r))
    /\ UNCHANGED <<current, pc, slotTask, slotState, outcome, survivors>>

-----------------------------------------------------------------------------
(* start_loop's inner loop takes the first task off the queue.              *)
TakeTask ==
    /\ pc = "pop" /\ queue # <<>>
    /\ current' = {Head(queue)} /\ queue' = Tail(queue) /\ pc' = "callback"
    /\ UNCHANGED <<deferred, slotTask, slotState, reader, outcome, survivors>>

DeferMovedFrom(task) ==     \* mutant: the task has been moved from
    /\ deferred' = Append(deferred, NextResponse)
    /\ UNCHANGED <<queue, slotTask, slotState, outcome, survivors>>
Defer(task) ==
    /\ deferred' = Append(deferred, task)
    /\ survivors' = survivors \cup {id \in FamilyOf(task) : reader[Owner[id]] = "closed"}
    /\ UNCHANGED <<queue, slotTask, slotState, outcome>>

(* get_slot_by_id wraps around; get_available_slot chooses any idle slot    *)
(* (the longest common prefix or the least recently used one).              *)
Candidates(task) ==
    IF task.pin # -1 THEN {task.pin % NSlots} ELSE Free

(* get_free_slots: the children take the first idle slots other than the    *)
(* parent's, in order: the n-th slot the n-th child.                        *)
ChildSlotsAny(s) == Free    \* mutant: the parent's slot is not excluded
ChildSlots(s) == Free \ {s}
Place(s, x) == Cardinality({y \in ChildSlots(s) : y <= x})
Taken(task, s) == {x \in ChildSlots(s) : Place(s, x) <= Len(task.children)}

Order(task) == Append(task.children, task.id)
Assigned(task, s, n) == {x \in Taken(task, s) : Place(s, x) < n}

(* release_slots, after the n-th launch of a family was refused.            *)
FailMidway(task, s, n) ==       \* mutant: the children launched so far stay
    /\ slotTask' = [x \in Slots |->
           IF x \in Assigned(task, s, n) THEN Order(task)[Place(s, x)] ELSE slotTask[x]]
    /\ slotState' = [x \in Slots |->
           IF x \in Assigned(task, s, n) THEN "wait_other" ELSE slotState[x]]
    /\ UNCHANGED <<queue, deferred>>
FailLaunch(task, s, n) == Release(Assigned(task, s, n))

(* launch_slots_with_parent_task: the children, in order, then the parent;  *)
(* a failure sends one error and releases the slots launched so far.        *)
LaunchFamily(task, s) ==
    /\ slotTask' = [x \in Slots |->
           IF x = s THEN task.id
           ELSE IF x \in Taken(task, s) THEN Order(task)[Place(s, x)] ELSE slotTask[x]]
    /\ slotState' = [x \in Slots |->
           IF x = s THEN "prompt"
           ELSE IF x \in Taken(task, s) THEN "wait_other" ELSE slotState[x]]
    /\ UNCHANGED <<queue, deferred, outcome>>
RefuseFamily(task, s) ==
    \E bad \in DOMAIN Order(task) :
        /\ Order(task)[bad] \in Refused
        /\ Send({Order(task)[bad]}, "error") /\ FailLaunch(task, s, bad)
Launch(task, s) ==
    /\ LaunchFamily(task, s) \/ RefuseFamily(task, s)
    /\ UNCHANGED survivors

ProcessCompletion(task) ==
    /\ task.kind = "completion"
    /\ \/ /\ Candidates(task) \cap Free = {}
          /\ Defer(task)
       \/ \E s \in Candidates(task) \cap Free :
             IF Cardinality(ChildSlots(s)) < Len(task.children)
             THEN Defer(task) ELSE Launch(task, s)

(* SLOT_SAVE, SLOT_RESTORE and SLOT_ERASE work on an idle slot at once.     *)
SlotResults(task) == IF task.id \in Refused THEN {"final", "error"} ELSE {"final"}
ProcessSlotAction(task) ==
    /\ task.kind = "slot"
    /\ IF Candidates(task) \subseteq Free
       THEN /\ \E result \in SlotResults(task) : Send({task.id}, result)
            /\ UNCHANGED <<queue, deferred, slotTask, slotState, survivors>>
       ELSE Defer(task)

ProcessCancel(task) ==
    /\ task.kind = "cancel"
    /\ Release({s \in Slots : slotTask[s] = task.id})
    /\ UNCHANGED <<outcome, survivors>>

ProcessNext(task) ==
    /\ task.kind = "next"
    /\ UNCHANGED <<queue, deferred, slotTask, slotState, outcome, survivors>>

ProcessSingleTask ==
    /\ pc = "callback" /\ pc' = "pop" /\ current' = {}
    /\ \E task \in current : \/ ProcessCompletion(task) \/ ProcessSlotAction(task)
                             \/ ProcessCancel(task)     \/ ProcessNext(task)
    /\ UNCHANGED reader

(* update_slots with some slot at work: post NEXT_RESPONSE, run the batch.  *)
BeginUpdate ==
    /\ pc = "pop" /\ queue = <<>> /\ Processing # {}
    /\ queue' = <<NextResponse>> /\ pc' = "batch"
    /\ UNCHANGED <<deferred, current, slotTask, slotState, reader, outcome, survivors>>

EndUpdate ==
    /\ pc = "batch" /\ pc' = "pop"
    /\ UNCHANGED <<queue, deferred, current, slotTask, slotState, reader, outcome, survivors>>

EndTurn(S, result) ==
    /\ Send({slotTask[s] : s \in S}, result)
    /\ Release(S)
    /\ UNCHANGED <<current, pc, reader, survivors>>

(* A started prompt without tokens gets an empty final response.            *)
AnswerEmptyPrompt(s) ==
    /\ pc = "batch" /\ slotState[s] = "prompt" /\ slotTask[s] \in EmptyPrompt
    /\ EndTurn({s}, "final")

(* The prompt does not fit; or the context must shift under a shared prompt.*)
FailSlot(s) ==
    /\ pc = "batch" /\ MayFail
    /\ \/ slotState[s] = "prompt" /\ slotTask[s] \notin EmptyPrompt
       \/ /\ slotState[s] = "generating"
          /\ IsParent(slotTask[s]) \/ IsChild(slotTask[s])
    /\ EndTurn({s}, "error")

(* llama_decode fails for good: every slot that is processing, also a child *)
(* that waits, is sent an error and released.                               *)
FailBatch ==
    /\ pc = "batch" /\ MayFail /\ Processing # {}
    /\ EndTurn(Processing, "error")

(* The prompt is done: the slot generates, and so do the children that wait *)
(* for it.                                                                  *)
StartAlone(s) == {s}     \* mutant: the children are not activated
StartTogether(s) ==
    {s} \cup {x \in Slots : slotState[x] = "wait_other" /\ ParentOf[slotTask[x]] = slotTask[s]}

DonePrompt(s) ==
    /\ pc = "batch" /\ slotState[s] = "prompt" /\ slotTask[s] \notin EmptyPrompt
    /\ slotState' = [x \in Slots |->
            IF x \in StartTogether(s) THEN "generating" ELSE slotState[x]]
    /\ UNCHANGED <<queue, deferred, current, pc, slotTask, reader, outcome, survivors>>

(* process_token says stop: final response, release.                        *)
Finish(s) ==
    /\ pc = "batch" /\ slotState[s] = "generating"
    /\ EndTurn({s}, "final")

-----------------------------------------------------------------------------
LoopStep ==
    \/ TakeTask \/ ProcessSingleTask \/ BeginUpdate \/ EndUpdate

SlotStep(s) ==
    \/ AnswerEmptyPrompt(s) \/ DonePrompt(s) \/ Finish(s)

Next ==
    \/ LoopStep \/ FailBatch
    \/ \E s \in Slots : SlotStep(s) \/ FailSlot(s)
    \/ \E r \in Readers : PostTasks(r) \/ ReceiveAll(r) \/ StopReader(r)

Spec == Init /\ [][Next]_vars

(* The loop runs; prompts are processed and generations end; a reader takes *)
(* the results it waits for.  Failures and stops are owed by nobody, but an *)
(* error that arrived makes the reader stop.                                *)
Fairness ==
    /\ WF_vars(LoopStep)
    /\ \A s \in Slots : SF_vars(SlotStep(s))
    /\ \A r \in Readers :
        /\ WF_vars(PostTasks(r)) /\ WF_vars(ReceiveAll(r))
        /\ SF_vars(StopReader(r) /\ \E id \in IdsOf(r) : outcome[id] = "error")

FairSpec == Spec /\ Fairness

-----------------------------------------------------------------------------
(* Queues, slots, readers and results stay within their types.              *)
TypeOK ==
    /\ queue \in Seq(Task) /\ deferred \in Seq(Posted)
    /\ current \subseteq Task /\ Cardinality(current) <= 1
    /\ pc \in {"pop", "callback", "batch"}
    /\ slotTask \in [Slots -> Ids \cup {None}]
    /\ slotState \in [Slots -> {"idle", "prompt", "wait_other", "generating"}]
    /\ reader \in [Readers -> {"new", "waiting", "closed"}]
    /\ outcome \in [Ids -> {"none", "final", "error"}]
    /\ survivors \subseteq Ids

Occurrences(q, id) == Cardinality({i \in DOMAIN q : q[i].kind # "cancel" /\ id \in FamilyOf(q[i])})
HeldBySlots(id) == Cardinality({s \in Slots : slotTask[s] = id})
Pending(id) == Occurrences(queue, id) + Occurrences(deferred, id)
               + Cardinality({t \in current : t.kind # "cancel" /\ id \in FamilyOf(t)})

(* A task is queued, deferred, in process or in a slot, never in two of     *)
(* these, and once a final result went out it is in none of them.           *)
OnePlace ==
    \A id \in Ids :
        /\ Pending(id) + HeldBySlots(id) <= 1
        /\ outcome[id] # "none" => HeldBySlots(id) = 0
        /\ outcome[id] = "final" => Pending(id) = 0

CancelComing(id) == Cancel(id) \in ToSet(queue) \cup current

InQueues(id) == Occurrences(queue, id) + Occurrences(deferred, id) > 0

(* The work of a request nobody waits for: none of it is in a queue, and    *)
(* what is in a slot has a CANCEL on its way (post cleans the queues, the   *)
(* CANCEL releases the slot).  The one task that escapes was in process     *)
(* when its CANCEL was posted, found no slot and was deferred.              *)
NoOrphanWork ==
    \A id \in Ids : reader[Owner[id]] = "closed" /\ id \notin survivors =>
        /\ ~InQueues(id)
        /\ InSlot(id) => CancelComing(id)

(* A child waits for a parent that is still processing the prompt, or it is *)
(* about to be cancelled: an error of its family has been sent or a CANCEL  *)
(* for it is in the queue.  Left waiting are the children of a survivor and *)
(* of a parent that was answered because its prompt is empty.               *)
ChildHasParent ==
    \A s \in Slots : slotState[s] = "wait_other" =>
        LET parent == ParentOf[slotTask[s]]
        IN  \/ \E p \in Slots : slotState[p] = "prompt" /\ slotTask[p] = parent
            \/ outcome[parent] = "error"
            \/ CancelComing(slotTask[s])
            \/ slotTask[s] \in survivors
            \/ parent \in EmptyPrompt /\ outcome[parent] = "final"

(* No slot works for nobody or waits for nobody.                            *)
NoOrphans == NoOrphanWork /\ ChildHasParent

(* "if tasks is not finished yet, cancel them" (stop): no slot works for a  *)
(* closed reader unless a CANCEL is on its way.                             *)
StoppedIsCancelled ==
    \A s \in Processing :
        reader[Owner[slotTask[s]]] = "closed" => CancelComing(slotTask[s])

(* The loop only rests with nothing deferred: a task is deferred until one  *)
(* slot is available, and then they all are.                                *)
NothingDeferredAtRest ==
    pc = "pop" /\ queue = <<>> /\ Processing = {} => deferred = <<>>

(* Every request is answered: all its tasks end and its reader is done.     *)
EveryReaderCloses == \A r \in Readers : reader[r] = "waiting" ~> reader[r] = "closed"

(* "after assigning a task, but waiting for parent slot to process prompt": *)
(* a child slot does not wait for ever.                                     *)
ChildIsActivated ==
    \A s \in Slots : slotState[s] = "wait_other" ~> slotState[s] # "wait_other"

(* The scheduler implements TaskLifecycle.                                  *)
Phase(id) ==
    IF InSlot(id) THEN "running"
    ELSE IF Pending(id) > 0 THEN "pending"
    ELSE IF reader[Owner[id]] = "new" THEN "absent" ELSE "ended"

Lifecycle == INSTANCE TaskLifecycle WITH
    Capacity <- NSlots,
    phase <- [id \in Ids |-> Phase(id)],
    open <- {r \in Readers : reader[r] = "waiting"}

ImplementsLifecycle == Lifecycle!Spec
=============================================================================
