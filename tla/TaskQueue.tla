------------------------------ MODULE TaskQueue ------------------------------
(***************************************************************************)
(* server_queue (core/src/server/server-queue.h, server-queue.cpp): the    *)
(* queue between the HTTP threads and the one thread that runs the model.  *)
(*                                                                         *)
(* Every method of the queue is a critical section of mutex_tasks and is   *)
(* one action here; a wait on condition_tasks splits a method in two.  The *)
(* unlocked parts of start_loop (the two callbacks) are separate actions,  *)
(* so that every other thread can come in between.  The callbacks are      *)
(* those of server_context, reduced to what they do to the queue: a task   *)
(* is answered at once, takes one of NSlots slots or is deferred; a slot   *)
(* that is released moves one deferred task back.  SlotScheduler models    *)
(* them in full.                                                           *)
(*                                                                         *)
(* Time is one bit: idle says that idle_sleep_ms have passed since         *)
(* time_last_task was last written.                                        *)
(***************************************************************************)
EXTENDS Integers, Sequences, FiniteSets, SequencesExt

CONSTANTS
    Clients,        \* HTTP threads
    MainThread,     \* the thread inside start_loop
    MaxTasks,       \* bound: task ids handed out by get_new_id
    NSlots,         \* slots of the server_context
    CanSleep,       \* idle_sleep_ms >= 0
    Control,        \* ids of tasks that need no slot (METRICS, GET_LORA, SET_LORA)
    MayTerminate,   \* terminate() may be called
    PromptWakeup    \* no idle period elapses while a woken client is runnable

ASSUME TaskQueueAssumption ==
    /\ MainThread \notin Clients
    /\ MaxTasks \in Nat
    /\ NSlots \in Nat \ {0}
    /\ Control \subseteq 1..MaxTasks
    /\ {CanSleep, MayTerminate, PromptWakeup} \subseteq BOOLEAN

VARIABLES
    queueTasks,     \* queue_tasks
    queueDeferred,  \* queue_tasks_deferred
    nextId,         \* id, the counter of get_new_id
    running,        \* running
    sleeping,       \* sleeping
    reqStop,        \* req_stop_sleeping
    idle,           \* should_sleep(), see above
    waiting,        \* threads blocked on condition_tasks
    loaded,         \* the model is in memory (callback_sleeping_state)
    mainPc,         \* where start_loop is
    current,        \* the task given to callback_new_task, a set of at most one
    busy,           \* ids of the tasks that occupy a slot
    answered,       \* ids whose final result has been sent
    cancelled,      \* ids a CANCEL was posted for
    clientPc,       \* where each HTTP thread is
    clientId        \* the id each HTTP thread waits for, 0 for none

queueVars  == <<queueTasks, queueDeferred, nextId>>
flagVars   == <<running, sleeping, reqStop, idle>>
slotVars   == <<current, busy, answered>>
clientVars == <<clientPc, clientId, cancelled>>
vars == <<queueVars, flagVars, waiting, loaded, mainPc, slotVars, clientVars>>

Ids     == 1..MaxTasks
Threads == Clients \cup {MainThread}

(* The task types the queue tells apart, the id of a CANCEL being its       *)
(* id_target.  The fresh ids that CANCEL and NEXT_RESPONSE tasks draw for   *)
(* themselves are read by nobody and are not counted.                       *)
Work(id)     == [type |-> "work",   id |-> id]
Cancel(id)   == [type |-> "cancel", id |-> id]
NextResponse == [type |-> "next",   id |-> 0]
Task == {Work(id) : id \in Ids} \cup {Cancel(id) : id \in Ids} \cup {NextResponse}

MainPcs   == {"off", "pop", "callback", "update", "decode", "stamp", "check",
              "waittask", "asleep", "returned"}
ClientPcs == {"idle", "waking", "tokenize", "recv"}

-----------------------------------------------------------------------------
(* condition_tasks: notify_one wakes one blocked thread, whichever.         *)
NotifyOne == waiting' \in IF waiting = {} THEN {{}}
                          ELSE {waiting \ {t} : t \in waiting}
NotifyNobody == UNCHANGED waiting    \* mutant: the notification is forgotten
NotifyAll == waiting' = {}

Touch == idle' = FALSE    \* time_last_task = ggml_time_ms()

TakeTwoIds == nextId' = nextId + 2    \* mutant: post() assigns an id once more
TakeId == nextId' = nextId + 1        \* id++

(* An id is in a queue at most once (Conservation), so remove_if drops one. *)
Without(queue, target) == RemoveFirst(queue, Work(target))

(* pop_deferred_task, called by slot.release(); slots are not told apart    *)
(* here, so the first deferred task is taken.                               *)
PopNothing == UNCHANGED <<queueTasks, queueDeferred>>    \* mutant: no callback on release
PopAndKeep ==                                            \* mutant: the erase is forgotten
    /\ queueTasks' = SelectSeq(queueDeferred, LAMBDA t : t = Head(queueDeferred)) \o queueTasks
    /\ UNCHANGED queueDeferred
PopDeferred ==
    IF queueDeferred = <<>>
    THEN UNCHANGED <<queueTasks, queueDeferred>>
    ELSE /\ queueTasks' = <<Head(queueDeferred)>> \o queueTasks
         /\ queueDeferred' = Tail(queueDeferred)

-----------------------------------------------------------------------------
Init ==
    /\ queueTasks = <<>> /\ queueDeferred = <<>> /\ nextId = 1
    /\ running = FALSE /\ sleeping = FALSE /\ reqStop = FALSE /\ idle = FALSE
    /\ waiting = {} /\ loaded = TRUE
    /\ mainPc = "off" /\ current = {} /\ busy = {} /\ answered = {}
    /\ cancelled = {}
    /\ clientPc = [c \in Clients |-> "idle"]
    /\ clientId = [c \in Clients |-> 0]

(* Time passes without anybody writing time_last_task.                      *)
IdleElapse ==
    /\ CanSleep /\ ~idle /\ mainPc # "off"
    /\ PromptWakeup => \A c \in Clients : clientPc[c] = "waking" => c \in waiting
    /\ idle' = TRUE
    /\ UNCHANGED <<queueVars, running, sleeping, reqStop, waiting, loaded,
                   mainPc, slotVars, clientVars>>

-----------------------------------------------------------------------------
(* start_loop.                                                              *)
StartLoop ==
    /\ mainPc = "off"
    /\ running' = TRUE /\ Touch /\ mainPc' = "pop"
    /\ UNCHANGED <<queueVars, sleeping, reqStop, waiting, loaded, slotVars, clientVars>>

PopTask ==
    /\ mainPc = "pop"
    /\ \/ /\ ~running
          /\ mainPc' = "returned" /\ UNCHANGED <<queueTasks, current>>
       \/ /\ running /\ queueTasks = <<>>
          /\ mainPc' = "update" /\ UNCHANGED <<queueTasks, current>>
       \/ /\ running /\ queueTasks # <<>>
          /\ current' = {Head(queueTasks)} /\ queueTasks' = Tail(queueTasks)
          /\ mainPc' = "callback"
    /\ UNCHANGED <<queueDeferred, nextId, flagVars, waiting, loaded, busy,
                   answered, clientVars>>

(* callback_new_task = server_context_impl::process_single_task.            *)
ProcessWork(task) ==
    /\ task.type = "work"
    /\ \/ /\ task.id \in Control
          /\ answered' = answered \cup {task.id}
          /\ UNCHANGED <<busy, queueTasks, queueDeferred, idle, waiting>>
       \/ /\ task.id \notin Control /\ Cardinality(busy) < NSlots
          /\ busy' = busy \cup {task.id}
          /\ UNCHANGED <<answered, queueTasks, queueDeferred, idle, waiting>>
       \/ /\ task.id \notin Control /\ Cardinality(busy) >= NSlots
          /\ queueDeferred' = Append(queueDeferred, task)
          /\ Touch /\ NotifyOne
          /\ UNCHANGED <<busy, answered, queueTasks>>

ProcessCancel(task) ==
    /\ task.type = "cancel"
    /\ IF task.id \in busy
       THEN /\ busy' = busy \ {task.id}
            /\ PopDeferred /\ Touch /\ NotifyOne
       ELSE UNCHANGED <<busy, queueTasks, queueDeferred, idle, waiting>>
    /\ UNCHANGED answered

CallbackNewTask ==
    /\ mainPc = "callback"
    /\ \E task \in current :
          \/ ProcessWork(task)
          \/ ProcessCancel(task)
          \/ /\ task.type = "next"
             /\ UNCHANGED <<busy, answered, queueTasks, queueDeferred, idle, waiting>>
    /\ current' = {} /\ mainPc' = "pop"
    /\ UNCHANGED <<nextId, running, sleeping, reqStop, loaded, clientVars>>

(* callback_update_slots = server_context_impl::update_slots: nothing when  *)
(* every slot is idle, else post NEXT_RESPONSE and then run the batch.      *)
PostNothing == UNCHANGED queueTasks    \* mutant: slots are left to themselves
PostNext == queueTasks' = Append(queueTasks, NextResponse)

UpdateSlots ==
    /\ mainPc = "update"
    /\ \/ /\ busy = {}
          /\ mainPc' = "stamp" /\ UNCHANGED <<queueTasks, idle, waiting>>
       \/ /\ busy # {}
          /\ PostNext /\ Touch /\ NotifyOne
          /\ mainPc' = "decode"
    /\ UNCHANGED <<queueDeferred, nextId, running, sleeping, reqStop, loaded,
                   slotVars, clientVars>>

FinishSlot(id) ==
    /\ mainPc = "decode" /\ id \in busy
    /\ busy' = busy \ {id} /\ answered' = answered \cup {id}
    /\ PopDeferred /\ Touch /\ NotifyOne
    /\ UNCHANGED <<nextId, running, sleeping, reqStop, loaded, mainPc, current, clientVars>>

EndUpdate ==
    /\ mainPc = "decode" /\ mainPc' = "stamp"
    /\ UNCHANGED <<queueVars, flagVars, waiting, loaded, slotVars, clientVars>>

StampTime ==
    /\ mainPc = "stamp"
    /\ Touch /\ mainPc' = "check"
    /\ UNCHANGED <<queueVars, running, sleeping, reqStop, waiting, loaded, slotVars, clientVars>>

(* The head of the waiting loop; with no task it either unloads the model   *)
(* and sleeps, or waits at most max_wait_time for a task.                   *)
CheckWork ==
    /\ mainPc = "check" /\ (~running \/ queueTasks # <<>>)
    /\ mainPc' = "pop"
    /\ UNCHANGED <<queueVars, flagVars, waiting, loaded, slotVars, clientVars>>

EnterSleep ==
    /\ mainPc = "check" /\ running /\ queueTasks = <<>>
    /\ CanSleep /\ idle
    /\ sleeping' = TRUE /\ loaded' = FALSE /\ reqStop' = FALSE
    /\ waiting' = waiting \cup {MainThread} /\ mainPc' = "asleep"
    /\ UNCHANGED <<queueVars, running, idle, slotVars, clientVars>>

WaitForTask ==
    /\ mainPc = "check" /\ running /\ queueTasks = <<>>
    /\ ~(CanSleep /\ idle)
    /\ waiting' = waiting \cup {MainThread} /\ mainPc' = "waittask"
    /\ UNCHANGED <<queueVars, flagVars, loaded, slotVars, clientVars>>

WaitTimeout ==
    /\ mainPc = "waittask"
    /\ waiting' = waiting \ {MainThread} /\ mainPc' = "check"
    /\ UNCHANGED <<queueVars, flagVars, loaded, slotVars, clientVars>>

MainWoken ==
    /\ mainPc = "waittask" /\ MainThread \notin waiting
    /\ IF queueTasks # <<>> \/ ~running
       THEN mainPc' = "pop" /\ UNCHANGED waiting
       ELSE waiting' = waiting \cup {MainThread} /\ UNCHANGED mainPc
    /\ UNCHANGED <<queueVars, flagVars, loaded, slotVars, clientVars>>

(* The wait inside the sleeping branch: terminate leaves it with sleeping   *)
(* still set and the model unloaded.                                        *)
SleepWoken ==
    /\ mainPc = "asleep" /\ MainThread \notin waiting
    /\ \/ /\ running /\ ~reqStop
          /\ waiting' = waiting \cup {MainThread}
          /\ UNCHANGED <<sleeping, reqStop, idle, loaded, mainPc>>
       \/ /\ ~running
          /\ mainPc' = "pop" /\ UNCHANGED <<sleeping, reqStop, idle, loaded, waiting>>
       \/ /\ running /\ reqStop
          /\ reqStop' = FALSE /\ loaded' = TRUE /\ sleeping' = FALSE
          /\ Touch /\ NotifyAll /\ mainPc' = "pop"
    /\ UNCHANGED <<queueVars, running, slotVars, clientVars>>

-----------------------------------------------------------------------------
(* The HTTP threads.  create_response() begins every handler: it returns at *)
(* once unless the queue is sleeping.                                       *)
CreateResponse(c) ==
    /\ clientPc[c] = "idle" /\ nextId <= MaxTasks
    /\ \/ /\ ~sleeping
          /\ clientPc' = [clientPc EXCEPT ![c] = "tokenize"]
          /\ UNCHANGED <<reqStop, waiting>>
       \/ /\ sleeping
          /\ reqStop' = TRUE
          /\ \E rest \in IF reqStop \/ waiting = {} THEN {waiting}
                         ELSE {waiting \ {t} : t \in waiting} :
                waiting' = rest \cup {c}
          /\ clientPc' = [clientPc EXCEPT ![c] = "waking"]
    /\ UNCHANGED <<queueVars, running, sleeping, idle, loaded, mainPc, slotVars,
                   clientId, cancelled>>

ClientWoken(c) ==
    /\ clientPc[c] = "waking" /\ c \notin waiting
    /\ IF sleeping
       THEN waiting' = waiting \cup {c} /\ UNCHANGED clientPc
       ELSE clientPc' = [clientPc EXCEPT ![c] = "tokenize"] /\ UNCHANGED waiting
    /\ UNCHANGED <<queueVars, flagVars, loaded, mainPc, slotVars, clientId, cancelled>>

(* get_new_id and post of a request whose prompt has been tokenized.        *)
PostTask(c) ==
    /\ clientPc[c] = "tokenize" /\ nextId <= MaxTasks
    /\ queueTasks' = Append(queueTasks, Work(nextId)) /\ TakeId
    /\ clientId' = [clientId EXCEPT ![c] = nextId]
    /\ clientPc' = [clientPc EXCEPT ![c] = "recv"]
    /\ Touch /\ NotifyOne
    /\ UNCHANGED <<queueDeferred, running, sleeping, reqStop, loaded, mainPc,
                   slotVars, cancelled>>

Receive(c) ==
    /\ clientPc[c] = "recv" /\ clientId[c] \in answered
    /\ clientPc' = [clientPc EXCEPT ![c] = "idle"]
    /\ clientId' = [clientId EXCEPT ![c] = 0]
    /\ UNCHANGED <<queueVars, flagVars, waiting, loaded, mainPc, slotVars, cancelled>>

(* server_response_reader::stop before the result arrived: a CANCEL goes to *)
(* the front and the pending task out of both queues.                       *)
StopReader(c) ==
    /\ clientPc[c] = "recv" /\ clientId[c] \notin answered
    /\ LET id == clientId[c] IN
       /\ queueTasks' = <<Cancel(id)>> \o Without(queueTasks, id)
       /\ queueDeferred' = Without(queueDeferred, id)
       /\ cancelled' = cancelled \cup {id}
    /\ clientPc' = [clientPc EXCEPT ![c] = "idle"]
    /\ clientId' = [clientId EXCEPT ![c] = 0]
    /\ Touch /\ NotifyOne
    /\ UNCHANGED <<nextId, running, sleeping, reqStop, loaded, mainPc, slotVars>>

(* terminate(): the loop is told to return.                                 *)
Terminate ==
    /\ MayTerminate /\ running
    /\ running' = FALSE /\ NotifyAll
    /\ UNCHANGED <<queueVars, sleeping, reqStop, idle, loaded, mainPc, slotVars, clientVars>>

MainStep ==
    \/ StartLoop \/ PopTask \/ CallbackNewTask \/ UpdateSlots
    \/ (\E id \in Ids : FinishSlot(id)) \/ EndUpdate \/ StampTime
    \/ CheckWork \/ EnterSleep \/ WaitForTask \/ MainWoken \/ SleepWoken

ClientStep(c) ==
    \/ CreateResponse(c) \/ ClientWoken(c) \/ PostTask(c)
    \/ Receive(c) \/ StopReader(c)

Next ==
    \/ MainStep \/ WaitTimeout \/ IdleElapse \/ Terminate
    \/ \E c \in Clients : ClientStep(c)

Spec == Init /\ [][Next]_vars

(* The loop thread is scheduled; a slot finishes its generation in the end; *)
(* a handler that was woken, has a prompt or has a result goes on.  Nothing *)
(* is owed by time, by new requests, by cancellation or by terminate().     *)
Fairness ==
    /\ WF_vars(MainStep)
    /\ \A id \in Ids : SF_vars(FinishSlot(id))
    /\ \A c \in Clients : /\ WF_vars(ClientWoken(c))
                          /\ WF_vars(PostTask(c))
                          /\ WF_vars(Receive(c))

FairSpec == Spec /\ Fairness

-----------------------------------------------------------------------------
Occurrences(queue, task) == Cardinality({i \in DOMAIN queue : queue[i] = task})
In(b) == IF b THEN 1 ELSE 0

(* How often the task of an id is held somewhere, or has been answered.     *)
Held(id) ==
    Occurrences(queueTasks, Work(id)) + Occurrences(queueDeferred, Work(id))
    + In(Work(id) \in current) + In(id \in busy) + In(id \in answered)

(* Types of the queue's fields, of the flags and of the threads' places.    *)
TypeOK ==
    /\ queueTasks \in Seq(Task) /\ queueDeferred \in Seq(Task)
    /\ nextId \in 1..(MaxTasks + 1)
    /\ {running, sleeping, reqStop, idle, loaded} \subseteq BOOLEAN
    /\ waiting \subseteq Threads /\ mainPc \in MainPcs
    /\ current \subseteq Task /\ Cardinality(current) <= 1
    /\ busy \subseteq Ids /\ answered \subseteq Ids /\ cancelled \subseteq Ids
    /\ clientPc \in [Clients -> ClientPcs] /\ clientId \in [Clients -> 0..MaxTasks]

(* Through posting, deferring, popping and cancelling by different threads  *)
(* a task is never lost and never doubled: it is in exactly one place until *)
(* it is answered, and in at most one once its cancellation was posted.     *)
Conservation ==
    \A id \in 1..(nextId - 1) :
        /\ Held(id) <= 1
        /\ id \notin cancelled => Held(id) = 1

(* The model is unloaded only while no slot is processing, although the     *)
(* sleep condition looks at the queue and the clock and never at the slots. *)
AsleepIsIdle == ~loaded => busy = {}

(* create_response() "can handle sleeping case correctly": the handler it   *)
(* lets through works with the model's vocabulary until it posts.           *)
TokenizeWithModel ==
    \A c \in Clients : clientPc[c] = "tokenize" => loaded

(* A task that was posted is answered, deferred or not, unless the loop is  *)
(* told to stop.  Two things break the promise and are excluded: a server   *)
(* that stays asleep (post() wakes nobody up) and a cancelled request (the  *)
(* move that a release owes to the deferred tasks is lost with it).  A      *)
(* third, a launch that is refused, is not in this module: a task that      *)
(* finds a slot takes it (NothingDeferredAtRest of SlotScheduler).          *)
Served ==
    (<>[]~sleeping /\ [](cancelled = {})) =>
        \A id \in Ids : (id < nextId) ~> (id \in answered \/ ~running)

(* The notify_one of wait_until_no_sleep: "only main thread is waiting on    *)
(* this", which is what makes one notification enough.                      *)
OnlyMainWaits == sleeping /\ ~reqStop => waiting \subseteq {MainThread}

(* A handler that waits for the server to wake up is let through, unless    *)
(* the loop is told to stop: terminate() leaves sleeping set.               *)
WakesUp == \A c \in Clients : clientPc[c] = "waking" ~> (clientPc[c] # "waking" \/ ~running)

(* terminate() ends the start_loop routine, asleep or awake.                *)
TerminateEnds == (~running /\ mainPc # "off") ~> mainPc = "returned"

(* Nobody waits for ever on condition_tasks, neither a handler for the      *)
(* server to wake up nor start_loop for work once it was told to stop.      *)
NobodyIsStuck == WakesUp /\ TerminateEnds
=============================================================================
