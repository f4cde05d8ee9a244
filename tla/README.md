# Formal models of llama.go

TLA+ modules that model the inference server of llama.go, configurations that
check them with TLC on small instances, and proofs that TLAPS checks for all
instances. Paths are relative to the repository; line numbers of every
definition are in `PROJECT.json` under `map`.

Contents: 1 the system, 2 its components and what makes them correct,
3 modules, 4 runs, 5 bounds, 6 fairness, 7 proofs, 8 divergences between code
and comments, 9 what is not modelled, 10 plan.

## 1. The system

llama.go is a Go program around a C++ core. `llama serve` starts the core in a
goroutine, waits until it reports that it is running, and serves HTTP. A
request goes through these parts:

    HTTP client
      -> gin handler (server/routes)       takes a channel from wrapper.NewChan
      -> goroutine -> llama_gen/llama_chat (cgo)
           -> Server::process -> handle_completions_impl
                tokenizes, posts tasks     -> server_queue       (mutex, condition)
                waits for results          <- server_response    (mutex, condition)
           -> flush_http_response_to_sink  -> PushToChan -> handler -> client
    one loop thread: server_queue::start_loop
           -> callback_new_task  = process_single_task  (assigns slots, defers, cancels)
           -> callback_update_slots = update_slots      (one llama_decode cycle of all slots)
           -> callback_sleeping_state                   (unloads, reloads the model)

Threads: one loop thread, one thread per request in the core, one goroutine
per handler, the service's goroutines, and signal handling. Everything in the
slots belongs to the loop thread; the two queues, the results, the map of
channels and a few flags are shared.

## 2. Components

For each part: state, operations, what is hard, what makes it correct. The
full list with the reasons for what is left out is `components` in
`PROJECT.json`; the places where the code is hard to test are `hazards`.

**Task queue** (`core/src/server/server-queue.cpp:22-222`). State: the queue,
the deferred queue, `running`, `sleeping`, `req_stop_sleeping`, the time of the
last task. Operations: `post`, `defer`, `get_new_id`, `pop_deferred_task`,
`wait_until_no_sleep`, `terminate`, `start_loop`. Hard: one condition variable
for two kinds of waiters, callbacks that run without the lock, sleeping that is
decided from the queue and a clock and never from the slots. Correct if no task
is lost or doubled, nothing waits although it could go on, and the model is
never unloaded under a slot that works.

**Results and readers** (`server-queue.cpp:224-450`). State: the waiting ids,
the results, per reader what it has received. Operations: register, `send`,
`recv_with_timeout`, `next`, `stop`. Hard: results that arrive before anybody
waits, time-outs that race with results, readers that give up. Correct if each
result reaches its reader once and in order, and a reader that closes leaves
neither results nor waiting ids behind.

**Slot scheduling** (`server-context.cpp:913-1000, 1602-1896`). State: the task
and the state of each slot. Operations: choose a slot, launch a task or a
parent with its children, defer, cancel, slot actions, release. Hard: children
need several slots at once, a launch may fail half-way, a CANCEL races with the
task it is for. Correct if a task is in one place, families start together, a
request that was given up leaves no work but the one task that was in process
when its CANCEL was posted, and every request is answered.

**Continuous batching** (`server-context.cpp:1939-2854`). State per slot: the
prompt tokens, the KV cells, the index into the batch, drafts, counters; and
the batch. One call runs through phases over all slots. Hard: positions,
indices and cells must agree over context shifts, cached prefixes, drafts that
are partly rejected, views of the batch, retries with smaller views, purges of
idle slots, and failures in the middle. Correct if between updates tokens and
cells agree, each slot samples its own output, the limits hold, and every task
ends with one answer.

**Start, stop and the Go bridge** (`wrapper/bridge.go`, `runner/runner.go`,
`server/service.go`, `core/src/process.cpp`, `core/src/server/server.cpp`,
`server/routes/handlers.go`, `utils.go`). State: the map of channels, flags on
both sides of cgo. Hard: an unbuffered channel between a goroutine and a
handler either of which may stop, three flags for one loop. Correct if an
answer arrives whole or not at all, nobody sends on a closed channel, requests
come only while the core is loaded, and every handler ends.

**Text of an answer** (`server-context.cpp:344-372, 1192-1321, 1375-1470`,
`server-task.cpp:690-1430`). State: the text of the slot, how much of it was
sent, why it stopped; on the other side of the result queue the text received,
the message parsed from it, and which blocks of the stream are open.
Operations: `process_token`, `find_stopping_strings`, `send_partial_response`,
`send_final_response`, `update` and `to_json` of the results. Hard: stop words
and characters are cut by tokens, text is held back and caught up with, four
formats keep their own idea of what was opened, and the last parse may show
what the partial ones did not. Correct if the text sent is the text generated,
no part of a stop word shows, and blocks and deltas of a stream add up to the
message.

**Reuse of prompts and prompt cache** (`server-context.cpp:913-1100, 2220-2560`,
`server-task.cpp:1841-2005`). State: per slot its tokens, cells, checkpoints and
adapters; the states of the cache under two limits; saved files. Operations:
choice of a slot by similarity, `alloc`, `load`, `update`, reuse by prefix, by
chunks and by checkpoint, slot actions. Hard: six ways to change tokens, cells
and checkpoints, each of which may fail half-way. Correct if what is kept names
the tokens its cells were computed from, the window a slot needs is there, and
the cache keeps its limits.

**Model router** (`server-models.h`, `server-models.cpp`). State: the
status of every model, the set of models that are to stop, three threads and a
process per instance. Operations: `load_models`, `load`, `unload`, `unload_lru`,
`unload_all`, `update_status`, `wait_until_loaded`, `ensure_model_loaded`. Hard:
one mutex that every wait gives up, three threads that write a status, a child
that may die at any point. Correct if the status tells the truth, the limit
holds, and every request for a model ends. Nothing in this repository calls the
router yet; it is part of the core that is built.

**Stream parsers** (`model/thinking`, `model/harmony`, `model/parsers`): the
same answer for any cut of the text into chunks, nothing lost. **Downloads**
(`server/routes/model.go`): cancelled, short and concurrent pulls. **History
and line buffer** (`common/readline`). These are in the plan. Formats,
templates, file readers, the client and the command line keep no state that
outlives a call.

## 3. Modules

| Module | Models | Notes |
|---|---|---|
| `TaskQueue` | `server_queue` and the threads that call it | one action per critical section of `mutex_tasks`; the two callbacks are actions of their own |
| `TaskQueue_proofs` | theorems on `TaskQueue` | |
| `TaskLifecycle` | what the scheduler promises | abstract: pending, running, ended, open requests |
| `SlotScheduler` | `process_single_task`, launch, release, outcome of `update_slots` | refines `TaskLifecycle` |
| `MCSlotScheduler` | the workloads of its runs | |
| `SlotScheduler_proofs` | its theorems and the refinement of `TaskLifecycle` | |
| `UpdateSlots` | `update_slots` in detail | one action per slot and phase |
| `MCUpdateSlots` | requests and parameters of its runs | |
| `UpdateSlots_proofs` | its theorems | |
| `ResponseReader` | `server_response`, `server_response_reader` | one action per critical section of `mutex_results` |
| `Queues` | removal from the middle of a queue (`KeepAt`) | `std::remove_if` as a recursive function |
| `MCResponseReader` | its instance | |
| `ResponseReader_proofs` | its theorems | |
| `GoBridge` | service, core thread, handlers and goroutines | |
| `GoBridge_proofs` | its theorems | |
| `PromptReuse` | what slots and the prompt cache keep of earlier prompts | has contents where `UpdateSlots` has counts |
| `MCPromptReuse` | prompts and parameters of its runs | |
| `PromptReuse_proofs` | its theorems | |
| `AnswerStream` | from sampled tokens to the events of a stream | two threads and the results between them |
| `MCAnswerStream` | requests of its runs | |
| `AnswerStream_proofs` | its theorems | |
| `ServerModels` | the router and the threads of its instances | one action per critical section of the mutex |
| `ServerModels_proofs` | its theorems | |

How they fit together. `TaskQueue` has the queue in full and the callbacks
reduced to what they do to the queue. `SlotScheduler` has the callbacks'
decisions in full and the queue reduced to its two sequences. `UpdateSlots` has
one update in full, and its scheduler is reduced to launches and cancels
between updates. `ResponseReader` takes over `AnsweredOnce` of `UpdateSlots` as
the behaviour of its producer, and `GoBridge` takes the order `NothingLost`
guarantees as the behaviour of its results. `PromptReuse` gives contents to the
cells that `UpdateSlots` counts, and decides what that module leaves open, the
length of the reused prefix and the slot. `AnswerStream` has the text of one slot
and the reader of its results, which arrive in order because of `NothingLost`.
`ServerModels` stands beside them: its children are whole servers. What one
module assumes of its neighbour another one checks.

### TaskQueue

Variables carry the names of the fields. `mainPc` is where `start_loop` is:
popping under the lock, in a callback, after the batch, deciding to sleep,
waiting, asleep. `waiting` is the set of threads blocked on `condition_tasks`;
`notify_one` removes any one of them, and a thread that was removed goes on in
a later step, as a woken thread must take the mutex first. The clock is a bit:
`idle` says that the idle period has passed since `time_last_task` was written.
Handlers create a response (`wait_until_no_sleep`), tokenize, post, receive or
give up. `AsleepIsIdle` holds although sleeping is decided from queue and clock
alone, because `update_slots` posts a NEXT_RESPONSE task whenever a slot works.

### SlotScheduler and TaskLifecycle

A task is a record with its id, the slot it asks for and its children. The loop
takes a task in one step and processes it in another; readers may post in
between, as `start_loop` gives the lock up there. A CANCEL posted then finds the
task in neither queue, and if the callback defers the task, the CANCEL releases
nothing: `survivors`, a history variable, names the ids that were deferred after
their reader had closed. Whether a launch is refused shows when it is tried
(`RefuseFamily`); children come before their parent (`Order`), and those that had
a slot already (`Assigned`) are released (`FailLaunch`).
The turn of a slot inside an update ends in any way it can: prompt done, token
sampled, answered, failed, whole batch failed. The mapping to `TaskLifecycle`
calls a task running when it is in a slot, pending when it is in a queue or in
process, and ended otherwise. `TaskLifecycle` lets a family start together
(`Start`) or not at all (`Refuse`), and lets the end of a request (`Close`) miss
one of its families: the one in process.

### UpdateSlots

A token is its position: a prompt is a count `nTokens`, the memory of a slot a
count `kv` of cells, a batch a sequence of (slot, position). `pc` and `at` walk
through the phases shift, sampled, prompts, decode, sample, verify over the
slots in order, as the loops of the function do; `head`, `view` and `nBatch`
are the variables of the decoding loop. Which prefix of a new prompt is cached
is a choice of any length. `llama_decode` is external: it takes a view whose
positions go on where the cells end (`Consecutive`), may find no cells
(`MayFill`) and may fail (`MayBreak`).
Abstracted: alora and rerank, multimodal chunks, checkpoints and
`n_cache_reuse` (`PromptReuse` has them), the `n_discard` parameter (its default,
half, is taken), the check for memory-less models, and the adapters in
`can_batch_with` (a slot with others waits for the next batch, as one with a task
of another kind does).

`torn` records that a view ended inside a draft or inside the prompt of a
parent that is done. The code has no guard against either: draft indices are
those of the whole batch (`server-context.cpp:2796-2801`) and the children of a
parent are activated after any view (2689). Properties about cells and outputs
are stated for executions without a torn view; the torn ones are the subject of
run `UpdateSlotsTorn`.

What else the model shows of the code, each of it allowed by the properties:
a prompt that cannot be split and waits for the next batch has dropped its
tokens and kept its cells, and if it is cancelled there the cells stay, unseen
by `try_clear_idle_slots`; a batch may be longer than `n_batch` when drafts are
added (the comment at 801 expects it); with drafts `n_decoded` is raised before
the tokens are looked at, so an answer may have fewer tokens than counted;
`n_remaining` of the last task limits the drafts of the next one if that has no
limit of its own.

### ResponseReader

Two histories, `sent` and `got`, number the results of each id. A reader
registers its ids, posts, scans, waits, times out, and on `stop` takes its ids
off, erases its results and posts the CANCELs, each under the lock the code
takes (the lock sections of its single ids, all of one kind in a row, are one
step). A CANCEL that is processed may end the work on its id or miss it, as
`SlotScheduler` shows; the loop then works on for a reader that is gone. `Leave` is the handler that gives up, or that has everything.

### GoBridge

`service` is the life of `server.Service` with `runner.Service` inside it,
`core` the thread of `llama_start`, `running` and `loopOn` the flags of
`Server` and of the queue. A request is a record: its handler (at the top of
`c.Stream`, blocked on the channel, done, left), its goroutine (`called`,
`next`, `push`, `send`, `close`, ...), the results due to it and what the
handler got. `PushToChan` looks up the channel in one step and sends in
another, because it releases the lock in between; the send is a rendezvous.
Chunks are numbers: the results in order, an error, `[DONE]`, the whole answer.
`NewChan` returns 0 when its id is in use; `TypeOK` shows that it never is, so
that branch has no action.

### PromptReuse

All of it runs on the loop thread, so an action is what happens between two
looks at the queue. A cell is a token with the adapters it was computed with;
`base` holds the cells of full attention and `swa` those of the sliding window,
as functions from positions. They stand for the memory of llama.cpp, which is
external: `seq_rm`, `seq_add` and copies of states are operations on these
functions, and a decode may drop window cells no later token looks at. `Launch`
is `get_available_slot` with everything it does to the cache
(`Saved`, `Loaded`, `Update`) followed by the adapters of
`launch_slot_with_task`; allocation and restoring may fail. `StartPrompt` is the
reuse of a prompt by prefix, chunks (`ReuseChunks`) or checkpoint (`Restored`),
all three in `Kept`, and its first batch; `FillPrompt` is a later batch. Both
share `Pass`: the cut of what is behind the kept tokens, the checkpoint taken
before the batch is decoded, the tokens the batch takes. `setup` is chosen at
the start: number of slots, window, checkpoints. The 64 positions and tokens and
the 512 tokens in the code of the checkpoints are constants. A batch has room for
a token of every slot unless there are more slots than `n_batch`, and a slot may
then get none (`Room`). `thin` is a history variable: a window one position too
short was kept, by a checkpoint taken right behind a token that was taken back,
or by a batch without room; section 8 has what becomes of it.
Abstracted: multimodal chunks, alora, drafts, children, prompts that cannot be
split, recurrent memories.

### AnswerStream

A byte is a symbol whose width says how many bytes its character needs, so that
tokens can end inside a character or a stop word. `ProcessToken` follows
`process_token` in its order: search for stop words, text to send, context,
budget, indentation, time, end of generation, and the final result; a token may
end the generation whether or not it has text. `n_decoded` begins at what the slot
counted for its last task (`Earlier`), because `reset()` leaves it, and becomes 0 at
the end of the prompt (`EndPrompt`); a progress result sent before carries the old
count, and if that is 1 the start of a Responses stream is announced there and
again with the first token. The reader
takes one result at a time and writes the events of its API. The parser of chat
messages and `compute_diffs` are external: a message is how much reasoning,
content and tool calls it shows; each is parsed in this order and only grows,
and `late` records that the last parse showed more than the one before.
Abstracted: probabilities, timings, several prompts in one request.

What the code does with the indentation is modelled with its corners: a new line
may be counted in `lastNl` and then be cut away with a stop word, so that the
search for the indentation starts behind the end of the text and finds none; and
a line cut while blanks of it were held back leaves these blanks unsent. One
request of `MCAnswerStream` reaches each of the two.

### ServerModels

Per instance there are the child, the thread that reads its output, the thread
that stops it and the thread that collects it. A wait on a condition variable is
a later action guarded by its predicate, so that a change undone before the
waiter has the mutex is missed, as in the code. `used` is the order of
`last_used`. `overlapped` records that two clients were inside `load` at once:
`unload_lru` gives the mutex back before `load` takes it, and the limit is stated
for executions in which nobody else was between the two. Two states are named
because the code leaves a thread there for ever: `Abandoned`, an instance whose
stopping thread waits for a name that was already taken out, and `LoadedAgain`,
an evicted model that came back before its waiter had the mutex.
Read beside it: `models_max = 0` means no limit in `unload_lru`, but
`load_models` (297) refuses to start then if any model is to load at startup.

## 4. Runs

Runs that pass:

| Run | Question | Properties |
|---|---|---|
| `TaskQueue` | two handlers, sleep, cancel, terminate, in every interleaving with the loop | `Conservation`: a task is in one place until it is answered. `AsleepIsIdle`: the model is unloaded only with idle slots. `OnlyMainWaits`: a notification for the sleeping loop can only reach the loop. `Served`, `NobodyIsStuck`: nobody waits for ever, and `terminate` ends the loop |
| `SchedulerSafety` | two families of one request, one of which may be refused, a slot action, failures, readers that stop at any moment | `OnePlace`, `NoOrphans`: a stopped request has nothing in a queue and no slot without a CANCEL on its way, and no child waits for a parent that is gone. `ImplementsLifecycle`: a family starts together or not at all, once |
| `SchedulerAnswers` | four requests for two slots, one of them a parent | `NothingDeferredAtRest`, `EveryReaderCloses` |
| `UpdateSlots` | updates with and without context shift, continuous batching and unified cache | `KvMatchesPrompt`, `OwnLogits`, `WithinLimits`: context and budget, `AnsweredOnce`, `EveryTaskEnds` |
| `ResponseReader` | a reader of two tasks and one of one, time-outs, errors, giving up | `NothingLost`, `NothingLeaked`: a closed reader has no result queued and no id waiting, `EveryReaderCloses` |
| `GoBridge` | two requests, streamed or not, start, stop, failures, disconnects | `WholeAnswers`: own chunks, in order, closed only behind the last, and nothing sent on a closed channel. `ServesLoaded`, `EveryHandlerEnds` |
| `ServerModels` | requests, unloads, a dying child and `unload_all` under a limit of one | `StatusIsTrue`: no process and no thread behind an unloaded model. `StateDiagram`, `LimitKept`. `RequestsEnd`: only the two named situations block a thread |
| `PromptReuse` | slots, checkpoints, files and cache, with and without a window | `CellsMatch`: what is kept names the tokens of its cells. `WindowPresent`: where a slot goes on its window is there, and where the code looks for its first position there is one (the `GGML_ABORT` of `server-context.cpp:2298`). `CacheLimits`: after `update()`, states and tokens are within the limits of the cache |
| `AnswerStream` | stop words, characters, limits and lines cut by tokens; chats in three APIs | `SentIsGenerated`, `StopWordKept`, `BlocksInOrder`, `DeltasAddUp` |

Every run but `SchedulerAnswers` also checks its module's `TypeOK`. Runs that
end in a counterexample are in section 8. `mutants` in `PROJECT.json` gives for
each property a change of the code's model under which TLC finds it violated.

Deadlock is not checked in any run: the server rests when nobody sends a
request, the number of requests is bounded, and the loop returns after
`terminate`.

Conditions in the properties, and why they are there. `NoOrphans` excepts
`survivors`, which `SchedulerZombie` shows to be real, and the children of a parent
that was answered because its prompt is empty (`SchedulerChildStuck`); nothing
else is restricted in its run. `SchedulerAnswers` has no refused launch, slot
action, failure or stop: with one of them a deferred task can stay behind
(`SchedulerStarved`). `Served` excludes a server that stays asleep
(`post` wakes nobody who asked to sleep), cancelled requests and a refused launch
(the release they would cause is the one that would move a deferred task).
`OnlyMainWaits` has
`PromptWakeup`: no idle period elapses while a woken handler has yet to run.
`EveryHandlerEnds` excludes a goroutine that returned before `CloseChan` and a
stopped server, where the code does leave handlers behind. `LimitKept` and
`RequestsEnd` have the exceptions described under `ServerModels`. `CellsMatch`
is about the window only where no checkpoints are taken; `WindowPresent` asks for
a whole window (`WindowReaches`) while none too short was kept (`thin`), and for a
first position (`MemoryIsThere`) if `n_batch` has room for every slot. `StopWordKept` lets a
stop word through that ends in a token which also begins a character,
`BlocksInOrder` lets a block be opened twice and `DeltasAddUp` lets text of a
Responses stream be missing if the last parse showed more than the partial ones:
section 8 has what happens there.

## 5. Bounds

`TaskQueue`: two clients are the fewest that can wait beside the loop on one
condition; three ids let one task run, one be deferred and one be control; one
slot makes deferring happen. `SlotScheduler`: two slots and five ids are the
fewest with a parent, its child and competitors for either slot; the workloads
ask for a slot by number, for any slot and for one that does not exist. In
`SchedulerSafety` the task that may be refused is the parent of the second family,
whose launch comes after that of its child.
`UpdateSlots`: two slots of five positions, batches of three tokens, drafts of
one, three tasks. Five positions are the fewest in which a prompt longer than a
batch, a shift and a draft all happen (a shift keeps at most `n_ctx - 4`);
requests are: longer than a batch, limitless, two parents with a child of which
one ends by budget and one by context, one that cannot be split, an empty and a
too long prompt. Coverage shows every action taken. `ResponseReader`: two
readers, of two tasks and of one; one partial result each is enough for an
order. `GoBridge`: two requests of two results each, so that a stream can end
at its start, in its middle and at its end while another one runs.
`ServerModels`: with two models and a limit of one every load by the second
client evicts; one model starts with the router; two requests, one child that
dies. `PromptReuse`: prompts of at most six tokens over two letters, which share
beginnings, middles and nothing; a context of eight and batches of three, so that a prompt
takes several batches and a shift happens; windows of two and of three
positions, up to two checkpoints; cache limits that two or three saved prompts exceed. Three requests
fill a slot, replace it and come back; the setup with two slots has two.
`AnswerStream`: answers of at most five tokens of one to three symbols, the
fewest in which a stop word is begun, broken off and begun again around a
character; at most two tool calls and two progress results; twelve chats, one
per API and kind. The slot had counted no token before, one (the count that means
the first result) or three.

## 6. Fairness

The loop thread and started handlers run (weak fairness of their steps): they
are threads of the operating system and every blocking wait is modelled as a
disabled step. Clients are never obliged to send, to disconnect or to give up,
the model is never obliged to fail, and nobody has to terminate or to
interrupt. Strong fairness is assumed for two things. A slot that is updated
again and again ends its turn (`TaskQueue.FinishSlot`, `SlotScheduler.SlotStep`):
a step of it is possible only inside a pass of the loop, so it is enabled on and
off, and a generation is bounded by `n_predict` or by the context. A reader that
was sent an error stops and cancels the rest of its tasks however often updates
come in between (`SlotScheduler.StopReader`, `UpdateSlots.CancelOrphans`): it is
a thread that waits for one mutex, and the loop gives it up in every turn. `UpdateSlots`
launches requests without a limit only where the context limits them, since no
fairness of sampling obliges a model to end a text. `ResponseReader` assumes
that a task which is given gets its last result, which is `EveryTaskEnds`.
`ServerModels`: each of its threads goes on, the stopping thread polls with a
time-out and so reaches it, and a child gets ready or exits; a child need not
obey the exit command and clients need not ask. `PromptReuse` and `AnswerStream`
have safety properties only.

## 7. Proofs

`TaskQueue_proofs`, for any numbers of clients, slots and tasks:

- `TypeCorrect`: `Spec => []TypeOK`. The type invariant is strengthened by what
  the loop relies on when it takes heads of queues and numbers of tasks.
- `SleepsOnlyIdle`: `Spec => []AsleepIsIdle`. The property alone is not
  inductive: nothing in the step that goes to sleep looks at the slots. The
  invariant adds `HasNext` (from the posting in `update_slots` to the check for
  sleep a slot that works has a NEXT_RESPONSE in the queue), `UnloadedAsleep`
  (the model is out only in that state) and `WorkAhead`.
- `OneWaiter`: `ASSUME PromptWakeup PROVE Spec => []OnlyMainWaits`. The invariant adds
  that no handler is waking when the loop decides to sleep. The assumption is
  needed: run `TaskQueueLostWakeup` is the counterexample without it.
- `TasksConserved`: `Spec => []Conservation`. Counting says nothing of a single
  step, so the invariant `PlaceInv` is pointwise: each queue names a task once
  (`Once`), at most one task is in a callback (`OneCurrent`), the places of a
  task exclude each other and cover it until it is answered or cancelled
  (`Placed`), and an id that was not given out yet is nowhere (`Posted`).

`SlotScheduler_proofs`, for any number of slots, any readers and any families of
tasks they post:

- `TypeCorrect`: `Spec => []TypeOK`, with the reason why the loop has at most one
  task in process: it takes one only in `"pop"` and leaves with none.
- `OnePlaceAlways`: `Spec => []OnePlace`, whatever is refused, fails, is stopped or
  interleaves. The property counts, and counting says nothing of one step, so
  the invariant `Inv` is pointwise: the two queues name a task at most once and
  not both (`Queued`), the task in process is in neither (`CurrentIsOut`), two slots
  never hold one id (`SlotsTaken`), a task that waits has no id in a slot and no
  final result (`WaitsUnstarted`), and what no reader posted is nowhere
  (`NotPosted`). The counts follow from it in one lemma (`PendingOnce`).
- `NothingStarves`: `ASSUME OnlyCompletions PROVE Spec => []NothingDeferredAtRest`. The
  invariant (`CalledBack`) says that while a task is deferred a slot is at work, or
  a task that will take one is in the queue or in process: a release calls one task back, which
  starts or finds a slot at work. The hypothesis (only completions, none
  refused, failing or stopped) is where the code stops: run `SchedulerStarved`
  is the counterexample with one refused task.
- `NoOrphansAlways`: `Spec => []NoOrphans`, with stops in every interleaving, and
  with refused launches, failures and empty prompts. `stop()` only reaches what is queued or
  in a slot, so the invariant `Watched` says of what waits anywhere that somebody
  waits for it, that it survived its CANCEL, or that it is in process with a
  CANCEL for its whole family before it (`Minded`); that only closed readers cancel
  (`CancelsClosed`); that a slot at work for a closed reader has a CANCEL coming or a
  survivor (`WorkIsCancelled`); and that a waiting child has a parent in its prompt
  or one of the reasons to be without (`Fostered`, `ChildrenMinded`), which uses that
  only children wait (`WaitingIsChild`). Runs `SchedulerZombie` and
  `SchedulerChildStuck` show that neither exception can be dropped.
- `SchedulerImplements`: `Spec => ImplementsLifecycle`, with no hypothesis. Every
  step of the loop and the slots ends a set of tasks (`Ended`), starts one family
  (`Launched`), refuses one (`Dropped`) or leaves all phases alone; a stop ends what
  is pending of its request but the family in process. `PhasesAre` gives the phase
  of an id from `Inv`. That no more run than there are slots is an injection of the
  running ids into the slots (`RunningFits`).

`UpdateSlots_proofs`, for any number of slots, context and batch of any size, any
requests, children and drafts, all from one invariant `Inv`:

- `CellsFollowPrompt`: `Spec => []KvMatchesPrompt`. The property speaks of the
  state between two updates; inside one the cells lag behind the prompt by what
  the batch still holds. `Cells` says by how much: `kv` plus the tokens of the slot
  from `head + view` on (`Left`) is `nTokens`. The exceptions are those of the code:
  a child that a torn view left short (`Short`), and the cells a dropped prompt
  leaves behind (`Stale`). To keep it, `Entered` says that a slot whose turn is still
  to come has nothing in the batch, and `Quiet` that nothing of a slot that is idle
  or waits is in it, so that a release, a purge or a failed batch leaves no debt.
- `SamplesOwn`: `Spec => []OwnLogits`. `Sampleable` says that `iBatch` points at the
  last token of the slot from the moment it is written until it is sampled, however
  often the view is halved in between, or at a token of the parent, whose slot may
  have been released since; `Draft` that the indices of a draft are exactly the
  slot's tokens in the batch and lie in the first view.
- `Limits`: `Spec => WithinLimits`. `Fits` bounds the prompt by the context in each
  state and phase (after the phase of the shifts one place is free for each slot
  that generates), and `Budget` ties `nRemaining` to `n_predict - nDecoded` while a
  slot generates, with the draft no longer than that.
- `OneAnswer`: `Spec => AnsweredOnce`. `Tasks` says that a task has one slot, that a
  task in a slot or not yet launched has no answer, and which slots may be
  parents or children.
- `TypeCorrect`: `Spec => []TypeOK`, from the parts above.

The loops over the slots give one action per turn, and the proof has one lemma
for each. What all turns share is stated once: a turn adds tokens of its own slot
only (`Grows`), leaves the other slots alone (`Alone`) and moves on (`NextTurn`);
`TurnKeeps` then leaves to each action what it does to its own slot.

`ResponseReader_proofs`, for any readers, tasks and partial results, all from
one invariant:

- `TypeCorrect`: `Spec => []TypeOK`.
- `StopLeavesNothing`: `Spec => []NothingLeaked`, whether a CANCEL ends the work on its
  task or misses it. `stop()` returns early
  when `received` has reached the number of tasks, so the property rests on what
  that counter means: `Counted` says it is the number of tasks whose last result
  was read, which needs that a last result is the last of its id in the queue and
  comes while somebody waits for it (`LastIsLast`, `LastComes`), and when an id
  is in the waiting list (`Listed`, `Held`).
- `ResultsInOrder`: `Spec => []NothingLost`. `Ordered` says that the queued
  results of an id are exactly those after the last one read, in order.

`GoBridge_proofs`, for any number of requests and of results of a stream:

- `ServesOnlyLoaded`: `Spec => []ServesLoaded`. The invariant says that
  `Server::running` holds only between the end of loading and `llama_stop`
  (`CoreUp`), that the service listens only while it holds, and that nothing
  runs before the start.
- `TypeCorrect`: `Spec => []TypeOK`. That `NewChan` never meets an id in use
  needs the ids of all requests to be below `nextChanID` and different.
- `AnswersWhole`: `Spec => []WholeAnswers`. The invariant follows a result on
  its way: those due continue the ones taken (`DueContinues`), what the handler
  got is what was taken less the one in hand (`GotUpto`), an answer is whole when
  the goroutine closes (`Complete`), and a channel is in the map exactly until
  then, so that a send outside the lock cannot meet a closed channel.

`ServerModels_proofs`, for any models, clients, limit and number of crashes:

- `TypeCorrect`: `Spec => []TypeOK`, with the order of use naming each active
  model once (`UsedIsActive`) and every client past its first step having a
  model and, if it evicts, a victim (`ClientTypes`).
- `StatusAlwaysTrue`: `Spec => []StatusIsTrue`. Three threads write the status;
  the invariant adds at which point of the child's life each of them can be
  (`InstanceLife`): READY is sent once, by a child that is not LOADED yet, and
  unread output keeps the monitoring thread from reporting an end.
- `FollowsStateDiagram`: `Spec => StateDiagram`, from the same invariant.
- `LimitAlwaysKept`: `Spec => []LimitKept`. The number of active models says
  nothing of a client between `unload_lru` and `load`; the invariant
  (`RoomToLoad`) adds that such a client is alone, that there is room for its
  model, if need be once its victim is gone, and that at startup there is room
  for all that pend. It rests on `UsedIsActive`: the victim is active when it
  is chosen, so that its end makes room.

`AnswerStream_proofs`, for any tokens, stop words, limits, and any parser of
messages:

- `SentAlwaysGenerated`: `Spec => []SentIsGenerated`. A slot that generates has
  all that was sampled as its text (`Generates`), so what `process_token` sends
  continues what was sent before. `Sends` says so for the search of stop words
  and the chunk (the cut is never before what was sent, as `find_stopping_strings`
  looks at the unsent text only), `Ends` that what follows (context, budget,
  indentation, time, end of generation) shortens the text only together with
  ending it. That an answer taken by the handler changes nothing of what was
  sent is `TakeStep`, from the lemmas on `FlattenSeq`.
- `StopWordsKept`: `Spec => []StopWordKept`. `find_stopping_strings` looks only at
  the end of what is unsent, so that nothing was missed is a statement on the
  past: no word that the search could have found is in the text so far (`Clean`).
  It is not enough, because a word could begin in what was sent and end in
  the next token, before the place where the search starts. The invariant
  (`Covered`) adds that no word has begun in what was sent and may yet go on
  (`NoneBegun`), which is what holding text back is for: `NoneBegunGrows` follows
  it through a token. `CutCovers` shows that what a search finds first is the
  first that ends in the new token, `TokenLater` that what ends a generation
  behind the search may shorten the text but then gives another reason.
- `TypeCorrect`: `Spec => []TypeOK`, with the final result last (`FinalIsLast`). What the
  slot counted before is a number until the prompt is done; from there on it
  is the number of tokens.

The proof corrected the model twice, in corners no earlier run reached: the
indentation behind a text cut at a stop word had no value, and
`SentIsGenerated` once said that what is left behind *of the text of the slot*
ends inside a character or a stop word, which fails when the line cut for its
indentation has been shortened since. It is what was generated that ends so.

`PromptReuse_proofs`, for any requests, any number of slots and any sizes of
context, batch, window, checkpoints and cache:

- `TypeCorrect`: `Spec => []TypeOK`, and `KeptPromptsMatchTheirCells`:
  `Spec => []CellsMatch`. Prompts wander: from a slot to the cache or a file, from
  there to another slot, with a checkpoint put in or cells moved on the way. So
  the invariant (`Reusable`) is about a prompt, wherever it is kept
  (`RightStates`): no cell beyond the context, the full cells those of its tokens,
  checkpoints within their limit. It adds that a slot which works has a request
  and no cell behind its tokens (`Works`), without which the next batch would be
  decoded beside cells of an older prompt. The cut of the prefix, the moved chunks
  (`ReuseChunksKeeps`), the restored checkpoint (`RestoredRight`) and the decoded
  batch (`DecodedRight`) are lemmas on one prompt.
- `WindowIsPresent`: `Spec => []WindowPresent`, from two invariants of the same
  kind. `Full`: what is kept has a window without gaps that reaches back from its
  last position, and so has each of its checkpoints (`ReachStates`), while none too
  short was kept. `Held`: a prompt with tokens has a window at all
  (`HeldStates`), which gives `NeverWithoutMemory`: the code never meets the abort
  its comment calls impossible. `StepIn` takes any property of single prompts
  through the actions that only carry prompts about.
- `CacheWithinLimits`: `Spec => []CacheLimits`. `update()` drops the oldest states
  until size and tokens fit, but keeps the last one; the limit on tokens is itself
  computed from the size of what is there. `UpdateLimits` follows that loop. That
  no state is the beginning of another (`Apart`) rests on `alloc()`, which saves
  nothing that is contained and removes what the new state contains.

The proof changed the model in three places. It showed that `MemoryIsThere` fails
with more slots than a batch has room for, which `Room` and its condition now
say. `StartPrompt` had stopped between the reuse and the first batch, where the
code does not, and the window is not cut there yet. And a window can be short
by one position in a second way, through a checkpoint taken at once; that is
why `thin` is a variable.

Each module with proofs states the lemmas on sequences, finite sets and
functions that it needs, with `ASSUME ... PROVE`: what removing by a set of
positions (`KeepAt`) leaves and in which order, what `FlattenSeq` makes of one
more element, what the maximum of a set is. Where such a module cleans up a queue
it uses `KeepAt` and not `SelectSeq`, which is built into the provers' front end
and cannot be expanded there.

Assumptions on constants are the named `ASSUME`s of the modules, which TLC
evaluates in every run. Model-checked only: every liveness property and anything
with ENABLED (out of the reach of the installed provers), and of `AnswerStream`
`BlocksInOrder` and `DeltasAddUp`, which hand operators to operators and to folds,
where these provers cannot follow. Induction over data is not available to these provers; where a
recursive function had to be followed from one element to the next (`KeepAt`,
`FlattenSeq`) the proofs look at the least position where a statement fails
instead (`LeastElement`).

## 8. Where code and comments disagree

Listed as runs, and as `findings` in `PROJECT.json`:

| Run | What happens | What is written |
|---|---|---|
| `UpdateSlotsTorn` | children are activated after the first half of a halved batch, with cells missing | `server-context.cpp:2687` "when the main prompt is processed, activate all child tasks too" |
| `ServerModelsWait` | a child that dies before anyone unloads it leaves its stopping thread waiting and the status LOADING for ever | `server-models.h:131` "return when the model is loaded or failed to load" |
| `AnswerStreamStart` | a first token that ends inside a character gives no result, and the stream never has its start | `server-task.cpp:1396` "We have to send an initial update to conform to openai behavior" |

The other configurations end in a counterexample as well and can be run by
hand (`tlc -config X.cfg M`); each checks one property of its module. They show
why the properties above have the conditions they have.

| Configuration of | Property | What happens | What is written |
|---|---|---|---|
| `TaskQueueLostWakeup` of `TaskQueue` | `OnlyMainWaits` | a handler that was woken and runs late waits again beside the loop | `server-queue.cpp:110` "only main thread is waiting on this" |
| `TaskQueueSleepRace` of `TaskQueue` | `TokenizeWithModel` | a handler let through while awake tokenizes with an unloaded model | `server-context.cpp:3194` "this is to ensure that the server_res_generator can handle sleeping case correctly" |
| `SchedulerStarved` of `MCSlotScheduler` | `NothingDeferredAtRest` | a deferred task whose launch is refused uses up the move of a release; the next stays with all slots idle | `server-queue.h:40` "defer until one slot is available" |
| `SchedulerZombie` of `MCSlotScheduler` | `StoppedIsCancelled` | a task in process when its CANCEL is posted is deferred, and later takes a slot with no reader and no CANCEL | `server-queue.cpp:434` "if tasks is not finished yet, cancel them" |
| `SchedulerChildStuck` of `MCSlotScheduler` | `ChildIsActivated` | a parent with an empty prompt is answered, its children wait for ever | `server-context.cpp:36` "waiting for parent slot to process prompt" |
| `ServerModelsLimit` of `ServerModels` | `AtMostModelsMax` | two clients pass `unload_lru` before either loads: one model too many | `server-models.h:101` "unload least recently used models if the limit is reached" |
| `PromptReuseStale` of `MCPromptReuse` | `CheckpointsValid` | a checkpoint of an older prompt is restored because only its position is looked at; the window holds other tokens | `server-context.cpp:2392` "erased invalidated context checkpoint" |
| `PromptReuseThin` of `MCPromptReuse` | `CheckpointsUseful` | a checkpoint taken right behind a prompt whose last token was taken back is one position short; restored later, the next token looks at a cell that is gone | `server-context.cpp:2291` "the largest pos_min required for a checkpoint to be useful" |
| `PromptReuseLora` of `MCPromptReuse` | `OwnAdapters` | a request that names no adapters reuses cells computed with an adapter; with a state of the cache it happens for one that names them, too | `server-context.cpp:1080` "if lora has changed, check to see if the cache should be cleared" |
| `AnswerStreamStop` of `MCAnswerStream` | `StopWordNeverSent` | a stop word whose last token also begins a character is not found: the search of the next token starts behind it | `server-context.cpp:1226` "no send the stop word in the response" |
| `AnswerStreamTail` of `MCAnswerStream` | `AllTextStreamed` | text held back as the beginning of a stop word, or of a character, is lost when a limit or an end token ends the answer | `server-context.cpp:1455` "in stream mode, content and tokens are already in last partial chunk" |
| `AnswerStreamBlock` of `MCAnswerStream` | `OpenedOnce` | what only the last parse shows opens its block a second time (Anthropic), or is closed without a start and without text (Responses) | `server-task.h:102` "track output item / content block state across chunks" |

Read in the code while modelling, without a run: `terminate()` between
`Server::running = true` and `start_loop` is overwritten
(`server.cpp:167`, `server-queue.cpp:126`); terminated in its sleep the loop
leaves `sleeping` set, and handlers in `wait_until_no_sleep` stay; requests in
flight when the loop ends wait for results that never come, since `should_stop`
is always false (`server-http.h:42`) and nobody terminates the results; the
routes refer to parameters local to `Server::start` (`server.cpp:94, 134`); a
goroutine whose streaming handler has left blocks for ever in `PushToChan`;
`llama_gen` and `llama_chat` return without `CloseChan` when the core is not
running, and `runner.Chat` when a body with trailing data does not parse.

## 9. Not modelled

Numbers of the model (logits, samplers, grammars), formats of requests and
results, tokenization, templates, file formats, the command line and terminal
output: pure functions or I/O without state of their own. Data races on
`Server::running` and `runner.Service.running` are modelled as atomic flags.
The llama.cpp library is external: `Consecutive`, `HasOutputs` and `Crash` in
`UpdateSlots`, the cells of `PromptReuse` and `Parses` in `AnswerStream` say what
the code relies on. Multimodal chunks, alora, rerank, recurrent memories, the
HTTP proxy of the router (`pipe_t`) and its presets are left out, with the
embedding and whisper commands (one call into the library each) and the
interactive runner, whose `start` is a stub. The end of the process after `Stop` is left open: the
other threads may still run.

## 10. Plan

What is left, in this order:

1. Proofs: `BlocksInOrder` and `DeltasAddUp` of `AnswerStream`, which need blocks
   and sums written without operators as arguments first.
2. `StreamParsers`: `eat` of the thinking, harmony and qwen3-coder parsers,
   checked for every cut of bounded texts against the parse of the whole.
3. `ModelPull`: downloads with cancellation, short bodies and two pulls of one
   file; the channel of `PullHandler`.
4. `EventProcessor`/`SafeQueue` and `History` as small modules.
5. The parts of `update_slots` listed above as left out, as far as they keep
   state: alora cuts a batch, multimodal chunks move positions by other amounts
   than tokens.
