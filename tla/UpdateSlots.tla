------------------------------ MODULE UpdateSlots ------------------------------
(***************************************************************************)
(* One call of update_slots after the other (server-context.cpp): context  *)
(* shift, the batch of sampled, drafted and prompt tokens, its decoding in *)
(* views with retries, the activation of child slots, sampling, and the    *)
(* verification of drafts, each slot loop one slot per step.               *)
(*                                                                         *)
(* Tokens are counted, not named: a slot's prompt is its length and its KV *)
(* cache the number of cells from position 0, so that a cell left behind   *)
(* or missing shows as a difference of the two. llama_decode may succeed,  *)
(* find no free cells, or fail.                                            *)
(***************************************************************************)
EXTENDS Integers, Sequences, FiniteSets

CONSTANTS
    NSlots,     \* slots.size()
    NCtx,       \* slot.n_ctx
    NBatch,     \* llama_n_batch(ctx) and llama_n_ubatch(ctx)
    NKeep,      \* task->params.n_keep
    DraftMin,   \* task->params.speculative.n_min
    DraftMax,   \* task->params.speculative.n_max, 0: no draft model
    Params,     \* params_base: ctx_shift, cont_batching and kv_unified
    Requests,   \* requests: kind, n (prompt tokens), n_predict, copies
    MaxTasks,   \* bound on the tasks launched in a behaviour
    CanTrim,    \* the memory can remove a part of a sequence
    MayFill,    \* llama_decode may return 1: no free cells
    MayBreak    \* llama_decode may return less than -1

Slots == 0..(NSlots - 1)
None == 0
NoTask == [id |-> None, parent |-> None, kind |-> "none", n |-> 0, n_predict |-> -1, copies |-> 0]

ASSUME UpdateAssumption ==
    /\ {NSlots, NBatch} \subseteq Nat \ {0} /\ {NKeep, DraftMin, DraftMax, MaxTasks} \subseteq Nat
    /\ NCtx \in Nat /\ NCtx >= 4
    /\ Params \subseteq [ctx_shift : BOOLEAN, cont_batching : BOOLEAN, kv_unified : BOOLEAN]
    /\ \A r \in Requests :
        /\ r.kind \in {"completion", "embedding"} /\ r.n \in Nat /\ r.n_predict \in Nat \cup {-1}
        /\ r.copies \in 0..(IF r.kind = "completion" THEN NSlots - 1 ELSE 0)
    /\ {CanTrim, MayFill, MayBreak} \subseteq BOOLEAN

VARIABLES
    params,     \* params_base, fixed when the model is loaded
    slot,       \* the slots
    pc, at,     \* the phase of update_slots and the slot its loop is at
    batch,      \* the batch: the slot and the position of each token
    lead,       \* slot_batched, -1 for nullptr
    head,       \* i: tokens of the batch decoded by earlier views
    view,       \* n_tokens of the view decoded last
    nBatch,     \* n_batch, halved by retries
    launched,   \* tasks launched so far, also the last id given
    answer,     \* what each id's reader was last sent
    torn        \* history: a view ended inside a draft or a parent's prompt

vars == <<params, slot, pc, at, batch, lead, head, view, nBatch, launched, answer, torn>>
cursor == <<head, view, nBatch>>

Idle(s) == slot[s].state = "idle"
Generating(s) == slot[s].state = "generating"
IsChild(r) == r.task.parent # None
IsParent(r) == r.task.copies > 0
CanSplit(r) == r.task.kind # "embedding"
(* can_batch_with without adapters: a slot with others waits for the next   *)
(* batch, as one with a task of another kind does.                          *)
CanBatch(s) == lead \in Slots => slot[lead].task.kind = slot[s].task.kind
SmallerOf(a, b) == IF a < b THEN a ELSE b
LargerOf(a, b) == IF a > b THEN a ELSE b

NextSlot(phase, after) ==
    IF at = NSlots - 1 THEN pc' = after /\ at' = 0 ELSE pc' = phase /\ at' = at + 1

Answer(S, what) ==
    answer' = [id \in DOMAIN answer |-> IF \E s \in S : slot[s].task.id = id THEN what ELSE answer[id]]

-----------------------------------------------------------------------------
(* slot.release(): a child's prompt is cleared, n_decoded, n_remaining and  *)
(* i_batch keep the values of the task that ended.                          *)
Clear(r) == [r EXCEPT !.nTokens = 0, !.kv = 0]
ReleasedWithDraft(r) == [r EXCEPT !.state = "idle", !.task = NoTask]    \* mutant
NotReleased(r) == r     \* mutant: the answer is sent and the slot kept
Released(r) ==
    [(IF IsChild(r) THEN Clear(r) ELSE r) EXCEPT !.state = "idle", !.task = NoTask, !.dft = {}]

(* llama_memory_seq_rm from the first position after the prompt.            *)
LeaveCells(r) == r      \* mutant: the cells of rejected tokens are not removed
RemoveTail(r) == [r EXCEPT !.kv = SmallerOf(r.kv, r.nTokens)]

(* process_token: the limits it checks, and the records it leaves.          *)
OutOfContext(r) == r.nTokens + 1 >= NCtx
ContextStop(r) == ~params.ctx_shift /\ OutOfContext(r)
ChecksBudget(r) == ~ContextStop(r) /\ r.nDecoded > 0 /\ r.task.n_predict # -1
Processed(r) ==
    IF ChecksBudget(r) THEN [r EXCEPT !.nRemaining = r.task.n_predict - r.nDecoded] ELSE r
Stops(r, eos) ==
    eos \/ ContextStop(r) \/ (ChecksBudget(r) /\ r.task.n_predict - r.nDecoded <= 0)

(* get_n_draft_max                                                          *)
DraftBeyondBudget(r) == SmallerOf(DraftMax, NCtx - r.nTokens - 2)   \* mutant
DraftLimit(r) ==
    LET room == SmallerOf(DraftMax, NCtx - r.nTokens - 2)
        most == IF r.nRemaining > 0 THEN SmallerOf(room, r.nRemaining - 1) ELSE room
    IN  IF DraftMax = 0 \/ most < DraftMin THEN 0 ELSE most

-----------------------------------------------------------------------------
Fresh ==
    [state |-> "idle", task |-> NoTask, nTokens |-> 0, kv |-> 0, iBatch |-> -1,
     dft |-> {}, nDecoded |-> 0, nRemaining |-> -1]

Init ==
    /\ params \in Params /\ slot = [s \in Slots |-> Fresh]
    /\ pc = "rest" /\ at = 0 /\ batch = <<>> /\ lead = -1
    /\ head = 0 /\ view = 0 /\ nBatch = NBatch
    /\ launched = 0 /\ answer = [id \in 1..MaxTasks |-> "none"] /\ torn = FALSE

(* launch_slot_with_task and launch_slots_with_parent_task: the parent (or  *)
(* single task) starts, its copies wait on the lowest other free slots. A   *)
(* limitless request is launched only where the context bounds it.          *)
ChildSlots(s) == {c \in Slots \ {s} : Idle(c)}
Place(s, c) == Cardinality({d \in ChildSlots(s) : d <= c})
Taken(s, q) == {c \in ChildSlots(s) : Place(s, c) <= q.copies}
Task(q, id, parent) ==
    [id |-> id, parent |-> parent, kind |-> q.kind, n |-> q.n, n_predict |-> q.n_predict,
     copies |-> IF parent = None THEN q.copies ELSE 0]

Launch(s, q) ==
    LET id == launched + 1
    IN  /\ pc = "rest" /\ Idle(s) /\ Cardinality(ChildSlots(s)) >= q.copies
        /\ launched + 1 + q.copies <= MaxTasks
        /\ q.n_predict = -1 => ~params.ctx_shift
        /\ slot' = [c \in Slots |->
                IF c = s THEN [slot[c] EXCEPT !.state = "started", !.task = Task(q, id, None)]
                ELSE IF c \in Taken(s, q)
                THEN [slot[c] EXCEPT !.state = "wait", !.task = Task(q, id + Place(s, c), id)]
                ELSE slot[c]]
        /\ launched' = id + q.copies
        /\ UNCHANGED <<params, pc, at, batch, lead, cursor, answer, torn>>

(* The CANCELs of a stopped reader, one per id it waits for, arrive         *)
(* together: those of a parent and of its children, or of the children.     *)
Family(id) == {s \in Slots : ~Idle(s) /\ id \in {slot[s].task.id, slot[s].task.parent}}
Cancel(id) ==
    /\ pc = "rest" /\ Family(id) # {}
    /\ \A s \in Family(id) : slot[s].task.id = id => ~IsChild(slot[s])
    /\ slot' = [s \in Slots |-> IF s \in Family(id) THEN Released(slot[s]) ELSE slot[s]]
    /\ answer' = [i \in DOMAIN answer |->
                    IF \E s \in Family(id) : slot[s].task.id = i THEN "cancelled" ELSE answer[i]]
    /\ UNCHANGED <<params, pc, at, batch, lead, cursor, launched, torn>>

BeginUpdate ==
    /\ pc = "rest" /\ \E s \in Slots : ~Idle(s)
    /\ pc' = "shift" /\ at' = 0
    /\ UNCHANGED <<params, slot, batch, lead, cursor, launched, answer, torn>>

-----------------------------------------------------------------------------
(* Context shift                                                            *)
NeedsShift(s) == Generating(s) /\ slot[s].nTokens + 1 >= NCtx
CannotShift(s) == ~params.ctx_shift \/ IsParent(slot[s]) \/ IsChild(slot[s])

NoShift ==
    /\ pc = "shift" /\ ~NeedsShift(at) /\ NextSlot("shift", "sampled")
    /\ UNCHANGED <<params, slot, batch, lead, cursor, launched, answer, torn>>

ShiftRefused ==
    /\ pc = "shift" /\ NeedsShift(at) /\ CannotShift(at)
    /\ slot' = [slot EXCEPT ![at] = Released(@)] /\ Answer({at}, "error")
    /\ NextSlot("shift", "sampled")
    /\ UNCHANGED <<params, batch, lead, cursor, launched, torn>>

Shift ==
    LET n_keep    == SmallerOf(NCtx - 4, NKeep)
        n_discard == (slot[at].nTokens - n_keep) \div 2
    IN  /\ pc = "shift" /\ NeedsShift(at) /\ ~CannotShift(at)
        /\ slot' = [slot EXCEPT ![at].nTokens = @ - n_discard, ![at].kv = @ - n_discard]
        /\ NextSlot("shift", "sampled")
        /\ UNCHANGED <<params, batch, lead, cursor, launched, answer, torn>>

-----------------------------------------------------------------------------
(* The tokens sampled last, with the drafts that follow them. Prompts are   *)
(* added next if batching is continuous or nothing is in the batch.         *)
Tokens(s, n) == [i \in 1..n |-> [slot |-> s, pos |-> slot[s].nTokens + i - 1]]
ToPrompts(b) == NextSlot("sampled", IF params.cont_batching \/ b = <<>> THEN "prompts" ELSE "decode")

SkipSampled ==
    /\ pc = "sampled" /\ ~(Generating(at) /\ CanBatch(at)) /\ ToPrompts(batch)
    /\ UNCHANGED <<params, slot, batch, lead, cursor, launched, answer, torn>>

(* A token alone: no draft fits, or the draft that came is too small.       *)
AddSampled ==
    LET r == slot[at] IN
    /\ pc = "sampled" /\ Generating(at) /\ CanBatch(at)
    /\ DraftLimit(r) = 0 \/ DraftMin > 0
    /\ slot' = [slot EXCEPT ![at] = [r EXCEPT !.nTokens = @ + 1, !.iBatch = Len(batch)]]
    /\ batch' = batch \o Tokens(at, 1) /\ lead' = (IF lead = -1 THEN at ELSE lead)
    /\ ToPrompts(batch')
    /\ UNCHANGED <<params, cursor, launched, answer, torn>>

AddDraft ==
    LET r == slot[at] IN
    /\ pc = "sampled" /\ Generating(at) /\ CanBatch(at) /\ DraftLimit(r) > 0
    /\ \E n_draft \in DraftMin..DraftLimit(r) :
        /\ slot' = [slot EXCEPT ![at] = [r EXCEPT
                        !.nTokens = @ + 1 + n_draft, !.dft = Len(batch)..(Len(batch) + n_draft)]]
        /\ batch' = batch \o Tokens(at, 1 + n_draft)
    /\ lead' = (IF lead = -1 THEN at ELSE lead)
    /\ ToPrompts(batch')
    /\ UNCHANGED <<params, cursor, launched, answer, torn>>

-----------------------------------------------------------------------------
(* Prompts                                                                  *)
HasPrompt(s) == slot[s].state \in {"started", "processing"}
TooLarge(s) == slot[s].task.n >= (IF CanSplit(slot[s]) THEN NCtx ELSE SmallerOf(NBatch, NCtx) + 1)

SkipPrompt ==
    /\ pc = "prompts" /\ (Idle(at) \/ ~CanBatch(at) \/ ~HasPrompt(at))
    /\ IF Generating(at) /\ Len(batch) >= NBatch THEN pc' = "decode" /\ at' = 0
       ELSE NextSlot("prompts", "decode")
    /\ UNCHANGED <<params, slot, batch, lead, cursor, launched, answer, torn>>

(* An empty prompt is answered, one that does not fit is refused.           *)
EndPrompt ==
    LET n == slot[at].task.n IN
    /\ pc = "prompts" /\ CanBatch(at) /\ slot[at].state = "started" /\ (n = 0 \/ TooLarge(at))
    /\ slot' = [slot EXCEPT ![at] = Released(@)] /\ Answer({at}, IF n = 0 THEN "final" ELSE "error")
    /\ NextSlot("prompts", "decode")
    /\ UNCHANGED <<params, batch, lead, cursor, launched, torn>>

(* n_past: any prefix of the cached prompt may be common with the new one,  *)
(* but one token is always evaluated; a prompt in progress goes on.         *)
AllCached(s) ==     \* mutant: no [TAG_PROMPT_LOGITS]
    IF slot[s].state = "processing" THEN {slot[s].nTokens} ELSE 0..SmallerOf(slot[s].nTokens, slot[s].task.n)
Cached(s) ==
    IF slot[s].state = "processing" THEN {slot[s].nTokens}
    ELSE IF ~CanSplit(slot[s]) THEN {0}
    ELSE {IF c = slot[s].task.n THEN c - 1 ELSE c :
             c \in 0..SmallerOf(slot[s].nTokens, slot[s].task.n)}

(* A prompt that cannot be split waits for a batch it fits in: its tokens   *)
(* are already dropped, the cells are not.                                  *)
WaitForBatch ==
    /\ pc = "prompts" /\ CanBatch(at) /\ HasPrompt(at) /\ slot[at].task.n > 0 /\ ~TooLarge(at)
    /\ ~CanSplit(slot[at]) /\ Len(batch) + slot[at].task.n > NBatch
    /\ slot' = [slot EXCEPT ![at].state = "processing", ![at].nTokens = 0]
    /\ NextSlot("prompts", "decode")
    /\ UNCHANGED <<params, batch, lead, cursor, launched, answer, torn>>

FillPrompt ==
    LET n == slot[at].task.n IN
    /\ pc = "prompts" /\ CanBatch(at) /\ HasPrompt(at) /\ n > 0 /\ ~TooLarge(at)
    /\ CanSplit(slot[at]) \/ Len(batch) + n <= NBatch
    /\ \E n_past \in Cached(at), trimmed \in {TRUE, CanTrim} :
        LET kept  == [slot[at] EXCEPT !.nTokens = n_past]
            start == IF kept.kv <= n_past \/ trimmed THEN RemoveTail(kept) ELSE Clear(kept)
            more  == SmallerOf(n - start.nTokens, LargerOf(NBatch - Len(batch), 0))
            done  == start.nTokens + more = n
        IN  /\ batch' = batch \o [i \in 1..more |-> [slot |-> at, pos |-> start.nTokens + i - 1]]
            /\ slot' = [slot EXCEPT ![at] = [start EXCEPT
                    !.nTokens  = @ + more,
                    !.state    = IF done THEN "done" ELSE "processing",
                    !.nDecoded = IF done THEN 0 ELSE @,
                    !.iBatch   = IF done THEN Len(batch') - 1 ELSE @]]
    /\ lead' = (IF lead = -1 THEN at ELSE lead)
    /\ IF Len(batch') >= NBatch THEN pc' = "decode" /\ at' = 0 ELSE NextSlot("prompts", "decode")
    /\ UNCHANGED <<params, cursor, launched, answer, torn>>

-----------------------------------------------------------------------------
(* Decoding. A view is decoded only if each of its sequences goes on where  *)
(* its cells end ("invalid input batch" otherwise).                         *)
ViewSize == SmallerOf(nBatch, Len(batch) - head)
InView(s, n) == {i \in head..(head + n - 1) : batch[i + 1].slot = s}
Consecutive(n) ==
    \A s \in Slots : \A i \in InView(s, n) :
        batch[i + 1].pos = slot[s].kv + Cardinality({j \in InView(s, n) : j < i})

(* A split tears a draft, or the prompt of a parent that is done.           *)
Tears(end) ==
    \E s \in Slots :
        \/ \E i \in slot[s].dft : end <= i
        \/ slot[s].state = "done" /\ IsParent(slot[s]) /\ end <= slot[s].iBatch

(* copy_state_to the waiting children of a parent whose prompt is done.     *)
WaitingOn(c, s) == slot[c].state = "wait" /\ slot[c].task.parent = slot[s].task.id
ForgetIndex(to, from) == [to EXCEPT !.state = "done", !.kv = from.kv, !.nTokens = from.nTokens]  \* mutant
CopyState(to, from) ==
    [to EXCEPT !.state = "done", !.kv = from.kv, !.nTokens = from.nTokens,
               !.nDecoded = from.nDecoded, !.nRemaining = from.nRemaining, !.iBatch = from.iBatch]

Decode ==
    LET n == ViewSize
        decoded == [s \in Slots |-> [slot[s] EXCEPT !.kv = @ + Cardinality(InView(s, n))]]
    IN  /\ pc = "decode" /\ head < Len(batch) /\ Consecutive(n)
        /\ slot' = [c \in Slots |->
                     LET parents == {s \in Slots : slot[s].state = "done" /\ IsParent(slot[s]) /\ WaitingOn(c, s)}
                     IN  IF parents = {} THEN decoded[c]
                         ELSE CopyState(decoded[c], decoded[CHOOSE s \in parents : TRUE])]
        /\ view' = n /\ nBatch' = NBatch /\ pc' = "sample" /\ at' = 0
        /\ torn' = (torn \/ Tears(head + n))
        /\ UNCHANGED <<params, batch, lead, head, launched, answer>>

(* No cells: an idle slot is purged, else the view is halved.               *)
Purgeable == {s \in Slots : Idle(s) /\ slot[s].nTokens > 0}
Purge(r) == Clear(r)

CanRetry == pc = "decode" /\ head < Len(batch) /\ Consecutive(ViewSize) /\ MayFill /\ nBatch > 1
RetryDecode ==
    /\ CanRetry
    /\ \/ /\ params.kv_unified
          /\ \E s \in Purgeable : (\A p \in Purgeable : s <= p) /\ slot' = [slot EXCEPT ![s] = Purge(@)]
          /\ nBatch' = nBatch
       \/ /\ ~(params.kv_unified /\ Purgeable # {})
          /\ slot' = slot /\ nBatch' = nBatch \div 2
    /\ UNCHANGED <<params, pc, at, batch, lead, head, view, launched, answer, torn>>

(* No way out: every working slot gets an error and loses its cells.        *)
ResetUpdate == pc' = "rest" /\ at' = 0 /\ batch' = <<>> /\ lead' = -1 /\ head' = 0 /\ view' = 0 /\ nBatch' = NBatch

FailDecode ==
    /\ pc = "decode" /\ head < Len(batch)
    /\ (MayFill /\ nBatch = 1) \/ MayBreak \/ ~Consecutive(ViewSize)
    /\ slot' = [s \in Slots |-> IF Idle(s) THEN slot[s] ELSE Clear(Released(slot[s]))]
    /\ Answer({s \in Slots : ~Idle(s)}, "error")
    /\ ResetUpdate /\ UNCHANGED <<params, launched, torn>>

EndUpdate ==
    /\ pc = "decode" /\ head >= Len(batch)
    /\ ResetUpdate /\ UNCHANGED <<params, slot, launched, answer, torn>>

-----------------------------------------------------------------------------
(* Sampling for the slots whose last token is in the view.                  *)
Sampled(s) ==
    /\ slot[s].state \in {"done", "generating"}
    /\ slot[s].iBatch \in head..(head + view - 1)

Sample(r) == [r EXCEPT !.state = "generating", !.iBatch = -1, !.nDecoded = @ + 1]

SkipSample ==
    /\ pc = "sample" /\ ~Sampled(at) /\ NextSlot("sample", "verify")
    /\ UNCHANGED <<params, slot, batch, lead, cursor, launched, answer, torn>>

SendEmbedding ==
    /\ pc = "sample" /\ Sampled(at) /\ slot[at].task.kind = "embedding"
    /\ slot' = [slot EXCEPT ![at] = [Released(@) EXCEPT !.iBatch = -1]] /\ Answer({at}, "final")
    /\ NextSlot("sample", "verify")
    /\ UNCHANGED <<params, batch, lead, cursor, launched, torn>>

SampleToken ==
    LET r == Sample(slot[at]) IN
    /\ pc = "sample" /\ Sampled(at) /\ slot[at].task.kind = "completion"
    /\ \E eos \in BOOLEAN :
        IF Stops(r, eos)
        THEN slot' = [slot EXCEPT ![at] = Released(Processed(r))] /\ Answer({at}, "final")
        ELSE slot' = [slot EXCEPT ![at] = Processed(r)] /\ UNCHANGED answer
    /\ NextSlot("sample", "verify")
    /\ UNCHANGED <<params, batch, lead, cursor, launched, torn>>

-----------------------------------------------------------------------------
(* Verification of the drafts, after every view and in whatever view they   *)
(* are: the accepted tokens stay in the prompt, the others are rolled back. *)
Drafted(s) == Generating(s) /\ slot[s].dft # {}
ToNextView == head' = head + view /\ view' = 0 /\ nBatch' = nBatch
NextDraft == NextSlot("verify", "decode") /\ (IF at = NSlots - 1 THEN ToNextView ELSE UNCHANGED cursor)

SkipVerify ==
    /\ pc = "verify" /\ ~Drafted(at) /\ NextDraft
    /\ UNCHANGED <<params, slot, batch, lead, launched, answer, torn>>

(* The indices are those of the batch, the outputs those of the view.       *)
HasOutputs(s) == slot[s].dft \subseteq 0..(view - 1)

VerifyDraft ==
    LET r == slot[at]
        n_draft == Cardinality(r.dft) - 1
    IN  /\ pc = "verify" /\ Drafted(at) /\ HasOutputs(at)
        /\ \E accepted \in 0..n_draft, eos \in BOOLEAN :
            LET kept == RemoveTail([r EXCEPT !.nTokens = @ - n_draft + accepted,
                                             !.nDecoded = @ + accepted + 1, !.dft = {}])
            IN  IF Stops(kept, eos)
                THEN slot' = [slot EXCEPT ![at] = Released(Processed(kept))] /\ Answer({at}, "final")
                ELSE slot' = [slot EXCEPT ![at] = Processed(kept)] /\ UNCHANGED answer
        /\ NextDraft
        /\ UNCHANGED <<params, batch, lead, launched, torn>>

(* Sampling where the view has no output ends the process.                  *)
Crash ==
    /\ pc = "verify" /\ Drafted(at) /\ ~HasOutputs(at)
    /\ pc' = "crashed"
    /\ UNCHANGED <<params, slot, at, batch, lead, cursor, launched, answer, torn>>

-----------------------------------------------------------------------------
Step ==
    \/ BeginUpdate \/ NoShift \/ ShiftRefused \/ Shift
    \/ SkipSampled \/ AddSampled \/ AddDraft
    \/ SkipPrompt \/ EndPrompt \/ WaitForBatch \/ FillPrompt
    \/ Decode \/ RetryDecode \/ FailDecode \/ EndUpdate
    \/ SkipSample \/ SendEmbedding \/ SampleToken
    \/ SkipVerify \/ VerifyDraft \/ Crash

Next ==
    \/ Step
    \/ \E s \in Slots, q \in Requests : Launch(s, q)
    \/ \E id \in 1..MaxTasks : Cancel(id)

Spec == Init /\ [][Next]_vars

(* The loop runs, and a reader that was sent an error cancels the rest.     *)
Orphaned(id) == \E s \in Family(id) : slot[s].state = "wait" /\ answer[slot[s].task.parent] = "error"
CancelOrphans == \E id \in 1..MaxTasks : Orphaned(id) /\ Cancel(id)
FairSpec == Spec /\ WF_vars(Step) /\ SF_vars(CancelOrphans)

-----------------------------------------------------------------------------
(* Properties                                                               *)

(* Every variable stays within its type; no index points past the batch.    *)
TypeOK ==
    /\ params \in Params
    /\ pc \in {"rest", "shift", "sampled", "prompts", "decode", "sample", "verify", "crashed"}
    /\ at \in Slots /\ lead \in Slots \cup {-1}
    /\ nBatch \in 1..NBatch /\ head \in 0..Len(batch) /\ view \in 0..NBatch
    /\ launched \in 0..MaxTasks
    /\ \A id \in DOMAIN answer : answer[id] \in {"none", "final", "error", "cancelled"}
    /\ \A s \in Slots :
        /\ slot[s].state \in {"idle", "started", "wait", "processing", "done", "generating"}
        /\ slot[s].nTokens \in 0..NCtx /\ slot[s].kv \in 0..NCtx
        /\ slot[s].dft \subseteq 0..(Len(batch) - 1)

(* Between updates the memory of a slot holds exactly the cells of its      *)
(* prompt, unless a view tore a draft or a shared prompt, or the slot has   *)
(* no tokens: then it may hold cells of an older prompt, as the tokens are  *)
(* dropped where a new prompt starts and the cells only where its batch is  *)
(* filled (a prompt that cannot be split may wait, or be cancelled, in      *)
(* between).  The roll-back of drafts, the shift, the purge and the error   *)
(* path of update_slots all change both, in different statements.           *)
Stranded(s) == slot[s].nTokens = 0 /\ slot[s].kv > 0
KvMatchesPrompt ==
    pc = "rest" /\ ~torn => \A s \in Slots : slot[s].kv = slot[s].nTokens \/ Stranded(s)

(* "when the main prompt is processed, activate all child tasks too": a     *)
(* child that generates has every cell of the prompt it shares.             *)
ChildrenHaveCells ==
    pc = "rest" => \A s \in Slots : Generating(s) /\ IsChild(slot[s]) => slot[s].kv = slot[s].nTokens

(* What a slot samples from, or verifies its draft with, is the output for  *)
(* its own last tokens (a child's first token: its parent's), in the batch  *)
(* that was just decoded.                                                   *)
OwnLogits ==
    pc \in {"sample", "verify"} /\ ~torn =>
        /\ pc = "sample" => \A s \in Slots : s >= at /\ Sampled(s) =>
            LET token == batch[slot[s].iBatch + 1] IN
            /\ token.pos = slot[s].nTokens - 1
            /\ token.slot = s \/ slot[token.slot].task.id = slot[s].task.parent
               \/ (IsChild(slot[s]) /\ Idle(token.slot))
        /\ pc = "verify" => \A s \in Slots : s >= at /\ Drafted(s) =>
            HasOutputs(s) /\ \A i \in slot[s].dft : batch[i + 1].slot = s

(* "we should never get here, because generation should already stopped in  *)
(* process_token()": without context shift no generating slot is full; and  *)
(* no answer counts more tokens than n_predict, drafts included (one token  *)
(* is sampled before the limit is looked at).                               *)
WithinLimits ==
    /\ [](pc = "shift" /\ ~params.ctx_shift => \A s \in Slots : ~NeedsShift(s))
    /\ [][\A s \in Slots : slot[s].state \in {"done", "generating"} /\ slot[s].task.n_predict # -1 =>
            slot'[s].nDecoded <= LargerOf(slot[s].task.n_predict, 1)]_vars

(* A task gets one answer, when it leaves its slot, and none after that.    *)
AnsweredOnce ==
    [][\A id \in 1..MaxTasks : answer'[id] # answer[id] =>
        /\ answer[id] = "none"
        /\ \A s \in Slots : slot'[s].task.id # id]_vars

(* Every launched task is answered or cancelled: update_slots returns       *)
(* however often llama_decode finds no cells, a prompt that has to wait for *)
(* a batch gets one, a child its parent's prompt or its CANCEL.             *)
EveryTaskEnds == \A id \in 1..MaxTasks : (launched >= id) ~> (answer[id] # "none" \/ pc = "crashed")
=============================================================================
