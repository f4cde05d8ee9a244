----------------------------- MODULE PromptReuse -----------------------------
(***************************************************************************)
(* What the slots keep of earlier prompts and how a new one reuses it:     *)
(* get_available_slot, the reuse of a prompt in update_slots, the context  *)
(* checkpoints, the slot actions (core/src/server/server-context.cpp), and *)
(* server_prompt_cache (server-task.cpp).                                  *)
(*                                                                         *)
(* UpdateSlots counts tokens and cells; here they have contents.  The      *)
(* memory of llama.cpp is external: per slot `base` holds the cells of     *)
(* full attention and `swa` those of sliding-window attention, both        *)
(* functions from positions to the cell computed there, a token together   *)
(* with the adapters in use.  The window cells that lie before the last    *)
(* `window` positions may be dropped by any decode.  All this runs on the  *)
(* loop thread, so an action is what it does between two looks at the      *)
(* queue.                                                                  *)
(*                                                                         *)
(* Abstracted: multimodal chunks, alora, drafts, children, recurrent and   *)
(* hybrid models.  The 64 positions, 64 tokens and 512 tokens of the       *)
(* checkpoints are the constants CkptFrom, CkptGap and LastChunk.          *)
(***************************************************************************)
EXTENDS Integers, Sequences, FiniteSets, SequencesExt, FiniteSetsExt, Functions, Queues

CONSTANTS
    Requests,       \* what may be asked: [prompt, lora, cachePrompt]
    Sampled,        \* tokens a model may generate
    NCtx,           \* tokens a slot holds
    NBatch,         \* n_batch
    Setups,         \* [slots, window, maxCkpt, shiftable, requests]: the number of slots,
                    \* the model's n_swa (0 without), n_ctx_checkpoints, whether cells can
                    \* move, and the bound on requests and slot actions
    NCacheReuse,    \* params.n_cache_reuse
    CkptFrom, CkptGap, LastChunk,
    SimNum, SimDen, \* slot_prompt_similarity
    LimitTokens,    \* limit_tokens of the prompt cache, 0: none
    LimitSize       \* its initial limit_size, 0: none

Tokens == (UNION {{r.prompt[i] : i \in DOMAIN r.prompt} : r \in Requests}) \cup Sampled

ASSUME PromptReuseAssumption ==
    /\ \A r \in Requests : r.prompt \in Seq(Range(r.prompt)) /\ r.prompt # <<>> /\ Len(r.prompt) < NCtx
    /\ Setups \subseteq [slots : Nat \ {0}, window : Nat, maxCkpt : Nat, shiftable : BOOLEAN,
                         requests : Nat]
    /\ \A k \in Setups : k.shiftable => k.window = 0
    /\ {NBatch, LastChunk, SimDen} \subseteq Nat \ {0}
    /\ {NCtx, NCacheReuse, CkptFrom, CkptGap, SimNum, LimitTokens, LimitSize} \subseteq Nat

NoLora == "none"    \* lora_adapters as configured, no adapter enabled
Unset  == "unset"   \* the request names no adapters

VARIABLES
    setup,      \* the parameters of the server, chosen at the start
    state,      \* per slot: idle, started (no pass over its prompt yet), prompt, generating
    task,       \* per slot: its request
    lora,       \* slot.lora
    tokens,     \* slot.prompt.tokens
    ckpts,      \* slot.prompt.checkpoints, each the window cells it holds
    base, swa,  \* the memory of each slot
    lastUsed,   \* the slots in the order of t_last_used
    cache,      \* prompt_cache->states
    limitSize,  \* prompt_cache->limit_size
    file,       \* the file of SLOT_SAVE, a set of at most one saved state
    count,      \* requests so far
    thin        \* history: a window too short was kept (see TakesThin)

promptVars == <<tokens, ckpts, base, swa>>
cacheVars  == <<cache, limitSize>>
vars == <<setup, state, task, lora, promptVars, lastUsed, cacheVars, file, count, thin>>

Slots == 0..(setup.slots - 1)
NoTask == [prompt |-> <<>>, lora |-> Unset, cachePrompt |-> FALSE]

-----------------------------------------------------------------------------
(* Cells: seq_rm, seq_pos_min, seq_add. *)
None == [p \in {} |-> <<>>]
Before(cells, p)     == RestrictDomain(cells, LAMBDA q : q < p)
From(cells, p)       == RestrictDomain(cells, LAMBDA q : q >= p)
Without(cells, i, j) == RestrictDomain(cells, LAMBDA q : q < i \/ q >= j)
Moved(cells, i, j, to) ==    \* the cells of [i, j) go to the positions from `to` on
    [q \in {k \in DOMAIN cells : k < i \/ k >= j} \cup {k + to - i : k \in {n \in DOMAIN cells : i <= n /\ n < j}}
        |-> IF to <= q /\ q < to + j - i THEN cells[q - to + i] ELSE cells[q]]
Joined(cells, new) ==
    [q \in DOMAIN cells \cup DOMAIN new |-> IF q \in DOMAIN cells THEN cells[q] ELSE new[q]]
PosMin(cells) == Min(DOMAIN cells)
PosMax(cells) == Max(DOMAIN cells)

(* The sum of a sequence of numbers. *)
Total(f) ==
    LET sum[i \in 0..Len(f)] == IF i = 0 THEN 0 ELSE sum[i - 1] + f[i]
    IN  sum[Len(f)]

(* The longest common prefix: server_tokens::get_common_prefix. *)
CommonPrefix(s, t) ==
    Max({n \in 0..Len(s) : n <= Len(t) /\ SubSeq(s, 1, n) = SubSeq(t, 1, n)})

(* The memory a slot reports: the window cells if there are any. *)
SeqCells(b, w) == IF setup.window > 0 THEN w ELSE b

-----------------------------------------------------------------------------
(* server_prompt_cache.  A state: prompt.tokens, its data and checkpoints;  *)
(* a cell and a cell of a checkpoint have size 1.                           *)
Cells(cells) == Cardinality(DOMAIN cells)
StateSize(st) == Cells(st.base) + Cells(st.swa) + Total([i \in 1..Len(st.ckpts) |-> Cells(st.ckpts[i])])
CacheSize(c)   == Total([i \in 1..Len(c) |-> StateSize(c[i])])
CacheTokens(c) == Total([i \in 1..Len(c) |-> Len(c[i].tokens)])

(* update(): the oldest states go until the limits hold or one is left; the *)
(* token limit grows with what fits in the size limit at the average size.  *)
Suffix(c, n) == SubSeq(c, n + 1, Len(c))
DropOldest(c, fitting) == Suffix(c, Min({n \in 0..Len(c) : Len(c) - n <= 1} \cup fitting))

TokenLimit(c, limit) ==
    IF limit = 0 THEN LimitTokens
    ELSE LET size == CacheSize(c) n == Max({1, CacheTokens(c)})
         IN  Max({LimitTokens, IF size <= n THEN limit ELSE (limit * n) \div size})

Keep(c, limit) == c    \* mutant: update() drops nothing
Update(c, limit) ==
    LET bySize == DropOldest(c, {n \in 0..Len(c) : limit > 0 => CacheSize(Suffix(c, n)) <= limit})
    IN  DropOldest(bySize, {n \in 0..Len(bySize) : LimitTokens > 0 =>
                               CacheTokens(Suffix(bySize, n)) <= TokenLimit(bySize, limit)})

(* alloc(): a prompt that some state contains is not saved; the states it   *)
(* contains are removed.                                                    *)
Contained(c, st) == \E i \in DOMAIN c : CommonPrefix(c[i].tokens, st.tokens) = Len(st.tokens)
NotObsolete(c, st) == KeepAt(c, {i \in 1..Len(c) : CommonPrefix(c[i].tokens, st.tokens) # Len(c[i].tokens)})

(* load(): the state that shares more with the new prompt, and loses less   *)
(* of itself, than the slot's prompt and the states before it.              *)
Better(best, c, i, prompt) ==
    LET cur == CommonPrefix(c[i].tokens, prompt)
    IN  IF /\ 4 * cur >= Len(c[i].tokens)
           /\ best.lcp * Len(c[i].tokens) < cur * best.len
           /\ best.lcp < cur
        THEN [at |-> i, lcp |-> cur, len |-> Len(c[i].tokens)]
        ELSE best
BestState(c, st, prompt) ==
    LET best[i \in 0..Len(c)] ==
            IF i = 0
            THEN [at |-> 0, lcp |-> CommonPrefix(st.tokens, prompt), len |-> Len(st.tokens)]
            ELSE Better(best[i - 1], c, i, prompt)
    IN  best[Len(c)].at

-----------------------------------------------------------------------------
SlotState(s) == [tokens |-> tokens[s], ckpts |-> ckpts[s], base |-> base[s], swa |-> swa[s]]
Blank(st)    == [st EXCEPT !.tokens = <<>>, !.base = None, !.swa = None]   \* prompt_clear
SetSlot(s, st) ==
    /\ tokens' = [tokens EXCEPT ![s] = st.tokens]
    /\ ckpts'  = [ckpts EXCEPT ![s] = st.ckpts]
    /\ base'   = [base EXCEPT ![s] = st.base]
    /\ swa'    = [swa EXCEPT ![s] = st.swa]

Init ==
    /\ setup \in Setups
    /\ state = [s \in Slots |-> "idle"] /\ task = [s \in Slots |-> NoTask]
    /\ lora = [s \in Slots |-> NoLora]
    /\ tokens = [s \in Slots |-> <<>>] /\ ckpts = [s \in Slots |-> <<>>]
    /\ base = [s \in Slots |-> None] /\ swa = [s \in Slots |-> None]
    /\ lastUsed = [i \in 1..setup.slots |-> setup.slots - i]
    /\ cache = <<>> /\ limitSize = LimitSize /\ file = {} /\ count = 0 /\ thin = FALSE

Idle == {s \in Slots : state[s] = "idle"}

-----------------------------------------------------------------------------
(* get_available_slot: the idle slot whose prompt is most similar, if any   *)
(* is similar enough, else the one not used for the longest time.           *)
Lcp(s, r) == CommonPrefix(tokens[s], r.prompt)
Similar(r) == {s \in Idle : Lcp(s, r) * SimDen > SimNum * Len(r.prompt)}
MostSimilar(r) == Min({s \in Similar(r) : \A t \in Similar(r) : Lcp(t, r) <= Lcp(s, r)})
OldestIdle == lastUsed[Min({i \in 1..Len(lastUsed) : lastUsed[i] \in Idle})]
AvailableSlot(r) == IF Similar(r) # {} THEN MostSimilar(r) ELSE OldestIdle

(* The prompt goes to the cache when most of it would be lost.              *)
SavesPrompt(s, r) == tokens[s] # <<>> /\ (s \in Similar(r) => 2 * Lcp(s, r) < Len(tokens[s]))

(* launch_slot_with_task, the adapters: a request that names other ones     *)
(* than the slot has clears the tokens, and so what would be reused.        *)
AdaptersOf(r) == IF r.lora = Unset THEN NoLora ELSE r.lora
Entering(s, r, st) ==
    IF r.lora # Unset /\ r.lora # lora[s] THEN [st EXCEPT !.tokens = <<>>] ELSE st

(* prompt_save, prompt_load and update: the slot's prompt is saved, a       *)
(* better one replaces it.  Memory for the saved state may be lacking, and  *)
(* a state may fail to load, which clears the slot.                         *)
ReduceTo(c) == Max({1, (4 * CacheSize(c)) \div 10})
Saved(st, limit) ==    \* the cache and its limit after prompt_save
    IF Contained(cache, st) THEN {<<cache, limit>>}
    ELSE LET others == NotObsolete(cache, st)
         IN  {<<Append(others, st), limit>>,
              <<Update(others, ReduceTo(others)), ReduceTo(others)>>}    \* bad_alloc

Loaded(st, c, r) ==    \* what the slot has, and the cache, after prompt_load
    LET best == BestState(c, st, r.prompt)
    IN  IF best = 0 THEN {<<st, c>>}
        ELSE {<<c[best], RemoveAt(c, best)>>,
              <<Blank(st), c>>}    \* failed to restore state

SwapPrompt(s, r) ==
    \E saved \in Saved(SlotState(s), limitSize) :
        \E loaded \in Loaded(SlotState(s), saved[1], r) :
            /\ SetSlot(s, Entering(s, r, loaded[1]))
            /\ limitSize' = saved[2]
            /\ cache' = Update(loaded[2], limitSize')

Launch(r) ==
    /\ Idle # {} /\ count < setup.requests
    /\ LET s == AvailableSlot(r)
       IN  /\ IF SavesPrompt(s, r)
              THEN SwapPrompt(s, r)
              ELSE SetSlot(s, Entering(s, r, SlotState(s))) /\ UNCHANGED cacheVars
           /\ state' = [state EXCEPT ![s] = "started"]
           /\ task' = [task EXCEPT ![s] = r]
           /\ lora' = [lora EXCEPT ![s] = AdaptersOf(r)]
    /\ count' = count + 1
    /\ UNCHANGED <<setup, lastUsed, file, thin>>

-----------------------------------------------------------------------------
(* n_cache_reuse: equal chunks of the old prompt that lie further back move *)
(* to where the new prompt has them.  `hc` and `hp` are head_c and head_p.  *)
NMatch(t, p, hc, hp) ==
    CommonPrefix(SubSeq(t, hc + 1, Len(t)), SubSeq(p, hp + 1, Len(p)))

ReuseChunk(at, p) ==    \* one round of the loop
    LET n == NMatch(at.st.tokens, p, at.hc, at.hp)
        hc == at.hc
        hp == at.hp
    IN  IF hc >= Len(at.st.tokens) \/ hp >= Len(p) THEN at
        ELSE IF n < NCacheReuse THEN [at EXCEPT !.hc = @ + 1]
        ELSE [st |-> [at.st EXCEPT
                        !.base = Moved(Without(@, hp, hc), hc, hc + n, hp),
                        !.tokens = [i \in 1..Len(@) |-> IF hp < i /\ i <= hp + n THEN @[i + hc - hp] ELSE @[i]]],
              hc |-> hc + n, hp |-> hp + n]
ReuseChunks(st, p, n) ==    \* each round moves head_c on
    LET at[k \in 0..Len(st.tokens)] ==
            IF k = 0 THEN [st |-> st, hc |-> n, hp |-> n] ELSE ReuseChunk(at[k - 1], p)
    IN  at[Len(st.tokens)]

(* What of the slot's prompt is kept: the common prefix, and the chunks     *)
(* behind it if the cells can be shifted.                                   *)
Reused(s) ==
    LET st == SlotState(s)
        n  == CommonPrefix(st.tokens, task[s].prompt)
    IN  IF ~task[s].cachePrompt THEN [st |-> st, nPast |-> 0]
        ELSE IF setup.shiftable /\ NCacheReuse > 0
        THEN LET at == ReuseChunks(st, task[s].prompt, n) IN [st |-> at.st, nPast |-> at.hp]
        ELSE [st |-> st, nPast |-> n]

(* pos_min_thold, and the cells of the window that must still be there      *)
Window == Max({1, setup.window})
Threshold(n) == Max({0, n - Window})
TrustsWindow(st, n) == FALSE    \* mutant: pos_min is not looked at
LacksWindow(st, n) ==
    /\ 0 < n /\ n < Len(st.tokens)
    /\ PosMin(SeqCells(st.base, st.swa)) > Threshold(n)

(* [TAG_PROMPT_LOGITS]: at least one token is evaluated. *)
EvaluatesOne(n, r) == IF n = Len(r.prompt) /\ n > 0 THEN n - 1 ELSE n

Usable(st, n) == {i \in 1..Len(st.ckpts) : PosMin(st.ckpts[i]) < Threshold(n)}

Valid(st, n) == KeepAt(st.ckpts, {i \in 1..Len(st.ckpts) : PosMin(st.ckpts[i]) <= Threshold(n)})

(* The last usable checkpoint takes the place of the window cells; without  *)
(* one, or if it fails to load, the whole prompt is processed again.        *)
Restored(st, n) ==
    IF ~LacksWindow(st, n) THEN {<<st.swa, n>>}
    ELSE IF Usable(st, n) = {} THEN {<<st.swa, 0>>}
    ELSE LET c == st.ckpts[Max(Usable(st, n))]
         IN  {<<c, Min({n, Max({PosMin(c) + 1, PosMax(c)})})>>, <<st.swa, 0>>}

(* What a slot keeps of its prompt for the request it has.                  *)
Kept(s) ==
    LET re == Reused(s)
    IN  {[re.st EXCEPT !.swa = window[1],
                       !.ckpts = Valid(re.st, re.nPast),
                       !.tokens = SubSeq(@, 1, EvaluatesOne(window[2], task[s]))]
            : window \in Restored(re.st, re.nPast)}

-----------------------------------------------------------------------------
(* llama_decode (external): the tokens are computed with the adapters of    *)
(* the slot; window cells no later token will look at may be dropped.       *)
Computed(s, from, toks) ==
    [p \in from..(from + Len(toks) - 1) |-> <<toks[p - from + 1], lora[s]>>]

Decoded(s, st, toks) ==
    LET n == Len(st.tokens) + Len(toks)
        new == Computed(s, Len(st.tokens), toks)
        window == Joined(st.swa, new)
    IN  {[st EXCEPT !.tokens = @ \o toks, !.base = Joined(@, new), !.swa = w] :
            w \in IF setup.window = 0 THEN {None}
                  ELSE {window, From(window, Threshold(n))}}

(* The end of what is added to this batch: the prompt's end, the room, or   *)
(* the place where a checkpoint can be taken before the last chunk.         *)
MakesCkpt == setup.maxCkpt > 0 /\ setup.window > 0
FillTo(n, total, room) ==
    LET stop == total - Min({NBatch, LastChunk})
    IN  Min({total, n + room} \cup (IF MakesCkpt /\ n < stop THEN {stop} ELSE {}))

(* A checkpoint is taken when the last chunk is in the batch and not yet    *)
(* decoded; small ones and ones close to the last are not taken.            *)
TakesCkpt(st) ==
    /\ MakesCkpt
    /\ st.swa # None /\ PosMax(st.swa) >= CkptFrom
    /\ st.ckpts = <<>> \/ PosMax(st.swa) > PosMax(Last(st.ckpts)) + CkptGap
Untrimmed(st) ==        \* mutant: n_ctx_checkpoints does not limit them
    IF MakesCkpt /\ st.swa # None THEN [st EXCEPT !.ckpts = Append(@, st.swa)] ELSE st
WithCkpt(st) ==
    IF TakesCkpt(st)
    THEN LET n == Len(st.ckpts)
         IN  [st EXCEPT !.ckpts = Append(SubSeq(@, Max({1, n - setup.maxCkpt + 2}), n), st.swa)]
    ELSE st

(* The history variable.  After the last token was taken back, or a         *)
(* checkpoint restored, the window may lack its oldest position: the next   *)
(* token does not look at it, and after that token it is whole again.  It   *)
(* is kept if a checkpoint is taken at once, or if the batch has no room.   *)
Whole(cells, n) == \A p \in Threshold(n)..(n - 1) : p \in DOMAIN cells
TakesThin(cut, to, last) ==
    /\ setup.window > 0 /\ ~Whole(cut.swa, Len(cut.tokens))
    /\ to = Len(cut.tokens) \/ (last /\ TakesCkpt(cut))

(* The cells behind the kept tokens are removed; a memory that cannot be    *)
(* cut there is cleared, and the prompt with it.                            *)
Uncut(st, p) == {st}    \* mutant: the old cells stay
CutAt(st, p) ==
    LET cut == [st EXCEPT !.base = Before(@, p), !.swa = Before(@, p)]
    IN  IF cut = st THEN {st} ELSE {cut, Blank(st)}

(* Other working slots may have taken room in the batch, all of it only if  *)
(* there are more slots than places.                                        *)
Room(s) == IF Idle = Slots \ {s} THEN {NBatch} ELSE {n \in 0..NBatch : n > 0 \/ setup.slots > NBatch}

(* One pass over a slot with a prompt, from what it keeps to the decode.    *)
Pass(s, kept) ==
    /\ \E cut \in CutAt(kept, Len(kept.tokens)), room \in Room(s) :
        LET prompt == task[s].prompt
            n    == Len(cut.tokens)
            to   == FillTo(n, Len(prompt), room)
            last == to = Len(prompt)
            st   == IF last THEN WithCkpt(cut) ELSE cut
        IN  /\ \E after \in Decoded(s, st, SubSeq(prompt, n + 1, to)) : SetSlot(s, after)
            /\ state' = [state EXCEPT ![s] = IF last THEN "generating" ELSE "prompt"]
            /\ thin' = (thin \/ TakesThin(cut, to, last))
    /\ UNCHANGED <<setup, task, lora, lastUsed, cacheVars, file, count>>

StartPrompt(s) == state[s] = "started" /\ \E kept \in Kept(s) : Pass(s, kept)

FillPrompt(s) == state[s] = "prompt" /\ Pass(s, SlotState(s))

(* A sampled token joins the next batch.                                    *)
Generate(s, t) ==
    /\ state[s] = "generating" /\ Len(tokens[s]) + 1 < NCtx
    /\ \E after \in Decoded(s, SlotState(s), <<t>>) : SetSlot(s, after)
    /\ UNCHANGED <<setup, state, task, lora, lastUsed, cacheVars, file, count, thin>>

(* The context shift with n_keep = 0: the first half goes.                  *)
ShiftContext(s) ==
    /\ state[s] = "generating" /\ Len(tokens[s]) + 1 >= NCtx /\ setup.shiftable
    /\ LET n == Len(tokens[s]) discard == n \div 2
       IN  SetSlot(s, [SlotState(s) EXCEPT
                         !.tokens = SubSeq(@, discard + 1, n),
                         !.base = Moved(Without(@, 0, discard), discard, n, 0)])
    /\ UNCHANGED <<setup, state, task, lora, lastUsed, cacheVars, file, count, thin>>

-----------------------------------------------------------------------------
(* release(): done, given up or refused; the prompt stays in the slot.      *)
Release(s) ==
    /\ state[s] # "idle"
    /\ state' = [state EXCEPT ![s] = "idle"]
    /\ task' = [task EXCEPT ![s] = NoTask]
    /\ lastUsed' = Append(KeepAt(lastUsed, {i \in 1..Len(lastUsed) : lastUsed[i] # s}), s)
    /\ UNCHANGED <<setup, lora, promptVars, cacheVars, file, count, thin>>

(* llama_decode fails: every working slot is released and cleared.          *)
FailBatch ==
    LET working == Slots \ Idle
    IN  /\ \E s \in working : state[s] # "started"
        /\ state' = [s \in Slots |-> "idle"] /\ task' = [s \in Slots |-> NoTask]
        /\ tokens' = [s \in Slots |-> IF s \in working THEN <<>> ELSE tokens[s]]
        /\ base' = [s \in Slots |-> IF s \in working THEN None ELSE base[s]]
        /\ swa' = [s \in Slots |-> IF s \in working THEN None ELSE swa[s]]
        /\ lastUsed' = KeepAt(lastUsed, {i \in 1..Len(lastUsed) : lastUsed[i] \notin working})
                       \o KeepAt([i \in 1..setup.slots |-> i - 1], {s + 1 : s \in working})
        /\ UNCHANGED <<setup, lora, ckpts, cacheVars, file, count, thin>>

(* try_clear_idle_slots: the first idle slot that has tokens is cleared.    *)
Purge ==
    LET full == {s \in Idle : tokens[s] # <<>>}
    IN  /\ full # {} /\ Idle # Slots
        /\ SetSlot(Min(full), Blank(SlotState(Min(full))))
        /\ UNCHANGED <<setup, state, task, lora, lastUsed, cacheVars, file, count, thin>>

(* SLOT_SAVE, SLOT_RESTORE and SLOT_ERASE of an idle slot.  A restore that  *)
(* fails clears the tokens; the memory may or may not be gone.              *)
SlotAction(s) ==
    /\ state[s] = "idle" /\ count < setup.requests
    /\ count' = count + 1
    /\ UNCHANGED <<setup, state, task, lora, lastUsed, cacheVars, thin>>

SaveSlot(s) ==
    /\ SlotAction(s)
    /\ file' = {[tokens |-> tokens[s], base |-> base[s], swa |-> swa[s]]}
    /\ UNCHANGED promptVars

RestoreSlot(s) ==
    /\ SlotAction(s)
    /\ \/ \E saved \in file :
             SetSlot(s, [SlotState(s) EXCEPT !.tokens = saved.tokens, !.base = saved.base, !.swa = saved.swa])
       \/ SetSlot(s, [SlotState(s) EXCEPT !.tokens = <<>>])
       \/ SetSlot(s, Blank(SlotState(s)))
    /\ UNCHANGED file

EraseSlot(s) ==
    /\ SlotAction(s)
    /\ SetSlot(s, Blank(SlotState(s)))
    /\ UNCHANGED file

-----------------------------------------------------------------------------
Next ==
    \/ \E r \in Requests : Launch(r)
    \/ \E s \in Slots : StartPrompt(s) \/ FillPrompt(s) \/ ShiftContext(s) \/ Release(s)
    \/ \E s \in Slots, t \in Sampled : Generate(s, t)
    \/ FailBatch \/ Purge
    \/ \E s \in Slots : SaveSlot(s) \/ RestoreSlot(s) \/ EraseSlot(s)

Spec == Init /\ [][Next]_vars

-----------------------------------------------------------------------------
IsCells(cells) ==
    /\ DOMAIN cells \subseteq 0..(NCtx - 1)
    /\ \A p \in DOMAIN cells : cells[p] \in Tokens \X ({r.lora : r \in Requests} \cup {NoLora})
IsState(st) ==
    /\ Len(st.tokens) <= NCtx /\ \A i \in DOMAIN st.tokens : st.tokens[i] \in Tokens
    /\ IsCells(st.base) /\ IsCells(st.swa)
    /\ Len(st.ckpts) <= setup.maxCkpt
    /\ \A i \in DOMAIN st.ckpts : st.ckpts[i] # None /\ IsCells(st.ckpts[i])

(* Types; a slot has at most n_ctx_checkpoints checkpoints, none empty.     *)
TypeOK ==
    /\ \A s \in Slots : /\ state[s] \in {"idle", "started", "prompt", "generating"}
                        /\ task[s] \in Requests \cup {NoTask}
                        /\ IsState(SlotState(s))
    /\ \A i \in DOMAIN cache : IsState(cache[i])
    /\ Range(lastUsed) = Slots /\ limitSize \in Nat /\ count \in 0..setup.requests

States == {SlotState(s) : s \in Slots} \cup Range(cache)

(* Every prompt that is kept, in a slot or in the cache, names the tokens   *)
(* its full-attention cells were computed from, through reuse of a prefix,  *)
(* shifted chunks, context shifts, the cache and its failures, slot files   *)
(* and failed batches; the window cells as well if no checkpoints are used. *)
SameTokens(cells, toks, from) ==
    \A p \in from..(Len(toks) - 1) : p \in DOMAIN cells /\ cells[p][1] = toks[p + 1]
WindowMatches(st) ==
    \A p \in DOMAIN st.swa : p < Len(st.tokens) => st.swa[p][1] = st.tokens[p + 1]
CellsMatch ==
    \A st \in States :
        /\ SameTokens(st.base, st.tokens, 0)
        /\ setup.maxCkpt = 0 => WindowMatches(st)

(* Where a slot goes on, the cells the next token looks at are there: the   *)
(* window reaches back far enough, whatever was reused, also after a        *)
(* checkpoint was restored and after the last token was taken back to be    *)
(* evaluated again.  Except when a window that was one position short was   *)
(* kept: see `thin`.  And "pos_min == -1, but n_past > 0 - should not       *)
(* happen": where the window is looked at there is memory, whatever was     *)
(* cleared, purged, restored or swapped since the tokens were computed.     *)
(* For this the batch must have a place for each slot: without room a kept  *)
(* prompt may lose its last cells and wait.                                 *)
GoesOnWith(s) ==
    IF state[s] = "idle" THEN {} ELSE IF state[s] = "started" THEN Kept(s) ELSE {SlotState(s)}
Sees(cells, n) == \A p \in Max({0, n - setup.window + 1})..(n - 1) : p \in DOMAIN cells
WindowReaches ==
    setup.window > 0 /\ ~thin =>
        \A s \in Slots : \A st \in GoesOnWith(s) : Sees(st.swa, Len(st.tokens))
MemoryIsThere ==
    setup.slots <= NBatch =>
        \A s \in Slots : state[s] = "started" =>
            LET re == Reused(s)
            IN  0 < re.nPast /\ re.nPast < Len(re.st.tokens) => SeqCells(re.st.base, re.st.swa) # None
WindowPresent == WindowReaches /\ MemoryIsThere

(* The cache is within its limits unless it holds one state only, also when *)
(* memory ran out and the limit was reduced, and no state is contained in   *)
(* another.  The limit on tokens is the one update() can at most have used: *)
(* it grows with what fits in the size, and a token has size 1 at least.    *)
CacheLimits ==
    /\ Len(cache) > 1 =>
        /\ limitSize > 0 => CacheSize(cache) <= limitSize
        /\ LimitTokens > 0 => CacheTokens(cache) <= Max({LimitTokens, limitSize})
    /\ \A i, j \in DOMAIN cache : IsPrefix(cache[i].tokens, cache[j].tokens) => i = j

(* "the largest pos_min required for a checkpoint to be useful": the same,   *)
(* whatever checkpoints were taken.                                         *)
CheckpointsUseful ==
    setup.window > 0 =>
        \A s \in Slots : \A st \in GoesOnWith(s) : Sees(st.swa, Len(st.tokens))

(* "erased invalidated context checkpoint": the window cells a slot works   *)
(* with were computed from its prompt.                                      *)
CheckpointsValid ==
    \A s \in Slots : state[s] \in {"prompt", "generating"} => WindowMatches(SlotState(s))

(* "if lora has changed, check to see if the cache should be cleared": the  *)
(* cells a slot works with were computed with its adapters.                 *)
OwnAdapters ==
    \A s \in Slots : state[s] \in {"prompt", "generating"} =>
        \A p \in 0..(Len(tokens[s]) - 1) : base[s][p][2] = lora[s]
=============================================================================
