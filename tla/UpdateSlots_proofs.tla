-------------------------- MODULE UpdateSlots_proofs --------------------------
(***************************************************************************)
(* What UpdateSlots says of the slots, their cells and the batch holds for *)
(* any number of slots, any sizes of context and batch, any requests and   *)
(* any drafts.                                                             *)
(***************************************************************************)
EXTENDS UpdateSlots, TLAPS, FiniteSetTheorems, SequenceTheorems

-----------------------------------------------------------------------------
(* What the helpers return, and the order of numbers.                       *)

(* The n-th element of a set of numbers has n elements up to itself.        *)
Rank(C, x) == Cardinality({y \in C : y <= x})

LEMMA RankCounts ==
    ASSUME NEW C, C \subseteq Int, IsFiniteSet(C)
    PROVE  /\ \A x \in C : Rank(C, x) \in 1..Cardinality(C)
           /\ \A x, y \in C : Rank(C, x) = Rank(C, y) => x = y
           /\ \A n \in 1..Cardinality(C) : \E x \in C : Rank(C, x) = n
<1> DEFINE Upto(x) == {y \in C : y <= x}
           N == Cardinality(C)
           f == [x \in C |-> Rank(C, x)]
<1>1. N \in Nat
    BY FS_CardinalityType
<1>2. ASSUME NEW x \in C
      PROVE  /\ IsFiniteSet(Upto(x)) /\ Rank(C, x) = Cardinality(Upto(x))
             /\ Rank(C, x) \in Nat /\ Rank(C, x) <= N /\ Rank(C, x) # 0
    <2>1. Upto(x) \subseteq C /\ x \in Upto(x)
        OBVIOUS
    <2>2. Rank(C, x) = Cardinality(Upto(x))
        BY DEF Rank
    <2> HIDE DEF Upto
    <2>3. IsFiniteSet(Upto(x)) /\ Cardinality(Upto(x)) <= N /\ Cardinality(Upto(x)) \in Nat
        BY <2>1, FS_Subset, FS_CardinalityType
    <2>4. Cardinality(Upto(x)) # 0
        BY <2>1, <2>3, FS_EmptySet
    <2> QED
        BY <2>2, <2>3, <2>4
<1>3. ASSUME NEW x \in C, NEW y \in C, x < y PROVE Rank(C, x) # Rank(C, y)
    <2>3. x \in Int /\ y \in Int /\ \A z \in C : z \in Int
        OBVIOUS
    <2>4. \A z : z \in Upto(x) <=> z \in C /\ z <= x
        OBVIOUS
    <2>5. \A z : z \in Upto(y) <=> z \in C /\ z <= y
        OBVIOUS
    <2>6. \A z \in C : z <= x => z <= y
        BY <1>3, <2>3
    <2>7. y <= y /\ ~(y <= x)
        BY <1>3, <2>3
    <2> HIDE DEF Upto
    <2>1. Upto(x) \subseteq Upto(y) /\ y \in Upto(y) /\ y \notin Upto(x)
        BY <2>4, <2>5, <2>6, <2>7
    <2> HIDE DEF Upto
    <2>2. Cardinality(Upto(x)) # Cardinality(Upto(y))
        BY <1>2, <2>1, FS_Subset
    <2> QED
        BY <1>2, <2>2
<1>4. \A x, y \in C : Rank(C, x) = Rank(C, y) => x = y
    <2> SUFFICES ASSUME NEW x \in C, NEW y \in C, Rank(C, x) = Rank(C, y) PROVE x = y
        OBVIOUS
    <2>1. ~(x < y) /\ ~(y < x) /\ x \in Int /\ y \in Int
        BY <1>3
    <2> QED
        BY <2>1
<1> HIDE DEF N
<1>5. ASSUME NEW x \in C PROVE Rank(C, x) \in 1..N
    <2>1. Rank(C, x) \in Nat /\ Rank(C, x) <= N /\ Rank(C, x) # 0
        BY <1>2
    <2> QED
        BY <1>1, <2>1
<1>6. f \in Injection(C, 1..N)
    BY <1>4, <1>5 DEF Injection, IsInjective
<1>7. IsFiniteSet(1..N) /\ Cardinality(1..N) = N
    BY <1>1, FS_Interval
<1>8. f \in Surjection(C, 1..N)
    BY <1>6, <1>7, FS_Injection DEF N
<1>9. \A n \in 1..N : \E x \in C : Rank(C, x) = n
    BY <1>8 DEF Surjection
<1> QED
    BY <1>4, <1>5, <1>9 DEF N

(* Sequences of sequences                                                   *)


-----------------------------------------------------------------------------
(* The inductive invariant                                                  *)

States == {"idle", "started", "wait", "processing", "done", "generating"}
TaskRecord ==
    [id : Nat, parent : Nat, kind : {"none", "completion", "embedding"}, n : Nat,
     n_predict : Int, copies : Nat]
SlotRecord ==
    [state : States, task : TaskRecord,
     nTokens : Int, kv : Int, iBatch : Int, dft : SUBSET Nat, nDecoded : Int, nRemaining : Int]
Token == [slot : Slots, pos : Int]

(* The shape of the state, and where in the batch each phase may be.        *)
Shapes ==
    /\ params \in Params /\ at \in Slots /\ lead \in Slots \cup {-1}
    /\ slot \in [Slots -> SlotRecord] /\ batch \in Seq(Token)
    /\ pc \in {"rest", "shift", "sampled", "prompts", "decode", "sample", "verify", "crashed"}
    /\ head \in Nat /\ view \in 0..NBatch /\ head + view <= Len(batch) /\ nBatch \in 1..NBatch
    /\ launched \in 0..MaxTasks /\ torn \in BOOLEAN
    /\ answer \in [1..MaxTasks -> {"none", "final", "error", "cancelled"}]
Phases ==
    /\ pc \in {"rest", "shift"} => batch = <<>>
    /\ pc \in {"rest", "shift", "sampled", "prompts"} => head = 0
    /\ pc \in {"rest", "shift", "sampled", "prompts", "decode"} => view = 0
    /\ pc \in {"sample", "verify"} => view > 0

(* Tasks: one slot each, and no answer before they are launched or while    *)
(* they are in it.                                                          *)
OneTask(s) ==
    /\ Idle(s) => slot[s].task = NoTask
    /\ ~Idle(s) => slot[s].task.id \in 1..launched /\ slot[s].task.kind \in {"completion", "embedding"}
    /\ ~Idle(s) => answer[slot[s].task.id] = "none"
    /\ IsChild(slot[s]) => /\ ~IsParent(slot[s])
                           /\ slot[s].state \in {"wait", "done", "generating"}
    /\ slot[s].state \in {"wait", "generating"} \/ IsChild(slot[s]) \/ IsParent(slot[s])
           => slot[s].task.kind = "completion"
Tasks ==
    /\ \A s \in Slots : OneTask(s)
    /\ \A s1, s2 \in Slots : ~Idle(s1) /\ slot[s1].task.id = slot[s2].task.id => s1 = s2
    /\ \A id \in 1..MaxTasks : id > launched => answer[id] = "none"

(* Cells: what the batch still has to add to them completes the prompt.     *)
Decoded == head + view
Left(s) == {i \in Decoded..(Len(batch) - 1) : batch[i + 1].slot = s}
Short(s) == torn /\ IsChild(slot[s])
Stale(s) ==
    /\ Stranded(s) /\ Left(s) = {} /\ slot[s].kv <= NCtx
    /\ slot[s].state \in {"idle", "started", "wait", "processing"}
Cells(s) ==
    /\ slot[s].kv >= 0
    /\ \/ slot[s].kv + Cardinality(Left(s)) = slot[s].nTokens
       \/ (Short(s) /\ slot[s].kv + Cardinality(Left(s)) <= slot[s].nTokens)
       \/ Stale(s)
Quiet(s) ==
    /\ slot[s].state \in {"idle", "started", "wait"} => Left(s) = {}
    /\ slot[s].state \in {"done", "generating"} /\ slot[s].dft = {} => \A i \in Left(s) : i <= slot[s].iBatch

(* The prompt stays within the context.                                     *)
Fits(s) ==
    /\ slot[s].nTokens \in 0..NCtx
    /\ slot[s].state = "processing" => slot[s].nTokens < slot[s].task.n
    /\ slot[s].state \in {"done", "generating"} /\ slot[s].task.kind = "completion" => slot[s].nTokens < NCtx
    /\ Generating(s) /\ slot[s].iBatch = -1 /\ slot[s].dft = {} /\ ~params.ctx_shift
           => slot[s].nTokens + 1 < NCtx
    /\ Generating(s) /\ ((pc = "shift" /\ s < at) \/ (pc = "sampled" /\ s >= at)) => slot[s].nTokens + 1 < NCtx

(* The batch: which slots have tokens in it, and the last one of each.      *)
Entered(s) ==
    /\ pc = "sampled" /\ s >= at =>
         /\ \A i \in 1..Len(batch) : batch[i].slot # s
         /\ Generating(s) => slot[s].iBatch = -1 /\ slot[s].dft = {}
    /\ ~Generating(s) /\ (pc = "sampled" \/ (pc = "prompts" /\ s >= at)) =>
         \A i \in 1..Len(batch) : batch[i].slot # s
Sampleable(s) ==
    slot[s].state \in {"done", "generating"} /\ slot[s].iBatch # -1 =>
        /\ slot[s].iBatch \in head..(Len(batch) - 1)
        /\ pc = "verify" \/ (pc = "sample" /\ s < at) => slot[s].iBatch >= Decoded
        /\ slot[s].dft = {}
        /\ batch[slot[s].iBatch + 1].pos = slot[s].nTokens - 1
        /\ \/ batch[slot[s].iBatch + 1].slot = s
           \/ IsChild(slot[s]) /\ (Idle(batch[slot[s].iBatch + 1].slot)
                                   \/ slot[batch[slot[s].iBatch + 1].slot].task.id = slot[s].task.parent)
InProgress(s) ==
    slot[s].state = "done" => slot[s].iBatch # -1 /\ slot[s].nDecoded = 0

(* A draft is in the batch of one update, and is verified with its first    *)
(* view.                                                                    *)
Draft(s) ==
    slot[s].dft # {} =>
        /\ Generating(s) /\ slot[s].iBatch = -1 /\ head = 0 /\ pc \notin {"rest", "shift"}
        /\ slot[s].dft \subseteq 0..(Len(batch) - 1)
        /\ \A i \in 0..(Len(batch) - 1) : batch[i + 1].slot = s <=> i \in slot[s].dft
        /\ Cardinality(slot[s].dft) <= slot[s].nTokens
        /\ slot[s].task.n_predict # -1 => Cardinality(slot[s].dft) <= slot[s].nRemaining
        /\ view > 0 /\ ~torn => HasOutputs(s)
        /\ pc = "verify" => s >= at
        /\ pc = "decode" => view = 0

(* The budget of a slot that generates.                                     *)
Budget(s) ==
    Generating(s) =>
        /\ slot[s].nDecoded >= 0
        /\ slot[s].task.n_predict # -1 =>
             /\ slot[s].nRemaining = slot[s].task.n_predict - slot[s].nDecoded
             /\ slot[s].nRemaining > 0

SlotOK(s) ==
    /\ Cells(s) /\ Quiet(s) /\ Fits(s) /\ Entered(s)
    /\ Sampleable(s) /\ InProgress(s) /\ Draft(s) /\ Budget(s)
Inv == Shapes /\ Phases /\ Tasks /\ \A s \in Slots : SlotOK(s)

-----------------------------------------------------------------------------
(* Records of slots                                                         *)

LEMMA Sizes ==
    /\ NSlots \in Nat \ {0} /\ NBatch \in Nat \ {0} /\ NKeep \in Nat /\ DraftMin \in Nat
    /\ DraftMax \in Nat /\ MaxTasks \in Nat /\ NCtx \in Nat /\ NCtx >= 4
    /\ Slots = 0..(NSlots - 1) /\ Slots \subseteq Nat /\ 0 \in Slots
BY UpdateAssumption DEF Slots

LEMMA NoTaskType == NoTask \in TaskRecord /\ NoTask.id = None /\ NoTask.parent = None /\ NoTask.copies = 0
                    /\ NoTask.n_predict = -1 /\ NoTask.kind = "none"
BY DEF NoTask, TaskRecord, None

(* One field of a slot is set at a time.                                    *)
LEMMA FieldUpdates ==
    ASSUME NEW r \in SlotRecord
    PROVE  /\ \A x \in States : [r EXCEPT !.state = x] \in SlotRecord
           /\ \A x \in TaskRecord : [r EXCEPT !.task = x] \in SlotRecord
           /\ \A x \in Int : [r EXCEPT !.nTokens = x] \in SlotRecord
           /\ \A x \in Int : [r EXCEPT !.kv = x] \in SlotRecord
           /\ \A x \in Int : [r EXCEPT !.iBatch = x] \in SlotRecord
           /\ \A x \in Int : [r EXCEPT !.nDecoded = x] \in SlotRecord
           /\ \A x \in Int : [r EXCEPT !.nRemaining = x] \in SlotRecord
           /\ \A x \in SUBSET Nat : [r EXCEPT !.dft = x] \in SlotRecord
BY DEF SlotRecord

LEMMA FieldTypes ==
    ASSUME NEW r \in SlotRecord
    PROVE  /\ r.state \in States
           /\ r.task \in TaskRecord /\ r.dft \subseteq Nat
           /\ r.nTokens \in Int /\ r.kv \in Int /\ r.iBatch \in Int
           /\ r.nDecoded \in Int /\ r.nRemaining \in Int
           /\ r.task.id \in Nat /\ r.task.parent \in Nat /\ r.task.n \in Nat
           /\ r.task.n_predict \in Int /\ r.task.copies \in Nat
           /\ r.task.kind \in {"none", "completion", "embedding"}
BY DEF SlotRecord, TaskRecord

LEMMA ClearFields ==
    ASSUME NEW r \in SlotRecord
    PROVE  /\ Clear(r) \in SlotRecord /\ Clear(r).nTokens = 0 /\ Clear(r).kv = 0
           /\ Clear(r).state = r.state /\ Clear(r).task = r.task /\ Clear(r).dft = r.dft
           /\ Clear(r).iBatch = r.iBatch /\ Clear(r).nDecoded = r.nDecoded
           /\ Clear(r).nRemaining = r.nRemaining
<1> DEFINE r1 == [r EXCEPT !.nTokens = 0]
<1>1. r1 \in SlotRecord
    BY FieldUpdates
<1>2. Clear(r) = [r1 EXCEPT !.kv = 0]
    BY DEF Clear
<1>3. Clear(r) \in SlotRecord
    <2> HIDE DEF r1
    <2> QED
        BY <1>1, <1>2, FieldUpdates
<1>4. /\ Clear(r).nTokens = 0 /\ Clear(r).kv = 0
      /\ Clear(r).state = r.state /\ Clear(r).task = r.task /\ Clear(r).dft = r.dft
    BY DEF Clear, SlotRecord
<1>5. /\ Clear(r).iBatch = r.iBatch /\ Clear(r).nDecoded = r.nDecoded
      /\ Clear(r).nRemaining = r.nRemaining
    BY DEF Clear, SlotRecord
<1> QED
    BY <1>3, <1>4, <1>5

LEMMA ReleasedFields ==
    ASSUME NEW r \in SlotRecord
    PROVE  /\ Released(r) \in SlotRecord
           /\ Released(r).state = "idle" /\ Released(r).task = NoTask /\ Released(r).dft = {}
           /\ Released(r).iBatch = r.iBatch /\ Released(r).nDecoded = r.nDecoded
           /\ Released(r).nRemaining = r.nRemaining
           /\ IsChild(r) => Released(r).nTokens = 0 /\ Released(r).kv = 0
           /\ ~IsChild(r) => Released(r).nTokens = r.nTokens /\ Released(r).kv = r.kv
<1> DEFINE c  == IF IsChild(r) THEN Clear(r) ELSE r
           r1 == [c EXCEPT !.state = "idle"]
           r2 == [r1 EXCEPT !.task = NoTask]
           r3 == [r2 EXCEPT !.dft = {}]
<1>1. c \in SlotRecord /\ r1 \in SlotRecord /\ r2 \in SlotRecord /\ r3 \in SlotRecord
    <2>1. c \in SlotRecord
        BY ClearFields
    <2>2. r1 \in SlotRecord
        <3> HIDE DEF c
        <3> QED
            BY <2>1, FieldUpdates DEF States
    <2>3. r2 \in SlotRecord
        <3> HIDE DEF r1
        <3> QED
            BY <2>2, FieldUpdates, NoTaskType
    <2>4. r3 \in SlotRecord
        <3> HIDE DEF r2
        <3> QED
            BY <2>3, FieldUpdates
    <2> QED
        BY <2>1, <2>2, <2>3, <2>4
<1>2. Released(r) = r3
    BY DEF Released
<1>3. /\ c.iBatch = r.iBatch /\ c.nDecoded = r.nDecoded /\ c.nRemaining = r.nRemaining
      /\ IsChild(r) => c.nTokens = 0 /\ c.kv = 0
      /\ ~IsChild(r) => c = r
    BY ClearFields
<1> HIDE DEF c
<1>4. r3.state = "idle" /\ r3.task = NoTask /\ r3.dft = {} /\ r3.iBatch = c.iBatch
    BY <1>1 DEF SlotRecord
<1>5. /\ r3.nDecoded = c.nDecoded /\ r3.nRemaining = c.nRemaining
      /\ r3.nTokens = c.nTokens /\ r3.kv = c.kv
    BY <1>1 DEF SlotRecord
<1> HIDE DEF r3
<1> QED
    BY <1>1, <1>2, <1>3, <1>4, <1>5

LEMMA RemoveTailFields ==
    ASSUME NEW r \in SlotRecord
    PROVE  /\ RemoveTail(r) \in SlotRecord /\ RemoveTail(r).nTokens = r.nTokens
           /\ RemoveTail(r).kv = SmallerOf(r.kv, r.nTokens)
           /\ RemoveTail(r).state = r.state /\ RemoveTail(r).task = r.task /\ RemoveTail(r).dft = r.dft
           /\ RemoveTail(r).iBatch = r.iBatch /\ RemoveTail(r).nDecoded = r.nDecoded
           /\ RemoveTail(r).nRemaining = r.nRemaining
BY DEF RemoveTail, SlotRecord, SmallerOf

LEMMA ProcessedFields ==
    ASSUME NEW r \in SlotRecord
    PROVE  /\ Processed(r) \in SlotRecord
           /\ Processed(r).nTokens = r.nTokens /\ Processed(r).kv = r.kv
           /\ Processed(r).state = r.state /\ Processed(r).task = r.task /\ Processed(r).dft = r.dft
           /\ Processed(r).iBatch = r.iBatch /\ Processed(r).nDecoded = r.nDecoded
           /\ ChecksBudget(r) => Processed(r).nRemaining = r.task.n_predict - r.nDecoded
BY DEF Processed, SlotRecord, TaskRecord

LEMMA SampleFields ==
    ASSUME NEW r \in SlotRecord
    PROVE  /\ Sample(r) \in SlotRecord /\ Sample(r).state = "generating" /\ Sample(r).iBatch = -1
           /\ Sample(r).nDecoded = r.nDecoded + 1
           /\ Sample(r).nTokens = r.nTokens /\ Sample(r).kv = r.kv
           /\ Sample(r).task = r.task /\ Sample(r).dft = r.dft /\ Sample(r).nRemaining = r.nRemaining
<1> DEFINE r1 == [r EXCEPT !.state = "generating"]
           r2 == [r1 EXCEPT !.iBatch = -1]
           r3 == [r2 EXCEPT !.nDecoded = r.nDecoded + 1]
<1>1. r3 \in SlotRecord
    <2>1. r1 \in SlotRecord
        BY FieldUpdates DEF States
    <2>2. r2 \in SlotRecord
        <3> HIDE DEF r1
        <3> QED
            BY <2>1, FieldUpdates
    <2>3. r.nDecoded + 1 \in Int
        BY FieldTypes
    <2> HIDE DEF r2
    <2> QED
        BY <2>2, <2>3, FieldUpdates
<1>2. Sample(r) = r3
    BY DEF Sample
<1>3. r3.state = "generating" /\ r3.iBatch = -1 /\ r3.nDecoded = r.nDecoded + 1 /\ r3.nTokens = r.nTokens
    BY DEF SlotRecord
<1>4. r3.kv = r.kv /\ r3.task = r.task /\ r3.dft = r.dft /\ r3.nRemaining = r.nRemaining
    BY DEF SlotRecord
<1> HIDE DEF r3
<1> QED
    BY <1>1, <1>2, <1>3, <1>4

LEMMA CopyFields ==
    ASSUME NEW to \in SlotRecord, NEW from \in SlotRecord
    PROVE  /\ CopyState(to, from) \in SlotRecord /\ CopyState(to, from).state = "done"
           /\ CopyState(to, from).kv = from.kv /\ CopyState(to, from).nTokens = from.nTokens
           /\ CopyState(to, from).nDecoded = from.nDecoded /\ CopyState(to, from).iBatch = from.iBatch
           /\ CopyState(to, from).task = to.task /\ CopyState(to, from).dft = to.dft
<1> DEFINE r1 == [to EXCEPT !.state = "done"]
           r2 == [r1 EXCEPT !.kv = from.kv]
           r3 == [r2 EXCEPT !.nTokens = from.nTokens]
           r4 == [r3 EXCEPT !.nDecoded = from.nDecoded]
           r5 == [r4 EXCEPT !.nRemaining = from.nRemaining]
           r6 == [r5 EXCEPT !.iBatch = from.iBatch]
<1>1. r6 \in SlotRecord
    <2>1. r1 \in SlotRecord
        BY FieldUpdates DEF States
    <2>2. r2 \in SlotRecord
        <3> HIDE DEF r1
        <3> QED
            BY <2>1, FieldUpdates, FieldTypes
    <2>3. r3 \in SlotRecord
        <3> HIDE DEF r2
        <3> QED
            BY <2>2, FieldUpdates, FieldTypes
    <2>4. r4 \in SlotRecord
        <3> HIDE DEF r3
        <3> QED
            BY <2>3, FieldUpdates, FieldTypes
    <2>5. r5 \in SlotRecord
        <3> HIDE DEF r4
        <3> QED
            BY <2>4, FieldUpdates, FieldTypes
    <2> HIDE DEF r5
    <2> QED
        BY <2>5, FieldUpdates, FieldTypes
<1>2. CopyState(to, from) = r6
    BY DEF CopyState
<1>3. r6.state = "done" /\ r6.kv = from.kv /\ r6.nTokens = from.nTokens /\ r6.nDecoded = from.nDecoded
    BY DEF SlotRecord
<1>4. r6.iBatch = from.iBatch /\ r6.task = to.task /\ r6.dft = to.dft
    BY DEF SlotRecord
<1> HIDE DEF r6
<1> QED
    BY <1>1, <1>2, <1>3, <1>4

(* A slot whose parent is None is no child, one without copies no parent.   *)
LEMMA TaskFields ==
    ASSUME NEW q \in Requests, NEW id \in Nat, NEW parent \in Nat
    PROVE  /\ Task(q, id, parent) \in TaskRecord
           /\ Task(q, id, parent).id = id /\ Task(q, id, parent).parent = parent
           /\ Task(q, id, parent).kind = q.kind /\ q.kind \in {"completion", "embedding"}
           /\ Task(q, id, parent).copies = IF parent = None THEN q.copies ELSE 0
           /\ q.copies \in Nat /\ (q.copies > 0 => q.kind = "completion")
<1>1. /\ q.kind \in {"completion", "embedding"} /\ q.n \in Nat /\ q.n_predict \in Nat \cup {-1}
      /\ q.copies \in 0..(IF q.kind = "completion" THEN NSlots - 1 ELSE 0)
    BY UpdateAssumption
<1>2. q.copies \in Nat /\ (q.copies > 0 => q.kind = "completion")
    BY <1>1, Sizes
<1> QED
    BY <1>1, <1>2 DEF Task, TaskRecord, None

-----------------------------------------------------------------------------
(* A turn: what a step of one of the loops over the slots may do            *)

LEMMA LengthOfDomain ==
    ASSUME NEW m \in Nat, NEW n \in Nat, 1..m = 1..n
    PROVE  m = n
<1>1. \A i \in Int : 1 <= i /\ i <= m <=> 1 <= i /\ i <= n
    OBVIOUS
<1> QED
    BY <1>1

(* The tokens f of slot s from position p.                                  *)
TokensOf(f, s, p, n) ==
    f \in [1..n -> Token] /\ \A i \in 1..n : f[i].slot = s /\ f[i].pos = p + i - 1

Extended(c, b, s, p, n) ==
    /\ c \in Seq(Token) /\ Len(c) = Len(b) + n
    /\ \A i \in 1..Len(b) : c[i] = b[i]
    /\ \A i \in (Len(b) + 1)..(Len(b) + n) : c[i].slot = s /\ c[i].pos = p + (i - Len(b)) - 1

LEMMA AddTokens ==
    ASSUME NEW b \in Seq(Token), NEW s, NEW p, NEW n \in Nat,
           NEW f, TokensOf(f, s, p, n), NEW c, c = b \o f
    PROVE  Extended(c, b, s, p, n)
<1>1. f \in Seq(Token) /\ Len(f) = n
    <2>1. f \in Seq(Token) /\ DOMAIN f = 1..n
        BY SeqDef DEF TokensOf
    <2> QED
        BY <2>1, LenProperties, LengthOfDomain
<1>2. \A i \in 1..n : f[i].slot = s /\ f[i].pos = p + i - 1
    BY DEF TokensOf
<1>3. c = b \o f
    OBVIOUS
<1>4. /\ c \in Seq(Token) /\ Len(c) = Len(b) + n
      /\ \A i \in 1..Len(b) : c[i] = b[i]
      /\ \A i \in (Len(b) + 1)..(Len(b) + n) : c[i] = f[i - Len(b)]
    <2>1. /\ b \o f \in Seq(Token) /\ Len(b \o f) = Len(b) + Len(f)
          /\ \A i \in 1..(Len(b) + Len(f)) : (b \o f)[i] = IF i <= Len(b) THEN b[i] ELSE f[i - Len(b)]
        BY <1>1, ConcatProperties
    <2>2. Len(b) \in Nat
        BY LenProperties
    <2>3. Len(c) = Len(b) + n
        BY <1>1, <1>3, <2>1
    <2>4. ASSUME NEW i \in 1..Len(b) PROVE c[i] = b[i]
        <3>1. i \in 1..(Len(b) + Len(f)) /\ i <= Len(b)
            BY <1>1, <2>2
        <3> QED
            BY <1>3, <2>1, <3>1
    <2>5. ASSUME NEW i \in (Len(b) + 1)..(Len(b) + n) PROVE c[i] = f[i - Len(b)]
        <3>1. i \in 1..(Len(b) + Len(f)) /\ ~(i <= Len(b))
            BY <1>1, <2>2
        <3> QED
            BY <1>3, <2>1, <3>1
    <2> QED
        BY <1>3, <2>1, <2>3, <2>4, <2>5
<1>5. ASSUME NEW i \in (Len(b) + 1)..(Len(b) + n)
      PROVE  c[i].slot = s /\ c[i].pos = p + (i - Len(b)) - 1
    <2>1. i - Len(b) \in 1..n
        <3>1. Len(b) \in Nat
            BY LenProperties
        <3> QED
            BY <3>1
    <2> QED
        BY <1>2, <1>4, <2>1
<1> QED
    BY <1>4, <1>5 DEF Extended

(* The slot after this one, or the phase after this one.                    *)
Onward(from, to) == pc = from /\ pc' = to /\ at = NSlots - 1 /\ at' = 0
NextTurn ==
    \/ /\ pc \in {"shift", "sampled", "prompts", "sample", "verify"} /\ pc' = pc
       /\ at # NSlots - 1 /\ at' = at + 1 /\ UNCHANGED <<head, view>>
    \/ Onward("shift", "sampled") /\ UNCHANGED <<head, view>>
    \/ Onward("sampled", "prompts") /\ UNCHANGED <<head, view>>
    \/ Onward("sampled", "decode") /\ UNCHANGED <<head, view>>
    \/ Onward("sample", "verify") /\ UNCHANGED <<head, view>>
    \/ pc = "prompts" /\ pc' = "decode" /\ at' = 0 /\ UNCHANGED <<head, view>>
    \/ Onward("verify", "decode") /\ head' = head + view /\ view' = 0

(* Only the slot at which the loop is may change, and only it may add       *)
(* tokens to the batch.                                                     *)
Grows ==
    /\ batch' \in Seq(Token) /\ Len(batch') >= Len(batch)
    /\ \A i \in 1..Len(batch) : batch'[i] = batch[i]
    /\ \A i \in (Len(batch) + 1)..Len(batch') : batch'[i].slot = at
    /\ pc \in {"shift"} => batch' = batch
Alone == slot' \in [Slots -> SlotRecord] /\ \A s \in Slots : s # at => slot'[s] = slot[s]
Turn ==
    /\ NextTurn /\ Alone /\ Grows
    /\ lead' \in Slots \cup {-1} /\ UNCHANGED <<params, nBatch, launched, torn>>

(* The slot of the turn keeps its task, or is released with an answer.      *)
Kept ==
    /\ slot'[at].task = slot[at].task /\ (slot'[at].state = "idle" <=> Idle(at))
    /\ IsChild(slot[at]) => slot'[at].state \in {"wait", "done", "generating"}
    /\ slot'[at].state \in {"wait", "generating"} => slot[at].task.kind = "completion"
    /\ UNCHANGED answer
Answered(what) ==
    ~Idle(at) /\ slot'[at].state = "idle" /\ slot'[at].task = NoTask /\ Answer({at}, what)

LEMMA BatchLength == Shapes => Len(batch) \in Nat /\ \A i \in 1..Len(batch) : batch[i].slot \in Slots /\ batch[i].pos \in Int
<1> SUFFICES ASSUME Shapes PROVE Len(batch) \in Nat /\ \A i \in 1..Len(batch) : batch[i] \in Token
    BY DEF Token
<1> QED
    BY LenProperties, ElementOfSeq DEF Shapes

LEMMA TurnPhases ==
    ASSUME Shapes, Phases, Turn
    PROVE  Phases'
<1>1. pc' = "shift" => batch' = batch
    BY DEF Turn, NextTurn, Onward, Grows
<1>2. pc' # "rest"
    BY DEF Turn, NextTurn, Onward
<1>3. pc' \in {"shift", "sampled", "prompts"} => pc \in {"shift", "sampled", "prompts"} /\ UNCHANGED <<head, view>>
    BY DEF Turn, NextTurn, Onward
<1>4. pc' = "shift" => pc = "shift"
    BY DEF Turn, NextTurn, Onward
<1>5. pc' = "decode" => view' = 0
    BY DEF Turn, NextTurn, Onward, Phases
<1>6. pc' \in {"sample", "verify"} => pc \in {"sample", "verify"} /\ UNCHANGED <<head, view>>
    BY DEF Turn, NextTurn, Onward
<1> QED
    BY <1>1, <1>2, <1>3, <1>4, <1>5, <1>6 DEF Phases

LEMMA TurnShapes ==
    ASSUME Shapes, Phases, Turn, Kept \/ \E what \in {"final", "error"} : Answered(what)
    PROVE  Shapes'
<1>1. at' \in Slots
    BY Sizes DEF Shapes, Turn, NextTurn, Onward
<1>2. pc' \in {"rest", "shift", "sampled", "prompts", "decode", "sample", "verify", "crashed"}
    BY DEF Shapes, Turn, NextTurn, Onward
<1>3. head' \in Nat /\ view' \in 0..NBatch /\ head' + view' = head + view
    BY Sizes DEF Shapes, Turn, NextTurn, Onward
<1>4. head' + view' <= Len(batch')
    <2>1. Len(batch) \in Nat /\ Len(batch') \in Nat /\ Len(batch') >= Len(batch)
        BY LenProperties DEF Shapes, Turn, Grows
    <2> QED
        <3>1. head + view <= Len(batch) /\ head + view \in Int
            BY Sizes DEF Shapes
        <3> QED
            BY <1>3, <2>1, <3>1
<1>5. answer' \in [1..MaxTasks -> {"none", "final", "error", "cancelled"}]
    BY DEF Shapes, Kept, Answered, Answer
<1> QED
    BY <1>1, <1>2, <1>3, <1>4, <1>5 DEF Shapes, Turn, Alone, Grows

LEMMA Bounds ==
    ASSUME Shapes
    PROVE  /\ head \in Nat /\ view \in Nat /\ Decoded \in Nat /\ Decoded = head + view
           /\ Len(batch) \in Nat /\ Decoded <= Len(batch)
<1>1. head \in Nat /\ view \in Nat /\ head + view <= Len(batch)
    BY Sizes DEF Shapes
<1>2. Len(batch) \in Nat
    BY BatchLength
<1> QED
    BY <1>1, <1>2 DEF Decoded

LEMMA NotInBatch ==
    ASSUME Shapes, NEW s \in Slots, \A i \in 1..Len(batch) : batch[i].slot # s
    PROVE  Left(s) = {}
<1>1. \A i \in Decoded..(Len(batch) - 1) : i + 1 \in 1..Len(batch)
    BY Bounds
<1> QED
    BY <1>1 DEF Left

(* The tokens of another slot are where they were.                          *)
LEMMA TurnLeft ==
    ASSUME Shapes, Turn, NEW s \in Slots, s # at \/ batch' = batch
    PROVE  Left(s)' = Left(s)
<1>1. Decoded' = Decoded /\ Decoded \in Nat
    BY Sizes DEF Turn, NextTurn, Onward, Decoded, Shapes
<1>2. Len(batch) \in Nat /\ Len(batch') \in Nat /\ Len(batch') >= Len(batch)
    BY LenProperties DEF Shapes, Turn, Grows
<1>3. /\ \A i \in 1..Len(batch) : batch'[i] = batch[i]
      /\ \A i \in (Len(batch) + 1)..Len(batch') : batch'[i].slot # s \/ batch' = batch
    BY DEF Turn, Grows
<1>4. ASSUME NEW i
      PROVE  /\ i \in Decoded..(Len(batch') - 1) /\ batch'[i + 1].slot = s
                    => i \in Decoded..(Len(batch) - 1) /\ batch[i + 1].slot = s
             /\ i \in Decoded..(Len(batch) - 1) /\ batch[i + 1].slot = s
                    => i \in Decoded..(Len(batch') - 1) /\ batch'[i + 1].slot = s
    <2>1. CASE i \in Decoded..(Len(batch) - 1)
        <3>1. i + 1 \in 1..Len(batch) /\ i \in Decoded..(Len(batch') - 1)
            BY <1>1, <1>2, <2>1
        <3> QED
            BY <1>3, <2>1, <3>1
    <2>2. CASE i \in Decoded..(Len(batch') - 1) /\ i \notin Decoded..(Len(batch) - 1)
        <3>1. i + 1 \in (Len(batch) + 1)..Len(batch') /\ Len(batch') # Len(batch)
            BY <1>1, <1>2, <2>2
        <3> QED
            BY <1>3, <2>2, <3>1
    <2> QED
        BY <2>1, <2>2
<1> QED
    BY <1>1, <1>4 DEF Left

(* While the slot of the turn keeps its task or becomes idle, what the      *)
(* others say of it goes on.                                                *)
TasksFollow == \A t \in Slots : Idle(t)' \/ (~Idle(t) /\ slot'[t].task = slot[t].task)

LEMMA TurnFollows ==
    ASSUME Turn, Kept \/ \E what \in {"final", "error"} : Answered(what)
    PROVE  TasksFollow
BY DEF Turn, Alone, Kept, Answered, TasksFollow, Idle

(* A slot that a turn leaves alone: another one, or one the loop skips.     *)
Skipped(s) ==
    /\ batch' = batch
    /\ pc = "shift" => ~NeedsShift(s)
    /\ pc = "sample" => ~Sampled(s)
    /\ pc = "verify" => ~Drafted(s)

LEMMA TurnOthers ==
    ASSUME Inv, Turn, TasksFollow, NEW s \in Slots, slot'[s] = slot[s], s # at \/ Skipped(s)
    PROVE  SlotOK(s)'
<1>1. /\ slot'[s] = slot[s] /\ params' = params /\ torn' = torn
      /\ Left(s)' = Left(s)
    BY TurnLeft DEF Inv, Turn, Skipped
<1>2. /\ SlotOK(s) /\ Shapes /\ Phases
      /\ s \in Nat /\ at \in Nat /\ s < NSlots /\ at < NSlots /\ NSlots \in Nat
      /\ head \in Nat /\ view \in Nat
    BY Sizes DEF Inv, Shapes
<1>3. Cells(s)'
    BY <1>1, <1>2 DEF SlotOK, Cells, Short, Stale, Stranded, IsChild
<1>4. Quiet(s)'
    BY <1>1, <1>2 DEF SlotOK, Quiet
<1>5. Fits(s)'
    <2>1. (pc' = "shift" /\ s < at') \/ (pc' = "sampled" /\ s >= at')
             => (pc = "shift" /\ (s < at \/ s = at)) \/ (pc = "sampled" /\ s >= at)
        BY <1>2, Sizes DEF Turn, NextTurn, Onward
    <2>2. pc = "shift" /\ s = at /\ Generating(s) => slot[s].nTokens + 1 < NCtx
        <3>1. slot[s].nTokens \in Int /\ NCtx \in Int
            BY <1>2, Sizes DEF SlotOK, Fits
        <3> QED
            BY <3>1 DEF Skipped, NeedsShift
    <2> QED
        BY <1>1, <1>2, <2>1, <2>2 DEF SlotOK, Fits, Generating
<1>6. Entered(s)'
    <2>1. /\ Len(batch) \in Nat /\ Len(batch') \in Nat /\ Len(batch') >= Len(batch)
          /\ \A i \in 1..Len(batch) : batch'[i] = batch[i]
          /\ \A i \in (Len(batch) + 1)..Len(batch') : batch'[i].slot # s
        BY <1>2, LenProperties DEF Shapes, Turn, Grows, Skipped
    <2>2. (\A i \in 1..Len(batch) : batch[i].slot # s) => \A i \in 1..Len(batch') : batch'[i].slot # s
        BY <2>1
    <2>3. CASE pc' = "sampled" /\ pc = "shift"
        <3>1. batch = <<>> /\ head = 0
            BY <1>2, <2>3 DEF Phases
        <3>2. Generating(s) => slot[s].iBatch = -1 /\ slot[s].dft = {}
            BY <1>2, <2>3, <3>1, EmptySeq DEF SlotOK, Sampleable, Draft, Generating
        <3> QED
            BY <1>1, <2>2, <2>3, <3>1, <3>2, EmptySeq DEF Entered, Generating
    <2>4. CASE pc' = "sampled" /\ pc = "sampled"
        <3>1. s >= at' => s >= at
            BY <1>2, <2>4 DEF Turn, NextTurn, Onward
        <3> QED
            BY <1>1, <1>2, <2>2, <2>4, <3>1 DEF SlotOK, Entered, Generating
    <2>5. CASE pc' = "prompts"
        <3>1. pc = "sampled" \/ (pc = "prompts" /\ (s >= at' => s >= at))
            BY <1>2, <2>5 DEF Turn, NextTurn, Onward
        <3> QED
            BY <1>1, <1>2, <2>2, <2>5, <3>1 DEF SlotOK, Entered, Generating
    <2>6. pc' = "sampled" => pc \in {"shift", "sampled"}
        BY DEF Turn, NextTurn, Onward
    <2> QED
        BY <2>3, <2>4, <2>5, <2>6 DEF Entered
<1>7. Sampleable(s)'
    <2> SUFFICES ASSUME slot[s].state \in {"done", "generating"}, slot[s].iBatch # -1
                 PROVE  Sampleable(s)'
        BY <1>1 DEF Sampleable
    <2>1. slot[s].iBatch \in head..(Len(batch) - 1)
        BY <1>2 DEF SlotOK, Sampleable
    <2>2. /\ slot[s].iBatch \in head'..(Len(batch') - 1)
          /\ pc' = "verify" \/ (pc' = "sample" /\ s < at') => slot[s].iBatch >= Decoded'
        <3>1. /\ Len(batch) \in Nat /\ Len(batch') \in Nat /\ Len(batch') >= Len(batch)
              /\ head \in Nat /\ view \in Nat
            BY <1>2, LenProperties DEF Shapes, Turn, Grows
        <3>2. pc = "verify" \/ (pc = "sample" /\ s < at) => slot[s].iBatch >= Decoded
            BY <1>2 DEF SlotOK, Sampleable
        <3>3. pc' = "verify" \/ (pc' = "sample" /\ s < at')
                => /\ UNCHANGED <<head, view>>
                   /\ pc = "verify" \/ (pc = "sample" /\ (s < at \/ s = at))
            BY <1>2 DEF Turn, NextTurn, Onward
        <3>5. pc = "sample" /\ s = at => slot[s].iBatch >= Decoded
            BY <1>2, <2>1, <3>1 DEF Skipped, Sampled, Decoded
        <3>4. head' = head \/ (pc = "verify" /\ head' = Decoded)
            BY DEF Turn, NextTurn, Onward, Decoded
        <3> QED
            BY <2>1, <3>1, <3>2, <3>3, <3>4, <3>5 DEF Decoded
    <2>3. batch'[slot[s].iBatch + 1] = batch[slot[s].iBatch + 1] /\ batch[slot[s].iBatch + 1].slot \in Slots
        <3>1. slot[s].iBatch + 1 \in 1..Len(batch)
            BY <1>2, <2>1, BatchLength
        <3> QED
            BY <1>2, <3>1, BatchLength DEF Turn, Grows
    <2>4. PICK b : b = batch[slot[s].iBatch + 1]
        OBVIOUS
    <2>5. /\ slot[s].dft = {} /\ b.pos = slot[s].nTokens - 1
          /\ b.slot = s \/ (IsChild(slot[s]) /\ (Idle(b.slot) \/ slot[b.slot].task.id = slot[s].task.parent))
        BY <1>2, <2>4 DEF SlotOK, Sampleable
    <2>6. slot'[b.slot].state = "idle" \/ (~Idle(b.slot) /\ slot'[b.slot].task = slot[b.slot].task)
        BY <2>3, <2>4 DEF TasksFollow, Idle
    <2> QED
        BY <1>1, <2>2, <2>3, <2>4, <2>5, <2>6 DEF Sampleable, Idle
<1>8. InProgress(s)'
    BY <1>1, <1>2 DEF SlotOK, InProgress
<1>9. Draft(s)'
    <2> SUFFICES ASSUME slot[s].dft # {} PROVE Draft(s)'
        BY <1>1 DEF Draft
    <2>1. /\ Generating(s) /\ slot[s].iBatch = -1 /\ head = 0 /\ pc \notin {"rest", "shift"}
          /\ slot[s].dft \subseteq 0..(Len(batch) - 1)
          /\ \A i \in 0..(Len(batch) - 1) : batch[i + 1].slot = s <=> i \in slot[s].dft
          /\ view > 0 /\ ~torn => HasOutputs(s)
          /\ pc = "verify" => s >= at
        BY <1>2 DEF SlotOK, Draft
    <2>0. pc = "verify" => s # at
        BY <2>1 DEF Skipped, Drafted
    <2>2. UNCHANGED <<head, view>> /\ pc' \notin {"rest", "shift"}
        BY <1>2, <2>1, <2>0 DEF Turn, NextTurn, Onward
    <2>3. pc' = "verify" => s >= at'
        BY <1>2, <2>1, <2>0 DEF Turn, NextTurn, Onward
    <2>4. pc' = "decode" => view' = 0
        BY <1>2 DEF Turn, NextTurn, Onward, Phases
    <2>5. /\ Len(batch) \in Nat /\ Len(batch') \in Nat /\ Len(batch') >= Len(batch)
          /\ \A i \in 1..Len(batch) : batch'[i] = batch[i]
          /\ \A i \in (Len(batch) + 1)..Len(batch') : batch'[i].slot # s
        BY <1>2, LenProperties DEF Shapes, Turn, Grows, Skipped
    <2>6. slot[s].dft \subseteq 0..(Len(batch') - 1)
        BY <2>1, <2>5
    <2>7. ASSUME NEW i \in 0..(Len(batch') - 1) PROVE batch'[i + 1].slot = s <=> i \in slot[s].dft
        <3>1. CASE i \in 0..(Len(batch) - 1)
            <4>1. i + 1 \in 1..Len(batch)
                BY <2>5, <3>1
            <4> QED
                BY <2>1, <2>5, <3>1, <4>1
        <3>2. CASE i \notin 0..(Len(batch) - 1)
            <4>1. i + 1 \in (Len(batch) + 1)..Len(batch')
                BY <2>5, <3>2
            <4> QED
                BY <2>1, <2>5, <3>2, <4>1
        <3> QED
            BY <3>1, <3>2
    <2> QED
        BY <1>1, <1>2, <2>1, <2>2, <2>3, <2>4, <2>6, <2>7 DEF SlotOK, Draft, Generating, HasOutputs
<1>10. Budget(s)'
    BY <1>1, <1>2 DEF SlotOK, Budget, Generating
<1> QED
    BY <1>3, <1>4, <1>5, <1>6, <1>7, <1>8, <1>9, <1>10 DEF SlotOK

-----------------------------------------------------------------------------
(* Tasks and their answers                                                  *)

(* A task gets one answer, when it leaves its slot.                         *)
AnswersOnce ==
    \A id \in 1..MaxTasks : answer'[id] # answer[id] =>
        /\ answer[id] = "none"
        /\ \A s \in Slots : slot'[s].task.id # id

LEMMA TurnTasks ==
    ASSUME Inv, Turn, Kept \/ \E what \in {"final", "error"} : Answered(what)
    PROVE  Tasks' /\ AnswersOnce
<1>1. /\ Shapes /\ Tasks /\ at \in Slots /\ launched' = launched
      /\ \A s \in Slots : s # at => slot'[s] = slot[s]
    BY DEF Inv, Shapes, Turn, Alone
<1>2. NoTask.id = 0 /\ NoTask.parent = None /\ NoTask.copies = 0 /\ None = 0
    BY NoTaskType DEF None
<1>3. /\ \A s \in Slots : OneTask(s)
      /\ \A s1, s2 \in Slots : ~Idle(s1) /\ slot[s1].task.id = slot[s2].task.id => s1 = s2
      /\ \A id \in 1..MaxTasks : id > launched => answer[id] = "none"
    BY <1>1 DEF Tasks
<1>4. CASE Kept
    <2>1. answer' = answer /\ \A s \in Slots : slot'[s].task = slot[s].task /\ (Idle(s)' <=> Idle(s))
        BY <1>1, <1>4 DEF Kept, Idle
    <2>2. ASSUME NEW s \in Slots PROVE OneTask(s)'
        <3>1. OneTask(s)
            BY <1>3
        <3>2. CASE s # at
            BY <1>1, <2>1, <3>1, <3>2 DEF OneTask, Idle, IsChild, IsParent
        <3>3. CASE s = at
            <4>1. /\ slot'[s].task = slot[s].task /\ (slot'[s].state = "idle" <=> slot[s].state = "idle")
                  /\ IsChild(slot[s]) => slot'[s].state \in {"wait", "done", "generating"}
                  /\ slot'[s].state \in {"wait", "generating"} => slot[s].task.kind = "completion"
                BY <1>4, <3>3 DEF Kept, Idle
            <4> QED
                BY <1>1, <2>1, <3>1, <4>1 DEF OneTask, Idle, IsChild, IsParent
        <3> QED
            BY <3>2, <3>3
    <2> QED
        BY <1>1, <1>3, <2>1, <2>2 DEF Tasks, AnswersOnce, Idle
<1>5. ASSUME NEW what \in {"final", "error"}, Answered(what)
      PROVE  Tasks' /\ AnswersOnce
    <2>1. PICK a \in Slots : a = at
        BY <1>1
    <2>2. /\ slot'[a].state = "idle" /\ slot'[a].task = NoTask /\ ~Idle(a)
          /\ answer' = [id \in 1..MaxTasks |-> IF slot[a].task.id = id THEN what ELSE answer[id]]
        BY <1>1, <1>5, <2>1 DEF Answered, Answer, Idle, Shapes
    <2>3. slot[a].task.id \in 1..launched /\ answer[slot[a].task.id] = "none" /\ launched \in Nat
          /\ 1..launched \subseteq 1..MaxTasks
        BY <1>1, <1>3, <2>2, Sizes DEF OneTask, Shapes
    <2>4. ASSUME NEW s \in Slots PROVE OneTask(s)'
        <3>1. CASE s = a
            BY <1>2, <2>2, <3>1 DEF OneTask, Idle, IsChild, IsParent
        <3>2. CASE s # a
            <4>1. slot'[s] = slot[s] /\ OneTask(s) /\ (~Idle(s) => slot[s].task.id # slot[a].task.id)
                BY <1>1, <1>3, <2>1, <2>2, <3>2
            <4>2. ~Idle(s) => answer'[slot[s].task.id] = answer[slot[s].task.id]
                BY <2>2, <2>3, <4>1 DEF OneTask
            <4> QED
                BY <1>1, <4>1, <4>2 DEF OneTask, Idle
        <3> QED
            BY <3>1, <3>2
    <2>5. ASSUME NEW s1 \in Slots, NEW s2 \in Slots,
                 slot'[s1].state # "idle", slot'[s1].task.id = slot'[s2].task.id
          PROVE  s1 = s2
        <3>1. s1 # a /\ slot'[s1] = slot[s1] /\ ~Idle(s1)
            BY <1>1, <2>1, <2>2, <2>5 DEF Idle
        <3>2. s2 # a
            BY <1>2, <1>3, <2>2, <2>5, <3>1 DEF OneTask
        <3> QED
            BY <1>1, <1>3, <2>1, <2>5, <3>1, <3>2
    <2>6. AnswersOnce
        <3> SUFFICES ASSUME NEW id \in 1..MaxTasks, answer'[id] # answer[id]
                     PROVE  answer[id] = "none" /\ \A s \in Slots : slot'[s].task.id # id
            BY DEF AnswersOnce
        <3>1. id = slot[a].task.id
            BY <2>2
        <3>2. ASSUME NEW s \in Slots PROVE slot'[s].task.id # id
            BY <1>1, <1>2, <1>3, <2>1, <2>2, <3>1
        <3> QED
            BY <2>3, <3>1, <3>2
    <2>7. ASSUME NEW id \in 1..MaxTasks, id > launched PROVE answer'[id] = "none"
        <3>1. id # slot[a].task.id
            BY <2>3, <2>7
        <3> QED
            BY <1>3, <2>2, <2>7, <3>1
    <2> QED
        BY <1>1, <2>4, <2>5, <2>6, <2>7 DEF Tasks, Idle
<1> QED
    BY <1>4, <1>5

(* What is left when a slot is released.                                    *)
LEMMA IdleOK ==
    ASSUME Inv, Turn, pc \in {"shift", "prompts", "sample", "verify"}, NEW a \in Slots, a = at,
           NEW r \in SlotRecord, slot'[a] = r, r.state = "idle", r.dft = {},
           r.nTokens \in 0..NCtx, r.kv \in 0..NCtx, r.kv = r.nTokens \/ r.nTokens = 0,
           Left(a)' = {}
    PROVE  SlotOK(a)'
<1>1. Cardinality(Left(a)') = 0
    BY FS_EmptySet
<1>2. Cells(a)'
    BY <1>1, Sizes DEF Cells, Stale, Stranded
<1>3. Quiet(a)' /\ Fits(a)' /\ InProgress(a)' /\ Draft(a)' /\ Budget(a)' /\ Sampleable(a)'
    BY DEF Quiet, Fits, InProgress, Draft, Budget, Sampleable, Generating
<1>4. Entered(a)'
    <2>1. pc' = "prompts" => ~(a >= at')
        BY Sizes DEF Turn, NextTurn, Onward
    <2>2. pc' = "sampled" => batch' = <<>>
        BY DEF Inv, Phases, Turn, Grows, NextTurn, Onward
    <2> QED
        BY <2>1, <2>2, EmptySeq DEF Entered, Generating
<1> QED
    BY <1>2, <1>3, <1>4 DEF SlotOK

LEMMA TurnKeeps ==
    ASSUME Inv, Turn, Kept \/ \E what \in {"final", "error"} : Answered(what),
           NEW a \in Slots, a = at, SlotOK(a)'
    PROVE  Inv' /\ AnswersOnce
<1>1. Shapes' /\ Phases'
    BY TurnShapes, TurnPhases DEF Inv
<1>2. Tasks' /\ AnswersOnce
    BY TurnTasks
<1>3. ASSUME NEW s \in Slots, s # at PROVE SlotOK(s)'
    BY <1>3, TurnFollows, TurnOthers DEF Turn, Alone
<1> QED
    BY <1>1, <1>2, <1>3 DEF Inv

-----------------------------------------------------------------------------
(* Turns that skip a slot                                                   *)

Skip == NoShift \/ SkipSampled \/ SkipPrompt \/ SkipSample \/ SkipVerify

LEMMA SameBatch ==
    ASSUME Shapes, batch' = batch
    PROVE  Grows
<1>1. batch \in Seq(Token) /\ Len(batch) \in Nat
    BY LenProperties DEF Shapes
<1>2. \A i : i \notin (Len(batch) + 1)..Len(batch)
    BY <1>1
<1> QED
    BY <1>1, <1>2 DEF Grows

LEMMA SameSlots ==
    ASSUME Inv, slot' = slot, UNCHANGED answer
    PROVE  Alone /\ Kept
<1>1. slot \in [Slots -> SlotRecord] /\ at \in Slots /\ OneTask(at)
    BY DEF Inv, Shapes, Tasks
<1>2. Idle(at) => ~IsChild(slot[at])
    BY <1>1, NoTaskType DEF OneTask, IsChild
<1>3. Idle(at) => slot[at].state # "wait" /\ slot[at].state # "generating"
    BY DEF Idle
<1> QED
    BY <1>1, <1>2, <1>3 DEF Alone, Kept, OneTask, Idle

LEMMA SkipKeeps ==
    ASSUME Inv, Skip
    PROVE  Inv' /\ AnswersOnce
<1>1. /\ Shapes /\ at \in Slots /\ slot' = slot /\ batch' = batch
      /\ UNCHANGED <<params, lead, nBatch, launched, answer, torn>>
    BY DEF Inv, Shapes, Skip, NoShift, SkipSampled, SkipPrompt, SkipSample, SkipVerify, cursor,
           NextDraft, ToNextView
<1>2. NextTurn
    <2>1. CASE NoShift
        BY <2>1 DEF NoShift, NextSlot, NextTurn, Onward, cursor
    <2>2. CASE SkipSampled
        BY <2>2 DEF SkipSampled, ToPrompts, NextSlot, NextTurn, Onward, cursor
    <2>3. CASE SkipPrompt
        BY <2>3 DEF SkipPrompt, NextSlot, NextTurn, Onward, cursor
    <2>4. CASE SkipSample
        BY <2>4 DEF SkipSample, NextSlot, NextTurn, Onward, cursor
    <2>5. CASE SkipVerify
        BY <2>5 DEF SkipVerify, NextDraft, ToNextView, NextSlot, NextTurn, Onward, cursor
    <2> QED
        BY <2>1, <2>2, <2>3, <2>4, <2>5 DEF Skip
<1>3. Skipped(at)
    BY <1>1 DEF Skip, Skipped, NoShift, SkipSampled, SkipPrompt, SkipSample, SkipVerify
<1>4. Turn /\ Kept
    BY <1>1, <1>2, SameBatch, SameSlots DEF Turn, Shapes
<1>5. PICK a \in Slots : a = at
    BY <1>1
<1>6. SlotOK(a)'
    BY <1>1, <1>3, <1>4, <1>5, TurnFollows, TurnOthers
<1> QED
    BY <1>4, <1>5, <1>6, TurnKeeps

-----------------------------------------------------------------------------
(* Turns that shift, release or put off a slot                              *)

LEMMA SetSlot ==
    ASSUME Shapes, NEW r \in SlotRecord, slot' = [slot EXCEPT ![at] = r]
    PROVE  Alone /\ slot'[at] = r
BY DEF Shapes, Alone

(* A slot is released with as many cells as tokens, or with stale cells.    *)
LEMMA ReleaseTurn ==
    ASSUME Inv, NextTurn, UNCHANGED <<params, batch, lead, nBatch, launched, torn>>,
           pc \in {"shift", "prompts", "sample", "verify"}, ~Idle(at),
           NEW what \in {"final", "error"}, Answer({at}, what),
           NEW a \in Slots, a = at,
           NEW r \in SlotRecord, slot' = [slot EXCEPT ![at] = r],
           r.state = "idle", r.task = NoTask, r.dft = {},
           r.nTokens \in 0..NCtx, r.kv \in 0..NCtx, r.kv = r.nTokens \/ r.nTokens = 0,
           Left(a) = {}
    PROVE  Inv' /\ AnswersOnce
<1>1. Shapes
    BY DEF Inv
<1>2. Alone /\ slot'[a] = r
    BY <1>1, SetSlot
<1>3. Turn
    BY <1>1, <1>2, SameBatch DEF Turn, Shapes
<1>4. Answered(what)
    BY <1>2 DEF Answered
<1>5. Left(a)' = {}
    BY <1>1, <1>3, TurnLeft
<1>6. SlotOK(a)'
    BY <1>2, <1>3, <1>5, IdleOK
<1> QED
    BY <1>3, <1>4, <1>6, TurnKeeps

(* A released slot keeps its cells, or none if it was a child's.            *)
LEMMA ReleaseKeeps ==
    ASSUME Inv, NextTurn, UNCHANGED <<params, batch, lead, nBatch, launched, torn>>,
           pc \in {"shift", "prompts", "sample", "verify"}, ~Idle(at),
           NEW what \in {"final", "error"}, Answer({at}, what),
           NEW a \in Slots, a = at,
           NEW r \in SlotRecord, slot' = [slot EXCEPT ![at] = r],
           r.state = "idle", r.task = NoTask, r.dft = {},
           IsChild(slot[a]) => r.nTokens = 0 /\ r.kv = 0,
           ~IsChild(slot[a]) => r.nTokens = slot[a].nTokens /\ r.kv = slot[a].kv,
           Left(a) = {}
    PROVE  Inv' /\ AnswersOnce
<1>1. /\ SlotOK(a) /\ slot[a] \in SlotRecord /\ Cardinality(Left(a)) = 0
    BY FS_EmptySet DEF Inv, Shapes
<1>2. slot[a].nTokens \in 0..NCtx /\ slot[a].kv \in Int /\ slot[a].kv >= 0
    BY <1>1, FieldTypes DEF SlotOK, Fits, Cells
<1>3. ~IsChild(slot[a]) => \/ slot[a].kv = slot[a].nTokens
                           \/ slot[a].nTokens = 0 /\ slot[a].kv <= NCtx
    BY <1>1, <1>2 DEF SlotOK, Cells, Short, Stale, Stranded
<1>4. r.nTokens \in 0..NCtx /\ r.kv \in 0..NCtx /\ (r.kv = r.nTokens \/ r.nTokens = 0)
    BY <1>2, <1>3, Sizes
<1> QED
    BY <1>4, ReleaseTurn

LEMMA ShiftRefusedKeeps ==
    ASSUME Inv, ShiftRefused
    PROVE  Inv' /\ AnswersOnce
<1>1. PICK a \in Slots : a = at
    BY DEF Inv, Shapes
<1>2. slot[a] \in SlotRecord /\ pc = "shift" /\ ~Idle(a)
    BY <1>1 DEF Inv, Shapes, ShiftRefused, NeedsShift, Generating, Idle
<1>3. Left(a) = {}
    BY <1>2, Sizes, EmptySeq DEF Inv, Phases, Left, Decoded
<1>4. NextTurn
    BY DEF ShiftRefused, NextSlot, NextTurn, Onward, cursor
<1>5. Released(slot[a]) \in SlotRecord /\ slot' = [slot EXCEPT ![at] = Released(slot[a])]
    BY <1>1, <1>2, ReleasedFields DEF ShiftRefused
<1> QED
    BY <1>1, <1>2, <1>3, <1>4, <1>5, ReleasedFields, ReleaseKeeps DEF ShiftRefused, cursor

LEMMA EndPromptKeeps ==
    ASSUME Inv, EndPrompt
    PROVE  Inv' /\ AnswersOnce
<1>1. PICK a \in Slots : a = at
    BY DEF Inv, Shapes
<1>2. slot[a] \in SlotRecord /\ pc = "prompts" /\ ~Idle(a) /\ slot[a].state = "started"
    BY <1>1 DEF Inv, Shapes, EndPrompt, Idle
<1>3. Left(a) = {}
    BY <1>2 DEF Inv, SlotOK, Quiet
<1>4. NextTurn
    BY DEF EndPrompt, NextSlot, NextTurn, Onward, cursor
<1>5. Released(slot[a]) \in SlotRecord /\ slot' = [slot EXCEPT ![at] = Released(slot[a])]
    BY <1>1, <1>2, ReleasedFields DEF EndPrompt
<1>6. \E what \in {"final", "error"} : Answer({at}, what)
    BY DEF EndPrompt
<1> QED
    BY <1>1, <1>2, <1>3, <1>4, <1>5, <1>6, ReleasedFields, ReleaseKeeps DEF EndPrompt, cursor

(* A slot whose last token is in the view has none left to decode.          *)
LEMMA NothingLeft ==
    ASSUME Inv, NEW s \in Slots, Sampled(s)
    PROVE  Left(s) = {} /\ slot[s].dft = {} /\ ~Idle(s)
<1>1. /\ SlotOK(s) /\ slot[s] \in SlotRecord /\ head \in Nat /\ view \in Nat
      /\ slot[s].iBatch \in Int /\ slot[s].iBatch < head + view /\ slot[s].iBatch # -1
    BY Sizes DEF Inv, Shapes, Sampled
<1>2. slot[s].dft = {}
    BY <1>1 DEF SlotOK, Sampleable, Sampled
<1>3. \A i \in Left(s) : i <= slot[s].iBatch
    BY <1>1, <1>2 DEF SlotOK, Quiet, Sampled
<1>4. \A i \in Left(s) : i \in Int /\ i >= head + view
    BY <1>1 DEF Left, Decoded
<1> QED
    BY <1>1, <1>2, <1>3, <1>4 DEF Sampled, Idle

LEMMA SendEmbeddingKeeps ==
    ASSUME Inv, SendEmbedding
    PROVE  Inv' /\ AnswersOnce
<1>1. PICK a \in Slots : a = at
    BY DEF Inv, Shapes
<1>2. slot[a] \in SlotRecord /\ pc = "sample" /\ Sampled(a)
    BY <1>1 DEF Inv, Shapes, SendEmbedding
<1>3. Left(a) = {} /\ ~Idle(a)
    BY <1>2, NothingLeft
<1>4. NextTurn
    BY DEF SendEmbedding, NextSlot, NextTurn, Onward, cursor
<1> DEFINE f == Released(slot[a])
           r == [f EXCEPT !.iBatch = -1]
<1>5. f \in SlotRecord
    BY <1>2, ReleasedFields
<1>6. slot' = [slot EXCEPT ![at] = r]
    BY <1>1 DEF SendEmbedding
<1>7. /\ f.state = "idle" /\ f.task = NoTask /\ f.dft = {}
      /\ IsChild(slot[a]) => f.nTokens = 0 /\ f.kv = 0
      /\ ~IsChild(slot[a]) => f.nTokens = slot[a].nTokens /\ f.kv = slot[a].kv
    BY <1>2, ReleasedFields
<1> HIDE DEF f
<1>8. /\ r \in SlotRecord
      /\ r.state = f.state /\ r.task = f.task /\ r.dft = f.dft /\ r.nTokens = f.nTokens /\ r.kv = f.kv
    BY <1>5, FieldUpdates DEF SlotRecord
<1> HIDE DEF r
<1>9. UNCHANGED <<params, batch, lead, nBatch, launched, torn>> /\ Answer({at}, "final")
    BY DEF SendEmbedding, cursor
<1>10. /\ r \in SlotRecord /\ r.state = "idle" /\ r.task = NoTask /\ r.dft = {}
       /\ IsChild(slot[a]) => r.nTokens = 0 /\ r.kv = 0
       /\ ~IsChild(slot[a]) => r.nTokens = slot[a].nTokens /\ r.kv = slot[a].kv
    BY <1>7, <1>8
<1>11. ~Idle(at)
    BY <1>1, <1>3
<1> QED
    BY <1>1, <1>2, <1>3, <1>4, <1>6, <1>9, <1>10, <1>11, ReleaseKeeps

(* A context shift takes as many cells as tokens, from a slot that has them *)
(* all: a child, the only one that may not, is not shifted.                 *)
LEMMA ShiftKeeps ==
    ASSUME Inv, Shift
    PROVE  Inv' /\ AnswersOnce
<1>1. PICK a \in Slots : a = at
    BY DEF Inv, Shapes
<1>2. /\ slot[a] \in SlotRecord /\ SlotOK(a) /\ Shapes /\ OneTask(a)
      /\ pc = "shift" /\ Generating(a) /\ slot[a].nTokens + 1 >= NCtx /\ ~IsChild(slot[a])
    BY <1>1 DEF Inv, Shapes, Tasks, Shift, NeedsShift, CannotShift
<1>3. Left(a) = {} /\ batch = <<>> /\ head = 0
    BY <1>2, Sizes, EmptySeq DEF Inv, Phases, Left, Decoded
<1>4. /\ slot[a].nTokens \in Int /\ slot[a].kv \in Int /\ slot[a].iBatch = -1 /\ slot[a].dft = {}
      /\ slot[a].nTokens < NCtx
    BY <1>2, <1>3, FieldTypes, EmptySeq DEF SlotOK, Sampleable, Draft, Fits, OneTask, Generating
<1>5. slot[a].kv = slot[a].nTokens
    <2>1. Cardinality(Left(a)) = 0
        BY <1>3, FS_EmptySet
    <2> QED
        BY <1>2, <1>4, <2>1 DEF SlotOK, Cells, Short, Stale, Generating
<1> DEFINE keep == SmallerOf(NCtx - 4, NKeep)
           d == (slot[a].nTokens - keep) \div 2
<1>6. d \in Int /\ d >= 1 /\ d <= slot[a].nTokens
    <2>1. keep \in Int /\ keep >= 0 /\ keep <= NCtx - 4
        BY Sizes DEF SmallerOf
    <2> HIDE DEF keep
    <2>2. slot[a].nTokens - keep >= 3 /\ slot[a].nTokens - keep \in Int
        BY <1>2, <1>4, <2>1, Sizes
    <2>3. \A x \in Int : x >= 3 => x \div 2 \in Int /\ x \div 2 >= 1 /\ x \div 2 <= x
        OBVIOUS
    <2> QED
        BY <1>4, <2>1, <2>2, <2>3
<1>7. PICK n : n = slot[a].nTokens - d
    OBVIOUS
<1>8. slot' = [slot EXCEPT ![at].nTokens = n, ![at].kv = n]
    BY <1>1, <1>5, <1>7 DEF Shift
<1>9. n \in Int /\ n >= 0 /\ n + 1 < NCtx
    <2> HIDE DEF d
    <2>1. slot[a].nTokens \in Int /\ NCtx \in Int
        BY <1>4, Sizes
    <2> QED
        BY <1>4, <1>6, <1>7, <2>1
<1> DEFINE r1 == [slot[a] EXCEPT !.nTokens = n]
           r  == [r1 EXCEPT !.kv = n]
<1>10. slot' = [slot EXCEPT ![at] = r]
    BY <1>1, <1>2, <1>8 DEF Shapes
<1>11. r \in SlotRecord
    <2>1. r1 \in SlotRecord
        BY <1>2, <1>9, FieldUpdates
    <2> HIDE DEF r1
    <2> QED
        BY <1>9, <2>1, FieldUpdates
<1>12. /\ r.nTokens = n /\ r.kv = n /\ r.state = slot[a].state /\ r.task = slot[a].task
       /\ r.iBatch = slot[a].iBatch /\ r.dft = slot[a].dft
       /\ r.nDecoded = slot[a].nDecoded /\ r.nRemaining = slot[a].nRemaining
    BY <1>2 DEF SlotRecord
<1> HIDE DEF r
<1>13. Alone /\ slot'[a] = r
    BY <1>1, <1>2, <1>10, <1>11, SetSlot
<1>14. Turn
    <2>1. NextTurn
        BY DEF Shift, NextSlot, NextTurn, Onward, cursor
    <2> QED
        BY <1>2, <1>13, <2>1, SameBatch DEF Turn, Shift, cursor, Shapes
<1>15. Kept
    BY <1>1, <1>2, <1>12, <1>13 DEF Kept, OneTask, Shift, Generating, Idle
<1>16. SlotOK(a)'
    <2>1. Left(a)' = {} /\ Cardinality(Left(a)') = 0 /\ batch' = <<>>
        BY <1>2, <1>3, <1>14, TurnLeft, FS_EmptySet DEF Shift
    <2>2. Cells(a)' /\ Quiet(a)' /\ InProgress(a)' /\ Sampleable(a)' /\ Draft(a)'
        BY <1>2, <1>4, <1>9, <1>12, <1>13, <2>1
        DEF Cells, Quiet, InProgress, Sampleable, Draft, Generating
    <2>3. Fits(a)'
        BY <1>2, <1>4, <1>9, <1>12, <1>13, Sizes DEF Fits, Generating
    <2>4. Entered(a)' /\ Budget(a)'
        BY <1>2, <1>4, <1>12, <1>13, <2>1, EmptySeq DEF SlotOK, Entered, Budget, Generating
    <2> QED
        BY <2>2, <2>3, <2>4 DEF SlotOK
<1> QED
    BY <1>1, <1>14, <1>15, <1>16, TurnKeeps

LEMMA WaitForBatchKeeps ==
    ASSUME Inv, WaitForBatch
    PROVE  Inv' /\ AnswersOnce
<1>1. PICK a \in Slots : a = at
    BY DEF Inv, Shapes
<1>2. /\ slot[a] \in SlotRecord /\ SlotOK(a) /\ Shapes /\ OneTask(a) /\ pc = "prompts"
      /\ slot[a].state \in {"started", "processing"} /\ slot[a].task.n > 0 /\ slot[a].task.n \in Nat
      /\ slot[a].task.kind = "embedding"
    BY <1>1, FieldTypes DEF Inv, Shapes, Tasks, WaitForBatch, HasPrompt, CanSplit
<1>3. Left(a) = {}
    <2>1. \A i \in 1..Len(batch) : batch[i].slot # a
        BY <1>1, <1>2, Sizes DEF SlotOK, Entered, Generating
    <2> QED
        BY <1>2, <2>1, NotInBatch
<1> DEFINE r1 == [slot[a] EXCEPT !.state = "processing"]
           r  == [r1 EXCEPT !.nTokens = 0]
<1>4. slot' = [slot EXCEPT ![at] = r]
    BY <1>1, <1>2 DEF WaitForBatch, Shapes
<1>5. r \in SlotRecord
    <2>1. r1 \in SlotRecord
        BY <1>2, FieldUpdates DEF States
    <2> HIDE DEF r1
    <2> QED
        BY <2>1, FieldUpdates
<1>6. /\ r.state = "processing" /\ r.nTokens = 0 /\ r.kv = slot[a].kv /\ r.task = slot[a].task
      /\ r.dft = slot[a].dft /\ r.iBatch = slot[a].iBatch
    BY <1>2 DEF SlotRecord
<1> HIDE DEF r
<1>7. Alone /\ slot'[a] = r
    BY <1>1, <1>2, <1>4, <1>5, SetSlot
<1>8. Turn
    <2>1. NextTurn
        BY DEF WaitForBatch, NextSlot, NextTurn, Onward, cursor
    <2> QED
        BY <1>2, <1>7, <2>1, SameBatch DEF Turn, WaitForBatch, cursor, Shapes
<1>9. Kept
    BY <1>1, <1>2, <1>6, <1>7 DEF Kept, OneTask, WaitForBatch, Idle
<1>10. SlotOK(a)'
    <2>1. Left(a)' = {} /\ Cardinality(Left(a)') = 0
        BY <1>2, <1>3, <1>8, TurnLeft, FS_EmptySet DEF WaitForBatch
    <2>2. slot[a].kv \in Int /\ slot[a].kv >= 0 /\ slot[a].kv <= NCtx
        <3>1. Cardinality(Left(a)) = 0
            BY <1>3, FS_EmptySet
        <3> QED
            BY <1>2, <3>1, FieldTypes, Sizes DEF SlotOK, Cells, Stale, Fits
    <2>3. Cells(a)'
        BY <1>6, <1>7, <2>1, <2>2 DEF Cells, Stale, Stranded
    <2>4. Quiet(a)' /\ InProgress(a)' /\ Sampleable(a)' /\ Budget(a)'
        BY <1>6, <1>7, <2>1 DEF Quiet, InProgress, Sampleable, Budget, Generating
    <2>5. Fits(a)'
        BY <1>2, <1>6, <1>7, Sizes DEF Fits, Generating
    <2>6. Draft(a)'
        BY <1>2, <1>6, <1>7 DEF SlotOK, Draft, Generating
    <2>7. Entered(a)'
        <3>1. pc' # "sampled" /\ (pc' = "prompts" => ~(a >= at'))
            BY <1>1, <1>2, Sizes DEF WaitForBatch, NextSlot
        <3> QED
            BY <3>1 DEF Entered
    <2> QED
        BY <2>3, <2>4, <2>5, <2>6, <2>7 DEF SlotOK
<1> QED
    BY <1>1, <1>8, <1>9, <1>10, TurnKeeps

-----------------------------------------------------------------------------
(* Turns that sample                                                        *)

(* A token was sampled: the slot stops and is released, or goes on with     *)
(* room in its context and budget.                                          *)
LEMMA ProcessTurn ==
    ASSUME Inv, NextTurn, UNCHANGED <<params, batch, lead, nBatch, launched, torn>>,
           pc \in {"sample", "verify"}, NEW a \in Slots, a = at, ~Idle(a), Left(a) = {},
           slot[a].task.kind = "completion", slot[a].state \in {"done", "generating"},
           NEW r \in SlotRecord, r.state = "generating", r.iBatch = -1, r.dft = {},
           r.task = slot[a].task, r.nTokens \in 0..(NCtx - 1), r.nDecoded >= 1,
           r.kv >= 0, r.kv = r.nTokens \/ (torn /\ IsChild(slot[a]) /\ r.kv <= r.nTokens),
           NEW eos \in BOOLEAN,
           IF Stops(r, eos)
           THEN slot' = [slot EXCEPT ![at] = Released(Processed(r))] /\ Answer({at}, "final")
           ELSE slot' = [slot EXCEPT ![at] = Processed(r)] /\ UNCHANGED answer
    PROVE  Inv' /\ AnswersOnce /\ slot'[a].nDecoded = r.nDecoded
<1>1. /\ Shapes /\ Cardinality(Left(a)) = 0
      /\ r.nTokens \in Int /\ r.kv \in Int /\ r.nDecoded \in Int /\ r.task.n_predict \in Int
    BY FS_EmptySet, FieldTypes DEF Inv
<1> DEFINE p == Processed(r)
           q == Released(p)
<1>2. /\ p \in SlotRecord /\ p.nTokens = r.nTokens /\ p.kv = r.kv /\ p.state = r.state
      /\ p.task = r.task /\ p.dft = r.dft /\ p.iBatch = r.iBatch /\ p.nDecoded = r.nDecoded
      /\ ChecksBudget(r) => p.nRemaining = r.task.n_predict - r.nDecoded
    BY ProcessedFields
<1>3. /\ q \in SlotRecord /\ q.state = "idle" /\ q.task = NoTask /\ q.dft = {}
      /\ q.nDecoded = p.nDecoded
      /\ IsChild(p) => q.nTokens = 0 /\ q.kv = 0
      /\ ~IsChild(p) => q.nTokens = p.nTokens /\ q.kv = p.kv
    BY <1>2, ReleasedFields
<1>4. IsChild(p) <=> IsChild(slot[a])
    BY <1>2 DEF IsChild
<1>5. CASE Stops(r, eos)
    <2>1. slot' = [slot EXCEPT ![at] = q] /\ Answer({at}, "final")
        BY <1>5
    <2>2. q.nTokens \in 0..NCtx /\ q.kv \in 0..NCtx /\ (q.kv = q.nTokens \/ q.nTokens = 0)
        BY <1>1, <1>2, <1>3, <1>4, Sizes
    <2> HIDE DEF q
    <2>3. slot'[a] = q
        BY <1>1, <1>3, <2>1, SetSlot
    <2>4. Inv' /\ AnswersOnce
        BY <1>3, <2>1, <2>2, ReleaseTurn
    <2> QED
        BY <1>2, <1>3, <2>3, <2>4
<1>6. CASE ~Stops(r, eos)
    <2>1. slot' = [slot EXCEPT ![at] = p] /\ UNCHANGED answer
        BY <1>6
    <2> HIDE DEF p
    <2>2. Alone /\ slot'[a] = p
        BY <1>1, <1>2, <2>1, SetSlot
    <2>3. Turn
        BY <1>1, <2>2, SameBatch DEF Turn, Shapes
    <2>4. Kept
        BY <1>2, <2>1, <2>2 DEF Kept, Idle
    <2>5. Left(a)' = {} /\ Cardinality(Left(a)') = 0
        BY <1>1, <2>3, TurnLeft
    <2>6. Cells(a)' /\ Quiet(a)'
        BY <1>1, <1>2, <1>4, <2>2, <2>5 DEF Cells, Quiet, Short, IsChild
    <2>7. pc' \notin {"shift", "sampled", "prompts"}
        BY DEF NextTurn, Onward
    <2>8. Fits(a)'
        BY <1>1, <1>2, <1>6, <2>2, <2>7, Sizes DEF Fits, Stops, ContextStop, OutOfContext, Generating
    <2>9. Entered(a)' /\ Sampleable(a)' /\ InProgress(a)' /\ Draft(a)'
        BY <1>2, <2>2, <2>7 DEF Entered, Sampleable, InProgress, Draft
    <2>10. Budget(a)'
        BY <1>1, <1>2, <1>6, <2>2 DEF Budget, Stops, ChecksBudget, Generating
    <2>11. SlotOK(a)'
        BY <2>6, <2>8, <2>9, <2>10 DEF SlotOK
    <2> QED
        BY <1>2, <2>2, <2>3, <2>4, <2>11, TurnKeeps
<1> QED
    BY <1>5, <1>6

LEMMA SampleTokenKeeps ==
    ASSUME Inv, SampleToken
    PROVE  /\ Inv' /\ AnswersOnce
           /\ \A a \in Slots : a = at => slot'[a].nDecoded = slot[a].nDecoded + 1
<1>1. PICK a \in Slots : a = at
    BY DEF Inv, Shapes
<1>2. /\ slot[a] \in SlotRecord /\ SlotOK(a) /\ pc = "sample" /\ Sampled(a)
      /\ slot[a].task.kind = "completion"
    BY <1>1 DEF Inv, Shapes, SampleToken
<1>3. Left(a) = {} /\ ~Idle(a) /\ slot[a].dft = {} /\ slot[a].state \in {"done", "generating"}
    BY <1>2, NothingLeft DEF Sampled
<1>4. NextTurn /\ UNCHANGED <<params, batch, lead, nBatch, launched, torn>>
    BY DEF SampleToken, NextSlot, NextTurn, Onward, cursor
<1> DEFINE r == Sample(slot[a])
<1>5. PICK eos \in BOOLEAN :
        IF Stops(r, eos)
        THEN slot' = [slot EXCEPT ![at] = Released(Processed(r))] /\ Answer({at}, "final")
        ELSE slot' = [slot EXCEPT ![at] = Processed(r)] /\ UNCHANGED answer
    BY <1>1 DEF SampleToken
<1>6. /\ r \in SlotRecord /\ r.state = "generating" /\ r.iBatch = -1
      /\ r.nDecoded = slot[a].nDecoded + 1 /\ r.nTokens = slot[a].nTokens /\ r.kv = slot[a].kv
      /\ r.task = slot[a].task /\ r.dft = {}
    BY <1>2, <1>3, SampleFields
<1> HIDE DEF r
<1>7. r.nTokens \in 0..(NCtx - 1)
    BY <1>2, <1>3, <1>6, Sizes DEF SlotOK, Fits
<1>8. slot[a].nDecoded \in Int /\ slot[a].nDecoded >= 0
    BY <1>2, <1>3, FieldTypes DEF SlotOK, InProgress, Budget, Generating
<1>9. r.kv >= 0 /\ (r.kv = r.nTokens \/ (torn /\ IsChild(slot[a]) /\ r.kv <= r.nTokens))
    <2>1. Cardinality(Left(a)) = 0 /\ slot[a].kv \in Int /\ slot[a].nTokens \in Int
        BY <1>2, <1>3, FS_EmptySet, FieldTypes
    <2> QED
        BY <1>2, <1>3, <1>6, <2>1 DEF SlotOK, Cells, Short, Stale
<1>10. r.nDecoded >= 1
    BY <1>6, <1>8
<1>11. Inv' /\ AnswersOnce /\ slot'[a].nDecoded = r.nDecoded
    BY <1>1, <1>2, <1>3, <1>4, <1>5, <1>6, <1>7, <1>9, <1>10, ProcessTurn
<1> QED
    BY <1>1, <1>6, <1>11

(* A draft whose outputs are in the view is decoded as a whole.             *)
LEMMA DraftDecoded ==
    ASSUME Inv, NEW a \in Slots, Drafted(a), HasOutputs(a)
    PROVE  /\ Left(a) = {} /\ IsFiniteSet(slot[a].dft)
           /\ Cardinality(slot[a].dft) \in Nat /\ Cardinality(slot[a].dft) >= 1
           /\ Cardinality(slot[a].dft) <= slot[a].nTokens
<1>1. Shapes /\ Draft(a) /\ slot[a].dft # {} /\ slot[a].dft \subseteq 0..(view - 1)
    BY DEF Inv, SlotOK, Drafted, HasOutputs
<1>2. /\ head = 0 /\ Cardinality(slot[a].dft) <= slot[a].nTokens
      /\ \A i \in 0..(Len(batch) - 1) : batch[i + 1].slot = a <=> i \in slot[a].dft
    BY <1>1 DEF Draft
<1>3. head \in Nat /\ view \in Nat /\ Decoded = head + view /\ Len(batch) \in Nat
    BY <1>1, Bounds
<1>4. Left(a) = {}
    <2>1. \A i \in Decoded..(Len(batch) - 1) : i \in 0..(Len(batch) - 1) /\ i \notin 0..(view - 1)
        BY <1>2, <1>3
    <2> QED
        BY <1>1, <1>2, <2>1 DEF Left
<1>5. IsFiniteSet(0..(view - 1))
    BY <1>3, FS_Interval
<1>6. IsFiniteSet(slot[a].dft)
    BY <1>1, <1>5, FS_Subset
<1>7. Cardinality(slot[a].dft) \in Nat /\ Cardinality(slot[a].dft) # 0
    BY <1>1, <1>6, FS_CardinalityType, FS_EmptySet
<1> QED
    BY <1>2, <1>4, <1>6, <1>7

LEMMA VerifyDraftKeeps ==
    ASSUME Inv, VerifyDraft
    PROVE  /\ Inv' /\ AnswersOnce
           /\ \A a \in Slots : a = at /\ slot[a].task.n_predict # -1 =>
                slot'[a].nDecoded <= slot[a].task.n_predict
<1>1. PICK a \in Slots : a = at
    BY DEF Inv, Shapes
<1>2. /\ slot[a] \in SlotRecord /\ SlotOK(a) /\ pc = "verify" /\ Drafted(a) /\ HasOutputs(a) /\ OneTask(a)
    BY <1>1 DEF Inv, Shapes, Tasks, VerifyDraft
<1>3. /\ Left(a) = {} /\ ~Idle(a) /\ slot[a].state = "generating"
      /\ slot[a].task.kind = "completion" /\ slot[a].iBatch = -1
    BY <1>2, DraftDecoded DEF Drafted, Generating, Idle, OneTask, SlotOK, Draft
<1>4. NextTurn /\ UNCHANGED <<params, batch, lead, nBatch, launched, torn>>
    BY DEF VerifyDraft, NextDraft, ToNextView, NextSlot, NextTurn, Onward, cursor
<1> DEFINE n_draft == Cardinality(slot[a].dft) - 1
<1> DEFINE Verified(s) ==
             \E accepted \in 0..(Cardinality(slot[s].dft) - 1), eos \in BOOLEAN :
               LET kept == RemoveTail([slot[s] EXCEPT
                               !.nTokens = @ - (Cardinality(slot[s].dft) - 1) + accepted,
                               !.nDecoded = @ + accepted + 1, !.dft = {}])
               IN  IF Stops(kept, eos)
                   THEN slot' = [slot EXCEPT ![at] = Released(Processed(kept))] /\ Answer({at}, "final")
                   ELSE slot' = [slot EXCEPT ![at] = Processed(kept)] /\ UNCHANGED answer
<1>0. Verified(a)
    <2>1. Verified(at)
        BY DEF VerifyDraft
    <2> HIDE DEF Verified
    <2> QED
        BY <1>1, <2>1
<1>5. PICK accepted \in 0..n_draft, eos \in BOOLEAN :
        LET kept == RemoveTail([slot[a] EXCEPT !.nTokens = @ - n_draft + accepted,
                                               !.nDecoded = @ + accepted + 1, !.dft = {}])
        IN  IF Stops(kept, eos)
            THEN slot' = [slot EXCEPT ![at] = Released(Processed(kept))] /\ Answer({at}, "final")
            ELSE slot' = [slot EXCEPT ![at] = Processed(kept)] /\ UNCHANGED answer
    BY <1>0
<1>6. /\ slot[a].nTokens \in Int /\ slot[a].nTokens < NCtx /\ NCtx \in Nat
      /\ slot[a].nDecoded \in Int /\ slot[a].nDecoded >= 0
      /\ slot[a].nRemaining \in Int /\ slot[a].task.n_predict \in Int
    BY <1>2, <1>3, FieldTypes, Sizes DEF SlotOK, Fits, Budget, Generating
<1>7. n_draft \in Int /\ n_draft >= 0 /\ n_draft < slot[a].nTokens /\ accepted \in Int
      /\ 0 <= accepted /\ accepted <= n_draft
    BY <1>2, <1>6, DraftDecoded
<1>8. slot[a].task.n_predict # -1 => slot[a].nDecoded + accepted + 1 <= slot[a].task.n_predict
    <2>1. slot[a].task.n_predict # -1 =>
            /\ slot[a].nRemaining = slot[a].task.n_predict - slot[a].nDecoded
            /\ n_draft + 1 <= slot[a].nRemaining
        BY <1>2, <1>3, DraftDecoded DEF SlotOK, Budget, Draft, Drafted, Generating
    <2> HIDE DEF n_draft
    <2> QED
        BY <1>6, <1>7, <2>1
<1> DEFINE x  == slot[a].nTokens - n_draft + accepted
           y  == slot[a].nDecoded + accepted + 1
           r1 == [slot[a] EXCEPT !.nTokens = x]
           r2 == [r1 EXCEPT !.nDecoded = y]
           r3 == [r2 EXCEPT !.dft = {}]
           r  == RemoveTail(r3)
<1>9. x \in 0..(NCtx - 1) /\ x <= slot[a].nTokens /\ y \in Int /\ y >= 1
    <2> HIDE DEF n_draft
    <2> QED
        BY <1>6, <1>7
<1>10. IF Stops(r, eos)
       THEN slot' = [slot EXCEPT ![at] = Released(Processed(r))] /\ Answer({at}, "final")
       ELSE slot' = [slot EXCEPT ![at] = Processed(r)] /\ UNCHANGED answer
    BY <1>5
<1> HIDE DEF n_draft
<1>11. r3 \in SlotRecord
    <2>1. r1 \in SlotRecord
        <3>1. x \in Int
            BY <1>9
        <3> HIDE DEF x
        <3> QED
            BY <1>2, <3>1, FieldUpdates
    <2>2. r2 \in SlotRecord
        <3> HIDE DEF r1, y
        <3> QED
            BY <1>9, <2>1, FieldUpdates
    <2> HIDE DEF r2
    <2> QED
        BY <2>2, FieldUpdates
<1>12. /\ r3.nTokens = x /\ r3.nDecoded = y /\ r3.dft = {} /\ r3.kv = slot[a].kv
       /\ r3.state = slot[a].state /\ r3.task = slot[a].task /\ r3.iBatch = slot[a].iBatch
    <2> HIDE DEF x, y
    <2> QED
        BY <1>2 DEF SlotRecord
<1> HIDE DEF r3
<1>13. /\ r \in SlotRecord /\ r.nTokens = x /\ r.nDecoded = y /\ r.dft = {}
       /\ r.kv = SmallerOf(slot[a].kv, x)
       /\ r.state = slot[a].state /\ r.task = slot[a].task /\ r.iBatch = slot[a].iBatch
    BY <1>11, <1>12, RemoveTailFields
<1> HIDE DEF r
<1>14. r.kv >= 0 /\ (r.kv = r.nTokens \/ (torn /\ IsChild(slot[a]) /\ r.kv <= r.nTokens))
    <2>1. Cardinality(Left(a)) = 0 /\ slot[a].kv \in Int
        BY <1>2, <1>3, FS_EmptySet, FieldTypes
    <2>2. /\ slot[a].kv >= 0
          /\ slot[a].kv = slot[a].nTokens \/ (torn /\ IsChild(slot[a]) /\ slot[a].kv <= slot[a].nTokens)
        BY <1>2, <1>3, <1>6, <2>1 DEF SlotOK, Cells, Short, Stale
    <2> HIDE DEF x
    <2> QED
        BY <1>6, <1>9, <1>13, <2>1, <2>2 DEF SmallerOf
<1>15. r.nTokens \in 0..(NCtx - 1) /\ r.nDecoded >= 1
    BY <1>9, <1>13
<1> HIDE DEF x
<1>16. Inv' /\ AnswersOnce /\ slot'[a].nDecoded = r.nDecoded
    BY <1>1, <1>2, <1>3, <1>4, <1>10, <1>13, <1>14, <1>15, ProcessTurn, ZenonT(40)
<1> QED
    BY <1>1, <1>8, <1>13, <1>16

-----------------------------------------------------------------------------
(* Turns that add tokens to the batch                                       *)

(* The n new tokens of the batch are slot a's, from position p on, and      *)
(* nothing of that slot was in it.                                          *)
Entering(a, p, n) ==
    /\ Grows /\ Len(batch') = Len(batch) + n
    /\ Left(a)' = Len(batch)..(Len(batch) + n - 1) /\ Cardinality(Left(a)') = n
    /\ \A i \in 0..(Len(batch') - 1) :
         batch'[i + 1].slot = a <=> i \in Len(batch)..(Len(batch) + n - 1)
    /\ \A i \in Len(batch)..(Len(batch) + n - 1) : batch'[i + 1].pos = p + i - Len(batch)

LEMMA TokensEnter ==
    ASSUME Inv, pc \in {"sampled", "prompts"}, NEW a \in Slots, a = at,
           \A i \in 1..Len(batch) : batch[i].slot # a,
           NEW p \in Int, NEW n \in Nat, UNCHANGED <<head, view>>,
           NEW f, TokensOf(f, a, p, n), batch' = batch \o f
    PROVE  Entering(a, p, n)
<1> DEFINE L == Len(batch)
<1>1. /\ batch \in Seq(Token) /\ L \in Nat /\ Decoded = 0 /\ head = 0 /\ view = 0
    BY Bounds DEF Inv, Phases, Shapes
<1>2. /\ batch' \in Seq(Token) /\ Len(batch') = L + n
      /\ \A i \in 1..L : batch'[i] = batch[i]
      /\ \A i \in (L + 1)..(L + n) : batch'[i].slot = a /\ batch'[i].pos = p + (i - L) - 1
    <2>1. PICK c : c = batch'
        OBVIOUS
    <2>2. c = batch \o f
        BY <2>1
    <2>3. Extended(c, batch, a, p, n)
        BY <1>1, <2>2, AddTokens
    <2> QED
        BY <2>1, <2>3 DEF Extended
<1>3. Grows
    <2>1. Len(batch') >= Len(batch)
        BY <1>1, <1>2
    <2> QED
        BY <1>2, <2>1 DEF Grows
<1>4. ASSUME NEW i \in 0..(L + n - 1)
      PROVE  /\ batch'[i + 1].slot = a <=> i \in L..(L + n - 1)
             /\ i \in L..(L + n - 1) => batch'[i + 1].pos = p + i - L
    <2> HIDE DEF L
    <2>1. CASE i < L
        <3>1. i + 1 \in 1..L /\ i \notin L..(L + n - 1)
            BY <1>1, <2>1
        <3> QED
            BY <1>2, <3>1 DEF L
    <2>2. CASE ~(i < L)
        <3>1. i + 1 \in (L + 1)..(L + n) /\ i \in L..(L + n - 1) /\ ((i + 1) - L) - 1 = i - L
            BY <1>1, <2>2
        <3>2. batch'[i + 1].slot = a /\ batch'[i + 1].pos = p + ((i + 1) - L) - 1
            BY <1>2, <3>1
        <3> QED
            BY <1>1, <3>1, <3>2
    <2> QED
        BY <2>1, <2>2
<1>5. Left(a)' = L..(L + n - 1)
    <2>1. Decoded' = 0
        BY <1>1 DEF Decoded
    <2>2. \A i : i \in L..(L + n - 1) => i \in 0..(L + n - 1)
        BY <1>1
    <2>3. Left(a)' = {i \in 0..(L + n - 1) : batch'[i + 1].slot = a}
        BY <1>2, <2>1 DEF Left
    <2> QED
        BY <1>4, <2>2, <2>3
<1>6. Cardinality(L..(L + n - 1)) = n
    <2>1. L \in Int /\ L + n - 1 \in Int /\ (L + n - 1) - L + 1 = n /\ (n > 0 => L <= L + n - 1)
        BY <1>1
    <2>2. n = 0 => L..(L + n - 1) = {}
        BY <1>1
    <2> HIDE DEF L
    <2> QED
        BY <2>1, <2>2, FS_Interval, FS_EmptySet
<1>7. Cardinality(Left(a)') = n
    BY <1>5, <1>6
<1>8. \A i \in 0..(Len(batch') - 1) : batch'[i + 1].slot = a <=> i \in L..(L + n - 1)
    <2>1. Len(batch') - 1 = L + n - 1
        BY <1>2
    <2> HIDE DEF L
    <2> QED
        BY <1>4, <2>1
<1>9. \A i \in L..(L + n - 1) : batch'[i + 1].pos = p + i - L
    <2>1. \A i : i \in L..(L + n - 1) => i \in 0..(L + n - 1)
        BY <1>1
    <2> HIDE DEF L
    <2> QED
        BY <1>4, <2>1
<1>10. Len(batch') = L + n
    BY <1>2
<1> QED
    BY <1>3, <1>5, <1>7, <1>8, <1>9, <1>10 DEF Entering

(* What the slot of a turn of the loop over the sampled tokens is like.     *)
LEMMA SampledSlot ==
    ASSUME Inv, pc = "sampled", NEW a \in Slots, a = at, Generating(a)
    PROVE  /\ slot[a] \in SlotRecord /\ slot[a].iBatch = -1 /\ slot[a].dft = {}
           /\ slot[a].nTokens \in Nat /\ slot[a].nTokens + 1 < NCtx
           /\ \A i \in 1..Len(batch) : batch[i].slot # a
           /\ slot[a].kv \in Int /\ slot[a].kv >= 0
           /\ slot[a].kv = slot[a].nTokens \/ (torn /\ IsChild(slot[a]) /\ slot[a].kv <= slot[a].nTokens)
           /\ slot[a].task.kind = "completion"
<1>1. SlotOK(a) /\ slot[a] \in SlotRecord /\ Shapes /\ a >= at /\ OneTask(a)
    BY Sizes DEF Inv, Shapes, Tasks
<1>2. slot[a].iBatch = -1 /\ slot[a].dft = {} /\ \A i \in 1..Len(batch) : batch[i].slot # a
    BY <1>1 DEF SlotOK, Entered
<1>3. Cardinality(Left(a)) = 0
    BY <1>1, <1>2, NotInBatch, FS_EmptySet
<1>4. slot[a].nTokens \in Nat /\ slot[a].kv \in Int /\ slot[a].nTokens + 1 < NCtx
    BY <1>1, FieldTypes, Sizes DEF SlotOK, Fits
<1> QED
    BY <1>1, <1>2, <1>3, <1>4 DEF SlotOK, Cells, Short, Stale, Generating, OneTask

LEMMA SampledTokensEnter ==
    ASSUME Inv, pc = "sampled", NEW a \in Slots, a = at, Generating(a),
           NEW n \in Nat, UNCHANGED <<head, view>>, batch' = batch \o Tokens(a, n)
    PROVE  Entering(a, slot[a].nTokens, n)
<1>1. PICK p \in Int : p = slot[a].nTokens
    BY SampledSlot
<1>2. PICK f : f = Tokens(a, n)
    OBVIOUS
<1>5. TokensOf(f, a, p, n)
    BY <1>1, <1>2 DEF Tokens, Token, TokensOf
<1>6. batch' = batch \o f
    BY <1>2
<1>3. \A i \in 1..Len(batch) : batch[i].slot # a
    BY SampledSlot
<1>7. pc \in {"sampled", "prompts"} /\ UNCHANGED <<head, view>>
    OBVIOUS
<1>4. Entering(a, p, n)
    BY <1>3, <1>5, <1>6, <1>7, TokensEnter
<1> QED
    BY <1>1, <1>4

LEMMA AddSampledKeeps ==
    ASSUME Inv, AddSampled
    PROVE  Inv' /\ AnswersOnce
<1>1. PICK a \in Slots : a = at
    BY DEF Inv, Shapes
<1>2. pc = "sampled" /\ Generating(a) /\ Shapes /\ SlotOK(a) /\ OneTask(a)
    BY <1>1 DEF AddSampled, Inv, Tasks
<1> DEFINE L == Len(batch)
           x == slot[a].nTokens + 1
           r1 == [slot[a] EXCEPT !.nTokens = x]
           r  == [r1 EXCEPT !.iBatch = L]
<1>3. /\ slot[a] \in SlotRecord /\ slot[a].iBatch = -1 /\ slot[a].dft = {}
      /\ slot[a].nTokens \in Nat /\ slot[a].nTokens + 1 < NCtx
      /\ \A i \in 1..Len(batch) : batch[i].slot # a
      /\ slot[a].kv \in Int /\ slot[a].kv >= 0
      /\ slot[a].kv = slot[a].nTokens \/ (torn /\ IsChild(slot[a]) /\ slot[a].kv <= slot[a].nTokens)
    BY <1>1, <1>2, SampledSlot
<1>4. slot' = [slot EXCEPT ![at] = r]
    BY <1>1 DEF AddSampled
<1>5. L \in Nat /\ x \in Nat
    BY <1>2, <1>3, Bounds
<1>6. r \in SlotRecord
    <2>1. r1 \in SlotRecord
        <3> HIDE DEF x
        <3> QED
            BY <1>3, <1>5, FieldUpdates
    <2> HIDE DEF r1, L
    <2> QED
        BY <1>5, <2>1, FieldUpdates
<1>7. /\ r.nTokens = x /\ r.iBatch = L /\ r.kv = slot[a].kv /\ r.state = slot[a].state
      /\ r.task = slot[a].task /\ r.dft = slot[a].dft /\ r.nDecoded = slot[a].nDecoded
      /\ r.nRemaining = slot[a].nRemaining
    <2> HIDE DEF x, L
    <2> QED
        BY <1>3 DEF SlotRecord
<1> HIDE DEF r
<1>8. Alone /\ slot'[a] = r
    BY <1>1, <1>2, <1>4, <1>6, SetSlot
<1>9. /\ batch' = batch \o Tokens(a, 1) /\ UNCHANGED <<head, view>>
    BY <1>1 DEF AddSampled, cursor
<1>10. 1 \in Nat
    OBVIOUS
<1>11. /\ Grows /\ Len(batch') = L + 1
       /\ Left(a)' = L..(L + 1 - 1) /\ Cardinality(Left(a)') = 1
       /\ \A i \in L..(L + 1 - 1) : batch'[i + 1].pos = slot[a].nTokens + i - L
       /\ \A i \in 0..(Len(batch') - 1) : batch'[i + 1].slot = a <=> i \in L..(L + 1 - 1)
    <2>1. Entering(a, slot[a].nTokens, 1)
        BY <1>1, <1>2, <1>9, <1>10, SampledTokensEnter
    <2> QED
        BY <2>1 DEF Entering
<1>12. NextTurn
    <2>1. \E to \in {"prompts", "decode"} : NextSlot("sampled", to)
        BY DEF AddSampled, ToPrompts
    <2> QED
        BY <1>2, <1>9, <2>1 DEF NextSlot, NextTurn, Onward
<1>13. Turn
    BY <1>1, <1>2, <1>8, <1>11, <1>12 DEF Turn, AddSampled, Shapes, cursor
<1>14. Kept
    BY <1>1, <1>2, <1>7, <1>8 DEF Kept, OneTask, AddSampled, Generating, Idle
<1>15. SlotOK(a)'
    <2>1. Cells(a)'
        BY <1>3, <1>7, <1>8, <1>11, <1>13 DEF Cells, Short, IsChild, Turn
    <2>2. Quiet(a)'
        BY <1>2, <1>5, <1>7, <1>8, <1>11 DEF Quiet, Generating
    <2>3. ~(pc' \in {"shift", "sample", "verify"}) /\ (pc' = "sampled" => ~(a >= at'))
        BY <1>1, <1>2, <1>12, Sizes DEF NextTurn, Onward
    <2>4. Fits(a)'
        BY <1>2, <1>3, <1>5, <1>7, <1>8, <2>3, Sizes DEF Fits, Generating
    <2>5. Entered(a)' /\ InProgress(a)' /\ Draft(a)' /\ Budget(a)'
        BY <1>2, <1>3, <1>7, <1>8, <2>3 DEF SlotOK, Entered, InProgress, Draft, Budget, Generating
    <2>6. Sampleable(a)'
        <3>1. head' = 0 /\ L \in 0..(Len(batch') - 1) /\ L \in L..(L + 1 - 1)
            BY <1>2, <1>5, <1>9, <1>11 DEF Inv, Phases
        <3>2. batch'[L + 1].slot = a /\ batch'[L + 1].pos = slot[a].nTokens + L - L
            BY <1>11, <3>1
        <3>3. batch'[L + 1].pos = x - 1
            BY <1>3, <1>5, <3>2
        <3> HIDE DEF L, x
        <3> QED
            BY <1>3, <1>7, <1>8, <2>3, <3>1, <3>2, <3>3 DEF Sampleable
    <2> QED
        BY <2>1, <2>2, <2>4, <2>5, <2>6 DEF SlotOK
<1> QED
    BY <1>1, <1>13, <1>14, <1>15, TurnKeeps

(* A draft fits in what is left of the context and of the budget.           *)
LEMMA DraftFits ==
    ASSUME NEW r \in SlotRecord, DraftLimit(r) > 0
    PROVE  /\ DraftLimit(r) \in Int /\ r.nTokens + DraftLimit(r) + 2 <= NCtx
           /\ r.nRemaining > 0 => DraftLimit(r) + 1 <= r.nRemaining
<1> DEFINE room == SmallerOf(DraftMax, NCtx - r.nTokens - 2)
           most == IF r.nRemaining > 0 THEN SmallerOf(room, r.nRemaining - 1) ELSE room
<1>1. r.nTokens \in Int /\ r.nRemaining \in Int /\ NCtx \in Int /\ DraftMax \in Int
    BY FieldTypes, Sizes
<1>2. room \in Int /\ room <= NCtx - r.nTokens - 2
    BY <1>1 DEF SmallerOf
<1> HIDE DEF room
<1>3. most \in Int /\ most <= room /\ (r.nRemaining > 0 => most <= r.nRemaining - 1)
    BY <1>1, <1>2 DEF SmallerOf
<1>4. DraftLimit(r) = IF DraftMax = 0 \/ most < DraftMin THEN 0 ELSE most
    BY DEF DraftLimit, room
<1> HIDE DEF most
<1>5. DraftLimit(r) = most
    BY <1>4
<1> QED
    BY <1>1, <1>2, <1>3, <1>5

LEMMA AddDraftKeeps ==
    ASSUME Inv, AddDraft
    PROVE  Inv' /\ AnswersOnce
<1>1. PICK a \in Slots : a = at
    BY DEF Inv, Shapes
<1>2. /\ pc = "sampled" /\ Generating(a) /\ Shapes /\ SlotOK(a) /\ OneTask(a)
      /\ DraftLimit(slot[a]) > 0
    BY <1>1 DEF AddDraft, Inv, Tasks
<1>3. /\ slot[a] \in SlotRecord /\ slot[a].iBatch = -1 /\ slot[a].dft = {}
      /\ slot[a].nTokens \in Nat /\ slot[a].nTokens + 1 < NCtx
      /\ slot[a].kv \in Int /\ slot[a].kv >= 0
      /\ slot[a].kv = slot[a].nTokens \/ (torn /\ IsChild(slot[a]) /\ slot[a].kv <= slot[a].nTokens)
    BY <1>1, <1>2, SampledSlot
<1>4. PICK n_draft \in DraftMin..DraftLimit(slot[a]) :
        /\ slot' = [slot EXCEPT ![at] = [slot[a] EXCEPT
                        !.nTokens = @ + 1 + n_draft, !.dft = Len(batch)..(Len(batch) + n_draft)]]
        /\ batch' = batch \o Tokens(a, 1 + n_draft)
    BY <1>1 DEF AddDraft
<1>5. /\ n_draft \in Nat /\ slot[a].nTokens + n_draft + 2 <= NCtx
      /\ slot[a].nRemaining > 0 => n_draft + 1 <= slot[a].nRemaining
    <2>1. PICK m : m = DraftLimit(slot[a])
        OBVIOUS
    <2>2. /\ m \in Int /\ slot[a].nTokens + m + 2 <= NCtx
          /\ slot[a].nRemaining > 0 => m + 1 <= slot[a].nRemaining
        BY <1>2, <1>3, <2>1, DraftFits
    <2>3. n_draft \in Int /\ DraftMin <= n_draft /\ n_draft <= m /\ DraftMin \in Nat
        BY <2>1, <2>2, Sizes
    <2>4. NCtx \in Int /\ slot[a].nRemaining \in Int
        BY <1>3, Sizes, FieldTypes
    <2> QED
        BY <1>3, <2>2, <2>3, <2>4
<1>6. PICK n \in Nat : n = 1 + n_draft
    BY <1>5
<1> DEFINE L == Len(batch)
           D == L..(L + n_draft)
           x == slot[a].nTokens + 1 + n_draft
           r1 == [slot[a] EXCEPT !.nTokens = x]
           r  == [r1 EXCEPT !.dft = D]
<1>7. slot' = [slot EXCEPT ![at] = r]
    BY <1>4
<1>8. L \in Nat /\ x \in Nat /\ x < NCtx /\ x = slot[a].nTokens + n /\ n >= 1 /\ n <= x
    <2>1. L \in Nat
        BY <1>2, Bounds
    <2>2. slot[a].nTokens \in Nat /\ n_draft \in Nat /\ NCtx \in Int /\ slot[a].nTokens + n_draft + 2 <= NCtx
        BY <1>3, <1>5, Sizes
    <2> HIDE DEF L
    <2> QED
        BY <1>6, <2>1, <2>2
<1>9. /\ D \subseteq Nat /\ D = L..(L + n - 1) /\ Cardinality(D) = n /\ L \in D /\ D # {}
      /\ D \subseteq 0..(L + n - 1)
    <2> HIDE DEF L
    <2>1. L + n_draft = L + n - 1
        BY <1>5, <1>6, <1>8
    <2>2. (L + n - 1) - L + 1 = n /\ L <= L + n - 1 /\ L \in Int /\ L + n - 1 \in Int
        BY <1>8
    <2>3. D = L..(L + n - 1)
        BY <2>1
    <2>4. Cardinality(L..(L + n - 1)) = n
        BY <2>2, FS_Interval
    <2>5. /\ L..(L + n - 1) \subseteq Nat /\ L \in L..(L + n - 1)
          /\ L..(L + n - 1) \subseteq 0..(L + n - 1)
        BY <1>8, <2>2
    <2> HIDE DEF D
    <2> QED
        BY <2>3, <2>4, <2>5
<1>10. r \in SlotRecord
    <2>1. r1 \in SlotRecord
        <3> HIDE DEF x
        <3> QED
            BY <1>3, <1>8, FieldUpdates
    <2> HIDE DEF r1, D
    <2> QED
        BY <1>9, <2>1, FieldUpdates
<1>11. /\ r.nTokens = x /\ r.dft = D /\ r.iBatch = slot[a].iBatch /\ r.kv = slot[a].kv
       /\ r.state = slot[a].state /\ r.task = slot[a].task
       /\ r.nDecoded = slot[a].nDecoded /\ r.nRemaining = slot[a].nRemaining
    <2> HIDE DEF x, D
    <2> QED
        BY <1>3 DEF SlotRecord
<1> HIDE DEF r
<1>12. Alone /\ slot'[a] = r
    BY <1>1, <1>2, <1>7, <1>10, SetSlot
<1>13. batch' = batch \o Tokens(a, n) /\ UNCHANGED <<head, view>>
    BY <1>4, <1>6 DEF AddDraft, cursor
<1>14. /\ Grows /\ Len(batch') = L + n
       /\ Left(a)' = L..(L + n - 1) /\ Cardinality(Left(a)') = n
       /\ \A i \in 0..(Len(batch') - 1) : batch'[i + 1].slot = a <=> i \in L..(L + n - 1)
    <2>1. Entering(a, slot[a].nTokens, n)
        BY <1>1, <1>2, <1>13, SampledTokensEnter
    <2> QED
        BY <2>1 DEF Entering
<1>15. NextTurn
    <2>1. \E to \in {"prompts", "decode"} : NextSlot("sampled", to)
        BY DEF AddDraft, ToPrompts
    <2> QED
        BY <1>2, <1>13, <2>1 DEF NextSlot, NextTurn, Onward
<1>16. Turn
    BY <1>1, <1>2, <1>12, <1>14, <1>15 DEF Turn, AddDraft, Shapes, cursor
<1>17. Kept
    BY <1>1, <1>2, <1>11, <1>12 DEF Kept, OneTask, AddDraft, Generating, Idle
<1>18. SlotOK(a)'
    <2>1. pc' \notin {"rest", "shift", "sample", "verify"} /\ (pc' = "sampled" => ~(a >= at'))
        BY <1>1, <1>2, <1>15, Sizes DEF NextTurn, Onward
    <2>0. x \in Int /\ n \in Int /\ NCtx \in Int /\ Cardinality(D) = n
        BY <1>8, <1>9, Sizes
    <2> HIDE DEF D, L, x
    <2>2. Cells(a)'
        <3>1. /\ slot'[a].kv = slot[a].kv /\ slot'[a].nTokens = x /\ slot'[a].task = slot[a].task
              /\ torn' = torn /\ Cardinality(Left(a)') = n
            BY <1>11, <1>12, <1>14, <1>16 DEF Turn
        <3>2. /\ slot[a].kv \in Int /\ slot[a].kv >= 0 /\ x = slot[a].nTokens + n
              /\ slot[a].nTokens \in Int
            BY <1>3, <1>8
        <3>3. CASE slot[a].kv = slot[a].nTokens
            <4>1. slot[a].kv + n = x
                BY <2>0, <3>2, <3>3
            <4> QED
                BY <3>1, <3>2, <4>1 DEF Cells
        <3>4. CASE torn /\ IsChild(slot[a]) /\ slot[a].kv <= slot[a].nTokens
            <4>1. slot[a].kv + n <= x
                BY <2>0, <3>2, <3>4
            <4>2. Short(a)'
                BY <3>1, <3>4 DEF Short, IsChild
            <4> QED
                BY <3>1, <3>2, <4>1, <4>2 DEF Cells
        <3> QED
            BY <1>3, <3>3, <3>4
    <2>3. Quiet(a)' /\ InProgress(a)' /\ Sampleable(a)'
        BY <1>2, <1>3, <1>9, <1>11, <1>12 DEF Quiet, InProgress, Sampleable, Generating
    <2>4. Fits(a)'
        <3>1. /\ slot'[a].nTokens = x /\ slot'[a].state = "generating" /\ slot'[a].dft # {}
            BY <1>2, <1>9, <1>11, <1>12 DEF Generating
        <3>2. x \in 0..NCtx /\ x < NCtx
            BY <1>8, <2>0
        <3> QED
            BY <1>1, <2>1, <3>1, <3>2 DEF Fits
    <2>5. Entered(a)' /\ Budget(a)'
        BY <1>2, <1>3, <1>11, <1>12, <2>1 DEF SlotOK, Entered, Budget, Generating
    <2>6. Draft(a)'
        <3>1. head' = 0 /\ view' = 0
            BY <1>2, <1>13 DEF Inv, Phases
        <3>2. r.task.n_predict # -1 => n <= r.nRemaining
            BY <1>2, <1>5, <1>6, <1>11 DEF SlotOK, Budget
        <3>3. \A i \in 0..(Len(batch') - 1) : batch'[i + 1].slot = a <=> i \in D
            BY <1>9, <1>14
        <3>4. D \subseteq 0..(Len(batch') - 1)
            BY <1>9, <1>14
        <3>5. /\ slot'[a] = r /\ r.dft = D /\ r.state = "generating" /\ r.iBatch = -1
              /\ Cardinality(D) <= r.nTokens
              /\ r.task.n_predict # -1 => Cardinality(D) <= r.nRemaining
            BY <1>2, <1>3, <1>8, <1>9, <1>11, <1>12, <2>0, <3>2 DEF Generating
        <3> QED
            BY <2>1, <3>1, <3>3, <3>4, <3>5 DEF Draft, Generating
    <2> QED
        BY <2>2, <2>3, <2>4, <2>5, <2>6 DEF SlotOK
<1> QED
    BY <1>1, <1>16, <1>17, <1>18, TurnKeeps

(* The cells a prompt starts from are those of its first tokens, and at     *)
(* least one token of it is left to evaluate.                               *)
Start(kept, n_past, trimmed) ==
    IF kept.kv <= n_past \/ trimmed THEN RemoveTail(kept) ELSE Clear(kept)

LEMMA PromptStart ==
    ASSUME Inv, pc = "prompts", NEW a \in Slots, a = at, HasPrompt(a), slot[a].task.n > 0,
           NEW n_past \in Cached(a), NEW trimmed \in BOOLEAN,
           NEW kept, kept = [slot[a] EXCEPT !.nTokens = n_past],
           NEW start, start = Start(kept, n_past, trimmed)
    PROVE  /\ start \in SlotRecord /\ start.kv = start.nTokens
           /\ start.nTokens \in Nat /\ start.nTokens < slot[a].task.n
           /\ start.task = slot[a].task /\ start.dft = {} /\ start.iBatch = slot[a].iBatch
           /\ start.nDecoded = slot[a].nDecoded
<1>1. /\ Shapes /\ SlotOK(a) /\ OneTask(a) /\ slot[a] \in SlotRecord
      /\ slot[a].state \in {"started", "processing"} /\ ~Generating(a) /\ ~IsChild(slot[a])
    BY DEF Inv, Shapes, Tasks, HasPrompt, Generating, OneTask
<1>2. slot[a].nTokens \in Nat /\ slot[a].kv \in Nat /\ slot[a].task.n \in Nat
    <2>1. slot[a].kv \in Int /\ slot[a].kv >= 0
        BY <1>1, FieldTypes DEF SlotOK, Cells
    <2> QED
        BY <1>1, <2>1, FieldTypes, Sizes DEF SlotOK, Fits
<1>3. n_past \in Nat /\ n_past <= slot[a].nTokens /\ n_past < slot[a].task.n
    <2>1. slot[a].state = "processing" => slot[a].nTokens < slot[a].task.n
        BY <1>1 DEF SlotOK, Fits
    <2>2. \A c \in 0..SmallerOf(slot[a].nTokens, slot[a].task.n) :
            c \in Nat /\ c <= slot[a].nTokens /\ c <= slot[a].task.n
        BY <1>2 DEF SmallerOf
    <2> QED
        BY <1>1, <1>2, <2>1, <2>2 DEF Cached
<1>4. slot[a].kv = slot[a].nTokens \/ slot[a].nTokens = 0
    <2>1. Cardinality(Left(a)) = 0
        <3>1. \A i \in 1..Len(batch) : batch[i].slot # a
            BY <1>1, Sizes DEF SlotOK, Entered
        <3> QED
            BY <1>1, <3>1, NotInBatch, FS_EmptySet
    <2> QED
        BY <1>1, <1>2, <2>1 DEF SlotOK, Cells, Short, Stale, Stranded
<1>5. kept \in SlotRecord /\ n_past \in Int
    BY <1>1, <1>3, FieldUpdates
<1>6. /\ kept.nTokens = n_past /\ kept.kv = slot[a].kv /\ kept.task = slot[a].task
      /\ kept.dft = slot[a].dft /\ kept.iBatch = slot[a].iBatch /\ kept.nDecoded = slot[a].nDecoded
    BY <1>1 DEF SlotRecord
<1>7. slot[a].dft = {}
    BY <1>1 DEF SlotOK, Draft
<1>8. CASE kept.kv <= n_past \/ trimmed
    <2>1. start = RemoveTail(kept)
        BY <1>8 DEF Start
    <2>2. SmallerOf(kept.kv, kept.nTokens) = n_past
        BY <1>2, <1>3, <1>4, <1>6 DEF SmallerOf
    <2>3. /\ RemoveTail(kept) \in SlotRecord /\ RemoveTail(kept).nTokens = n_past
          /\ RemoveTail(kept).kv = n_past
          /\ RemoveTail(kept).task = kept.task /\ RemoveTail(kept).dft = kept.dft
          /\ RemoveTail(kept).iBatch = kept.iBatch /\ RemoveTail(kept).nDecoded = kept.nDecoded
        BY <1>5, <1>6, <2>2, RemoveTailFields
    <2> QED
        BY <1>3, <1>6, <1>7, <2>1, <2>3
<1>9. CASE ~(kept.kv <= n_past \/ trimmed)
    <2>1. start = Clear(kept)
        BY <1>9 DEF Start
    <2>2. /\ Clear(kept) \in SlotRecord /\ Clear(kept).nTokens = 0 /\ Clear(kept).kv = 0
          /\ Clear(kept).task = kept.task /\ Clear(kept).dft = kept.dft
          /\ Clear(kept).iBatch = kept.iBatch /\ Clear(kept).nDecoded = kept.nDecoded
        BY <1>5, ClearFields
    <2>3. start.nTokens = 0 /\ start.kv = 0 /\ start.nTokens \in Nat /\ start.nTokens < slot[a].task.n
        BY <1>2, <2>1, <2>2
    <2> QED
        BY <1>6, <1>7, <2>1, <2>2, <2>3
<1> QED
    BY <1>8, <1>9

LEMMA FillPromptKeeps ==
    ASSUME Inv, FillPrompt
    PROVE  Inv' /\ AnswersOnce
<1>1. PICK a \in Slots : a = at
    BY DEF Inv, Shapes
<1>2. PICK n : n = slot[a].task.n
    OBVIOUS
<1>3. /\ slot[a] \in SlotRecord /\ SlotOK(a) /\ Shapes /\ OneTask(a) /\ pc = "prompts"
      /\ HasPrompt(a) /\ slot[a].state \in {"started", "processing"} /\ n > 0 /\ ~TooLarge(a)
      /\ n \in Nat /\ ~IsChild(slot[a])
    <2>1. pc = "prompts" /\ HasPrompt(at) /\ slot[at].task.n > 0 /\ ~TooLarge(at)
        BY DEF FillPrompt
    <2>2. /\ pc = "prompts" /\ HasPrompt(a) /\ n > 0 /\ ~TooLarge(a)
          /\ slot[a] \in SlotRecord /\ SlotOK(a) /\ Shapes /\ OneTask(a)
        BY <1>1, <1>2, <2>1 DEF Inv, Shapes, Tasks
    <2> QED
        BY <1>2, <2>2, FieldTypes DEF HasPrompt, OneTask
<1>4. PICK n_past \in Cached(at), trimmed \in {TRUE, CanTrim} :
        LET kept  == [slot[at] EXCEPT !.nTokens = n_past]
            start == IF kept.kv <= n_past \/ trimmed THEN RemoveTail(kept) ELSE Clear(kept)
            more  == SmallerOf(slot[at].task.n - start.nTokens, LargerOf(NBatch - Len(batch), 0))
            done  == start.nTokens + more = slot[at].task.n
        IN  /\ batch' = batch \o [i \in 1..more |-> [slot |-> at, pos |-> start.nTokens + i - 1]]
            /\ slot' = [slot EXCEPT ![at] = [start EXCEPT
                    !.nTokens  = @ + more,
                    !.state    = IF done THEN "done" ELSE "processing",
                    !.nDecoded = IF done THEN 0 ELSE @,
                    !.iBatch   = IF done THEN Len(batch') - 1 ELSE @]]
    BY DEF FillPrompt
<1>5. PICK kept : kept = [slot[at] EXCEPT !.nTokens = n_past]
    OBVIOUS
<1>6. PICK start : start = Start(kept, n_past, trimmed)
    OBVIOUS
<1>7. PICK more : more = SmallerOf(n - start.nTokens, LargerOf(NBatch - Len(batch), 0))
    OBVIOUS
<1>8. PICK last : last = Len(batch') - 1
    OBVIOUS
<1>9. PICK f : f = [i \in 1..more |-> [slot |-> at, pos |-> start.nTokens + i - 1]]
    OBVIOUS
<1> DEFINE done == start.nTokens + more = n
           s1 == IF done THEN "done" ELSE "processing"
           d1 == IF done THEN 0 ELSE start.nDecoded
           i1 == IF done THEN last ELSE start.iBatch
           x  == start.nTokens + more
<1>10. /\ batch' = batch \o f
       /\ slot' = [slot EXCEPT ![at] = [start EXCEPT
                !.nTokens = x, !.state = s1, !.nDecoded = d1, !.iBatch = i1]]
    BY <1>1, <1>2, <1>4, <1>5, <1>6, <1>7, <1>8, <1>9 DEF Start
<1>11. trimmed \in BOOLEAN
    BY UpdateAssumption
<1>12. /\ start \in SlotRecord /\ start.kv = start.nTokens
       /\ start.nTokens \in Nat /\ start.nTokens < n
       /\ start.task = slot[a].task /\ start.dft = {} /\ start.iBatch = slot[a].iBatch
       /\ start.nDecoded = slot[a].nDecoded
    BY <1>1, <1>2, <1>3, <1>5, <1>6, <1>11, PromptStart
<1> DEFINE L == Len(batch)
<1>13. L \in Nat /\ more \in Nat /\ x \in Nat /\ x <= n /\ (done => more >= 1)
    <2>1. L \in Nat /\ NBatch \in Nat
        BY <1>3, Bounds, Sizes
    <2>2. more \in Nat /\ more <= n - start.nTokens
        BY <1>3, <1>7, <1>12, <2>1 DEF SmallerOf, LargerOf
    <2> QED
        BY <1>3, <1>12, <2>1, <2>2
<1>14. /\ Grows /\ Len(batch') = L + more
       /\ Left(a)' = L..(L + more - 1) /\ Cardinality(Left(a)') = more
       /\ \A i \in 0..(Len(batch') - 1) : batch'[i + 1].slot = a <=> i \in L..(L + more - 1)
       /\ \A i \in L..(L + more - 1) : batch'[i + 1].pos = start.nTokens + i - L
    <2>1. PICK p \in Int : p = start.nTokens
        BY <1>12
    <2>2. TokensOf(f, a, p, more)
        BY <1>1, <1>9, <1>13, <2>1, SMTT(20) DEF TokensOf, Token
    <2>3. \A i \in 1..Len(batch) : batch[i].slot # a
        BY <1>1, <1>3, Sizes DEF SlotOK, Entered, Generating
    <2>4. UNCHANGED <<head, view>>
        BY DEF FillPrompt, cursor
    <2>6. pc \in {"sampled", "prompts"} /\ batch' = batch \o f
        BY <1>3, <1>10
    <2>7. PICK k \in Nat : k = more
        BY <1>13
    <2>8. TokensOf(f, a, p, k)
        BY <2>2, <2>7
    <2>5. Entering(a, p, k)
        BY <1>1, <2>3, <2>4, <2>6, <2>8, TokensEnter
    <2>9. Entering(a, start.nTokens, more)
        BY <2>1, <2>5, <2>7
    <2> QED
        BY <2>9 DEF Entering
<1> DEFINE r1 == [start EXCEPT !.nTokens = x]
           r2 == [r1 EXCEPT !.state = s1]
           r3 == [r2 EXCEPT !.nDecoded = d1]
           r  == [r3 EXCEPT !.iBatch = i1]
<1>15. slot' = [slot EXCEPT ![at] = r]
    BY <1>10
<1>16. last \in Int /\ last = L + more - 1 /\ start.iBatch \in Int /\ start.nDecoded \in Int
    <2>3. Len(batch') = L + more
        BY <1>14
    <2>1. last = L + more - 1
        BY <1>8, <1>13, <2>3
    <2>2. start.iBatch \in Int /\ start.nDecoded \in Int
        BY <1>12, FieldTypes
    <2> HIDE DEF L
    <2> QED
        BY <1>13, <2>1, <2>2
<1> HIDE DEF L
<1>17. r \in SlotRecord
    <2>1. r1 \in SlotRecord
        <3>1. x \in Int
            BY <1>13
        <3> HIDE DEF x
        <3> QED
            BY <1>12, <3>1, FieldUpdates
    <2>2. r2 \in SlotRecord
        <3>1. s1 \in States
            BY DEF States
        <3> HIDE DEF r1, s1
        <3> QED
            BY <2>1, <3>1, FieldUpdates
    <2>3. r3 \in SlotRecord
        <3>1. d1 \in Int
            BY <1>16
        <3> HIDE DEF r2, d1
        <3> QED
            BY <2>2, <3>1, FieldUpdates
    <2>4. i1 \in Int
        BY <1>16
    <2> HIDE DEF r3, i1
    <2> QED
        BY <2>3, <2>4, FieldUpdates
<1>18. /\ r.nTokens = x /\ r.state = s1 /\ r.nDecoded = d1 /\ r.iBatch = i1
       /\ r.kv = start.kv /\ r.task = start.task /\ r.dft = start.dft
    <2> HIDE DEF x, s1, d1, i1
    <2> QED
        BY <1>12 DEF SlotRecord
<1> HIDE DEF r
<1>19. Alone /\ slot'[a] = r
    BY <1>1, <1>3, <1>15, <1>17, SetSlot
<1>20. NextTurn /\ pc' \in {"prompts", "decode"} /\ (pc' = "prompts" => at' = a + 1)
    BY <1>1 DEF FillPrompt, NextSlot, NextTurn, Onward, cursor
<1>21. Turn
    BY <1>1, <1>3, <1>14, <1>19, <1>20, ZenonT(40) DEF Turn, FillPrompt, Shapes, cursor
<1>22. Kept
    <2>1. r.state # "idle" /\ r.state \notin {"wait", "generating"} /\ r.task = slot[a].task /\ ~Idle(a)
        BY <1>3, <1>12, <1>18 DEF Idle
    <2> QED
        BY <1>1, <1>3, <1>19, <2>1 DEF Kept, FillPrompt
<1>23. SlotOK(a)'
    <2>1. /\ slot'[a].nTokens = x /\ slot'[a].state = s1 /\ slot'[a].nDecoded = d1 /\ slot'[a].iBatch = i1
          /\ slot'[a].kv = start.nTokens /\ slot'[a].task = slot[a].task /\ slot'[a].dft = {}
        BY <1>12, <1>18, <1>19
    <2>2. Cells(a)'
        BY <1>12, <1>13, <1>14, <2>1 DEF Cells
    <2>3. Quiet(a)'
        BY <1>13, <1>14, <1>16, <2>1 DEF Quiet
    <2>4. Fits(a)'
        <3>1. NCtx \in Nat /\ NBatch \in Nat
            BY Sizes
        <3>2. n <= NCtx /\ (slot[a].task.kind = "completion" => n < NCtx)
            BY <1>2, <1>3, <3>1 DEF TooLarge, CanSplit, SmallerOf
        <3>3. x \in 0..NCtx /\ (s1 = "processing" => x < n) /\ (slot[a].task.kind = "completion" => x < NCtx)
            BY <1>3, <1>13, <3>1, <3>2
        <3>4. s1 # "generating"
            OBVIOUS
        <3> HIDE DEF x, s1
        <3> QED
            BY <1>2, <2>1, <3>3, <3>4 DEF Fits, Generating
    <2>5. Entered(a)'
        BY <1>1, <1>20, Sizes DEF Entered
    <2>6. InProgress(a)' /\ Draft(a)' /\ Budget(a)'
        BY <1>13, <1>16, <2>1 DEF InProgress, Draft, Budget, Generating
    <2>7. Sampleable(a)'
        <3> SUFFICES ASSUME done PROVE Sampleable(a)'
            BY <2>1, SMTT(20) DEF Sampleable
        <3>4. i1 = last /\ head' = 0
            BY <1>3 DEF Inv, Phases, FillPrompt, cursor
        <3>5. last \in L..(L + more - 1)
            BY <1>13, <1>16
        <3>6. last \in 0..(Len(batch') - 1)
            BY <1>8, <1>13, <1>16
        <3>1. i1 = last /\ last \in L..(L + more - 1) /\ last \in 0..(Len(batch') - 1) /\ head' = 0
            BY <3>4, <3>5, <3>6
        <3>2. batch'[last + 1].slot = a /\ batch'[last + 1].pos = start.nTokens + last - L
            BY <1>14, <3>1
        <3>3. batch'[last + 1].pos = x - 1
            BY <1>12, <1>13, <1>16, <3>2
        <3> QED
            BY <1>20, <2>1, <3>1, <3>2, <3>3 DEF Sampleable
    <2> QED
        BY <2>2, <2>3, <2>4, <2>5, <2>6, <2>7 DEF SlotOK
<1> QED
    BY <1>1, <1>21, <1>22, <1>23, TurnKeeps

-----------------------------------------------------------------------------
(* Between the loops                                                        *)

LEMMA SameLeft ==
    ASSUME UNCHANGED <<batch, head, view>>, NEW s \in Slots
    PROVE  Left(s)' = Left(s)
BY DEF Left, Decoded

(* An empty batch has nothing left.                                         *)
LEMMA EmptyLeft ==
    ASSUME batch' = <<>>, head' \in Nat, view' \in Nat, NEW s \in Slots
    PROVE  Left(s)' = {} /\ Cardinality(Left(s)') = 0
<1>1. Len(batch') = 0
    BY EmptySeq
<1>2. Left(s)' = {}
    BY <1>1 DEF Left, Decoded
<1> QED
    BY <1>2, FS_EmptySet

LEMMA SameTasks ==
    ASSUME Inv, UNCHANGED <<slot, launched, answer>>
    PROVE  Tasks' /\ AnswersOnce
BY DEF Inv, Tasks, AnswersOnce, OneTask, Idle, IsChild, IsParent

(* Between updates no prompt is done and no token waits to be sampled.      *)
LEMMA AtRest ==
    ASSUME Inv, NEW s \in Slots, pc \in {"rest", "shift"} \/ (pc = "decode" /\ head >= Len(batch))
    PROVE  /\ Left(s) = {} /\ slot[s].dft = {} /\ slot[s].state # "done"
           /\ Generating(s) => slot[s].iBatch = -1
<1>1. Shapes /\ SlotOK(s) /\ Phases
    BY DEF Inv
<1>2. head \in Nat /\ Len(batch) \in Nat /\ view = 0 /\ head >= Len(batch)
    BY <1>1, Bounds, EmptySeq DEF Phases
<1>3. Left(s) = {}
    BY <1>2 DEF Left, Decoded
<1>4. slot[s].state \in {"done", "generating"} => slot[s].iBatch = -1
    BY <1>1, <1>2 DEF SlotOK, Sampleable
<1>5. slot[s].dft = {}
    <2>1. (slot[s].dft \subseteq 0..(Len(batch) - 1) /\ head = 0) \/ slot[s].dft = {}
        BY <1>1 DEF SlotOK, Draft
    <2> QED
        BY <1>2, <2>1
<1> QED
    BY <1>1, <1>3, <1>4, <1>5 DEF SlotOK, InProgress, Generating

LEMMA BeginUpdateKeeps ==
    ASSUME Inv, BeginUpdate
    PROVE  Inv' /\ AnswersOnce
<1>1. /\ Shapes /\ Phases /\ pc = "rest" /\ pc' = "shift" /\ at' = 0
      /\ UNCHANGED <<params, slot, batch, lead, head, view, nBatch, launched, answer, torn>>
    BY DEF Inv, BeginUpdate, cursor
<1>2. Shapes' /\ Phases'
    BY <1>1, Sizes DEF Shapes, Phases
<1>3. ASSUME NEW s \in Slots PROVE SlotOK(s)'
    <2>1. SlotOK(s) /\ Left(s)' = Left(s) /\ s \in Nat /\ ~(s < 0)
        BY <1>1, SameLeft, Sizes DEF Inv
    <2>2. slot[s].dft = {} /\ slot[s].state # "done" /\ (Generating(s) => slot[s].iBatch = -1)
        BY <1>1, AtRest
    <2>3. Cells(s)' /\ Quiet(s)'
        BY <1>1, <2>1 DEF SlotOK, Cells, Quiet, Short, Stale, Stranded
    <2>4. Fits(s)' /\ Entered(s)'
        BY <1>1, <2>1 DEF SlotOK, Fits, Entered, Generating
    <2>5. Sampleable(s)' /\ InProgress(s)' /\ Draft(s)' /\ Budget(s)'
        BY <1>1, <2>1, <2>2 DEF SlotOK, Sampleable, InProgress, Draft, Budget, Generating
    <2> QED
        BY <2>3, <2>4, <2>5 DEF SlotOK
<1> QED
    BY <1>1, <1>2, <1>3, SameTasks DEF Inv

LEMMA CrashKeeps ==
    ASSUME Inv, Crash
    PROVE  Inv' /\ AnswersOnce
<1>1. /\ Shapes /\ Phases /\ pc = "verify" /\ pc' = "crashed"
      /\ UNCHANGED <<params, slot, at, batch, lead, head, view, nBatch, launched, answer, torn>>
    BY DEF Inv, Crash, cursor
<1>2. Shapes' /\ Phases'
    BY <1>1 DEF Shapes, Phases
<1>3. ASSUME NEW s \in Slots PROVE SlotOK(s)'
    <2>1. SlotOK(s) /\ Left(s)' = Left(s)
        BY <1>1, SameLeft DEF Inv
    <2>2. Cells(s)' /\ Quiet(s)'
        BY <1>1, <2>1 DEF SlotOK, Cells, Quiet, Short, Stale, Stranded
    <2>3. Fits(s)' /\ Entered(s)'
        BY <1>1, <2>1 DEF SlotOK, Fits, Entered, Generating
    <2>4. InProgress(s)' /\ Draft(s)' /\ Budget(s)'
        BY <1>1, <2>1 DEF SlotOK, InProgress, Draft, Budget, Generating, HasOutputs
    <2>5. Sampleable(s)'
        BY <1>1, <2>1 DEF SlotOK, Sampleable, Idle
    <2> QED
        BY <2>2, <2>3, <2>4, <2>5 DEF SlotOK
<1> QED
    BY <1>1, <1>2, <1>3, SameTasks DEF Inv

LEMMA Reset ==
    ASSUME Inv, ResetUpdate, UNCHANGED <<params, launched, torn>>
    PROVE  /\ params' \in Params /\ at' \in Slots /\ lead' \in Slots \cup {-1} /\ batch' \in Seq(Token)
           /\ pc' = "rest" /\ head' = 0 /\ view' = 0 /\ batch' = <<>> /\ Len(batch') = 0
           /\ nBatch' \in 1..NBatch
           /\ view' \in 0..NBatch /\ head' + view' <= Len(batch')
           /\ launched' \in 0..MaxTasks /\ torn' \in BOOLEAN /\ Phases'
BY Sizes, EmptySeq DEF Inv, Shapes, ResetUpdate, Phases

LEMMA EndUpdateKeeps ==
    ASSUME Inv, EndUpdate
    PROVE  Inv' /\ AnswersOnce
<1>1. /\ Shapes /\ Phases /\ pc = "decode" /\ head >= Len(batch) /\ ResetUpdate
      /\ UNCHANGED <<params, slot, launched, answer, torn>>
    BY DEF Inv, EndUpdate
<1>2. Shapes' /\ Phases' /\ pc' = "rest" /\ batch' = <<>> /\ head' = 0 /\ view' = 0
    BY <1>1, Reset DEF Shapes
<1>3. ASSUME NEW s \in Slots PROVE SlotOK(s)'
    <2>1. SlotOK(s) /\ Left(s)' = {}
        BY <1>2, EmptyLeft DEF Inv
    <2>2. /\ Left(s) = {} /\ slot[s].dft = {} /\ slot[s].state # "done"
          /\ Generating(s) => slot[s].iBatch = -1
        BY <1>1, AtRest
    <2>3. Cells(s)' /\ Quiet(s)'
        BY <1>1, <2>1, <2>2 DEF SlotOK, Cells, Quiet, Short, Stale, Stranded
    <2>4. Fits(s)' /\ Entered(s)'
        BY <1>1, <1>2, <2>1 DEF SlotOK, Fits, Entered, Generating
    <2>5. Sampleable(s)' /\ InProgress(s)' /\ Draft(s)' /\ Budget(s)'
        BY <1>1, <2>1, <2>2 DEF SlotOK, Sampleable, InProgress, Draft, Budget, Generating
    <2> QED
        BY <2>3, <2>4, <2>5 DEF SlotOK
<1> QED
    BY <1>1, <1>2, <1>3, SameTasks DEF Inv

(* A slot without a task, wherever no loop is adding tokens.                *)
LEMMA IdleSettled ==
    ASSUME NEW s \in Slots, slot'[s].state = "idle", slot'[s].dft = {},
           slot'[s].nTokens \in 0..NCtx, slot'[s].kv \in 0..NCtx,
           slot'[s].kv = slot'[s].nTokens \/ slot'[s].nTokens = 0,
           Left(s)' = {}, pc' \notin {"sampled", "prompts"}
    PROVE  SlotOK(s)'
<1>1. Cardinality(Left(s)') = 0
    BY FS_EmptySet
<1>2. Cells(s)'
    BY <1>1, Sizes DEF Cells, Stale, Stranded
<1>3. Quiet(s)' /\ Fits(s)' /\ InProgress(s)' /\ Draft(s)' /\ Budget(s)' /\ Sampleable(s)'
    BY DEF Quiet, Fits, InProgress, Draft, Budget, Sampleable, Generating
<1>4. Entered(s)'
    BY DEF Entered
<1> QED
    BY <1>2, <1>3, <1>4 DEF SlotOK

(* An idle slot, and any slot once it is released at rest, has as many      *)
(* cells as tokens, or stale cells.                                         *)
LEMMA CellsOf ==
    ASSUME Inv, NEW s \in Slots, Left(s) = {}, ~IsChild(slot[s])
    PROVE  /\ slot[s] \in SlotRecord /\ slot[s].nTokens \in 0..NCtx /\ slot[s].kv \in 0..NCtx
           /\ slot[s].kv = slot[s].nTokens \/ slot[s].nTokens = 0
<1>1. /\ SlotOK(s) /\ slot[s] \in SlotRecord /\ Cardinality(Left(s)) = 0
    BY FS_EmptySet DEF Inv, Shapes
<1>2. slot[s].nTokens \in 0..NCtx /\ slot[s].kv \in Int /\ slot[s].kv >= 0
    BY <1>1, FieldTypes DEF SlotOK, Fits, Cells
<1>3. \/ slot[s].kv = slot[s].nTokens
      \/ slot[s].nTokens = 0 /\ slot[s].kv <= NCtx
    BY <1>1, <1>2 DEF SlotOK, Cells, Short, Stale, Stranded
<1> QED
    BY <1>1, <1>2, <1>3, Sizes

LEMMA IdleSlot ==
    ASSUME Inv, NEW s \in Slots, Idle(s)
    PROVE  /\ Left(s) = {} /\ slot[s].dft = {} /\ ~IsChild(slot[s]) /\ slot[s].task = NoTask
           /\ slot[s].nTokens \in 0..NCtx /\ slot[s].kv \in 0..NCtx
           /\ slot[s].kv = slot[s].nTokens \/ slot[s].nTokens = 0
<1>1. SlotOK(s) /\ OneTask(s)
    BY DEF Inv, Tasks
<1>2. Left(s) = {} /\ slot[s].dft = {} /\ ~IsChild(slot[s]) /\ slot[s].task = NoTask
    BY <1>1, NoTaskType DEF SlotOK, Quiet, Draft, OneTask, Idle, IsChild, Generating
<1> QED
    BY <1>2, CellsOf

LEMMA RetryDecodeKeeps ==
    ASSUME Inv, RetryDecode
    PROVE  Inv' /\ AnswersOnce
<1>1. /\ Shapes /\ Phases /\ pc = "decode"
      /\ UNCHANGED <<params, pc, at, batch, lead, head, view, launched, answer, torn>>
    BY DEF Inv, RetryDecode, CanRetry
<1>2. /\ slot' \in [Slots -> SlotRecord]
      /\ \A s \in Slots : \/ slot'[s] = slot[s]
                          \/ Idle(s) /\ slot'[s] = Clear(slot[s]) /\ slot'[s] \in SlotRecord
    <2>1. CASE slot' = slot
        BY <1>1, <2>1 DEF Shapes
    <2>2. ASSUME NEW p \in Slots, Idle(p), slot' = [slot EXCEPT ![p] = Clear(@)]
          PROVE  /\ slot' \in [Slots -> SlotRecord]
                 /\ \A s \in Slots : \/ slot'[s] = slot[s]
                                     \/ Idle(s) /\ slot'[s] = Clear(slot[s]) /\ slot'[s] \in SlotRecord
        <3>1. slot[p] \in SlotRecord /\ Clear(slot[p]) \in SlotRecord
            BY <1>1, ClearFields DEF Shapes
        <3> QED
            BY <1>1, <2>2, <3>1 DEF Shapes
    <2> QED
        BY <2>1, <2>2 DEF RetryDecode, Purgeable, Purge
<1>3. /\ \A s \in Slots : /\ slot'[s].state = slot[s].state /\ slot'[s].task = slot[s].task
                          /\ slot'[s].dft = slot[s].dft
      /\ \A s \in Slots : slot'[s] = slot[s] \/ (Idle(s) /\ slot'[s].nTokens = 0 /\ slot'[s].kv = 0)
    BY <1>1, <1>2, ClearFields DEF Shapes
<1>4. nBatch' \in 1..NBatch
    <2>1. \A x \in Int : x > 1 => x \div 2 \in Int /\ x \div 2 >= 1 /\ x \div 2 <= x
        OBVIOUS
    <2> QED
        BY <1>1, <2>1, Sizes DEF RetryDecode, CanRetry, Shapes
<1>5. Shapes' /\ Phases'
    BY <1>1, <1>2, <1>4 DEF Shapes, Phases
<1>6. Tasks' /\ AnswersOnce
    BY <1>1, <1>3 DEF Inv, Tasks, OneTask, AnswersOnce, Idle, IsChild, IsParent
<1>7. ASSUME NEW s \in Slots PROVE SlotOK(s)'
    <2>1. SlotOK(s) /\ Left(s)' = Left(s)
        BY <1>1, SameLeft DEF Inv
    <2>2. CASE slot'[s] # slot[s]
        <3>1. Left(s)' = {} /\ slot'[s].dft = {} /\ slot'[s].state = "idle" /\ NCtx \in Nat
            BY <1>3, <2>1, <2>2, IdleSlot, Sizes DEF Idle
        <3> QED
            BY <1>1, <1>3, <2>2, <3>1, IdleSettled
    <2>3. CASE slot'[s] = slot[s]
        <3>1. Cells(s)' /\ Quiet(s)' /\ Fits(s)' /\ Entered(s)' /\ InProgress(s)' /\ Draft(s)' /\ Budget(s)'
            BY <1>1, <2>1, <2>3
            DEF SlotOK, Cells, Quiet, Fits, Entered, InProgress, Draft, Budget, Short, Stale, Stranded,
                Generating, HasOutputs
        <3>2. Sampleable(s)'
            <4> SUFFICES ASSUME slot[s].state \in {"done", "generating"}, slot[s].iBatch # -1
                         PROVE  Sampleable(s)'
                BY <2>3 DEF Sampleable
            <4>1. slot[s].iBatch \in head..(Len(batch) - 1)
                BY <2>1 DEF SlotOK, Sampleable
            <4>2. batch[slot[s].iBatch + 1].slot \in Slots
                <5>1. slot[s].iBatch + 1 \in 1..Len(batch)
                    BY <1>1, <4>1, Bounds
                <5> QED
                    BY <1>1, <5>1, BatchLength
            <4>3. PICK b : b = batch[slot[s].iBatch + 1]
                OBVIOUS
            <4> QED
                BY <1>1, <1>3, <2>1, <2>3, <4>2, <4>3 DEF SlotOK, Sampleable, Idle
        <3> QED
            BY <3>1, <3>2 DEF SlotOK
    <2> QED
        BY <2>2, <2>3
<1> QED
    BY <1>5, <1>6, <1>7 DEF Inv

LEMMA FailDecodeKeeps ==
    ASSUME Inv, FailDecode
    PROVE  Inv' /\ AnswersOnce
<1>1. /\ Shapes /\ Tasks /\ ResetUpdate /\ UNCHANGED <<params, launched, torn>>
      /\ slot' = [s \in Slots |-> IF Idle(s) THEN slot[s] ELSE Clear(Released(slot[s]))]
      /\ Answer({s \in Slots : ~Idle(s)}, "error")
    BY DEF Inv, FailDecode
<1>2. ASSUME NEW s \in Slots
      PROVE  /\ slot'[s] \in SlotRecord /\ slot'[s].state = "idle" /\ slot'[s].task = NoTask
             /\ slot'[s].dft = {} /\ slot'[s].nTokens \in 0..NCtx /\ slot'[s].kv \in 0..NCtx
             /\ slot'[s].kv = slot'[s].nTokens \/ slot'[s].nTokens = 0
    <2>1. slot[s] \in SlotRecord
        BY <1>1 DEF Shapes
    <2>2. CASE Idle(s)
        BY <1>1, <2>1, <2>2, IdleSlot DEF Idle
    <2>3. CASE ~Idle(s)
        <3>1. slot'[s] = Clear(Released(slot[s]))
            BY <1>1, <2>3
        <3>2. PICK r : r = Released(slot[s])
            OBVIOUS
        <3>3. r \in SlotRecord /\ r.state = "idle" /\ r.task = NoTask /\ r.dft = {}
            BY <2>1, <3>2, ReleasedFields
        <3>4. slot'[s] = Clear(r)
            BY <3>1, <3>2
        <3> QED
            BY <3>3, <3>4, ClearFields, Sizes
    <2> QED
        BY <2>2, <2>3
<1>3. /\ slot' \in [Slots -> SlotRecord]
      /\ answer' \in [1..MaxTasks -> {"none", "final", "error", "cancelled"}]
    BY <1>1, <1>2 DEF Answer, Shapes
<1>4. Shapes' /\ Phases' /\ pc' = "rest" /\ batch' = <<>> /\ head' = 0 /\ view' = 0
    BY <1>1, <1>3, Reset DEF Shapes
<1>5. ASSUME NEW s \in Slots PROVE SlotOK(s)'
    <2>1. Left(s)' = {}
        BY <1>4, EmptyLeft
    <2> QED
        BY <1>2, <1>4, <2>1, IdleSettled
<1>6. ASSUME NEW id \in 1..MaxTasks, answer'[id] # answer[id]
      PROVE  answer[id] = "none" /\ id \in 1..launched
    <2>1. PICK s \in Slots : ~Idle(s) /\ slot[s].task.id = id
        BY <1>1, <1>6 DEF Answer, Shapes
    <2> QED
        BY <1>1, <2>1 DEF Tasks, OneTask
<1>7. Tasks'
    <2>1. \A s \in Slots : OneTask(s)'
        BY <1>2, NoTaskType DEF OneTask, Idle, IsChild, IsParent
    <2>2. \A id \in 1..MaxTasks : id > launched => answer'[id] = "none"
        <3> SUFFICES ASSUME NEW id \in 1..MaxTasks, id > launched PROVE answer'[id] = "none"
            OBVIOUS
        <3>1. answer[id] = "none" /\ id \notin 1..launched
            BY <1>1, Sizes DEF Tasks, Shapes
        <3> QED
            BY <1>6, <3>1
    <2> QED
        BY <1>1, <1>2, <2>1, <2>2 DEF Tasks, Idle
<1>8. AnswersOnce
    <2>1. \A id \in 1..MaxTasks : id # NoTask.id
        BY NoTaskType DEF None
    <2> QED
        BY <1>2, <1>6, <2>1 DEF AnswersOnce
<1> QED
    BY <1>4, <1>5, <1>7, <1>8 DEF Inv

-----------------------------------------------------------------------------
(* Cancelling and launching, between updates                                *)

LEMMA CancelKeeps ==
    ASSUME Inv, NEW id \in 1..MaxTasks, Cancel(id)
    PROVE  Inv' /\ AnswersOnce
<1>1. /\ Shapes /\ Phases /\ Tasks /\ pc = "rest" /\ head = 0 /\ view = 0
      /\ slot' = [s \in Slots |-> IF s \in Family(id) THEN Released(slot[s]) ELSE slot[s]]
      /\ answer' = [i \in 1..MaxTasks |->
                     IF \E s \in Family(id) : slot[s].task.id = i THEN "cancelled" ELSE answer[i]]
      /\ UNCHANGED <<params, pc, at, batch, lead, head, view, nBatch, launched, torn>>
    BY DEF Inv, Shapes, Phases, Cancel, cursor
<1>2. \A s \in Slots : slot[s] \in SlotRecord
    BY <1>1 DEF Shapes
<1>3. ASSUME NEW s \in Slots, s \in Family(id)
      PROVE  /\ slot'[s] \in SlotRecord /\ slot'[s].state = "idle" /\ slot'[s].task = NoTask
             /\ slot'[s].dft = {} /\ slot'[s].nTokens \in 0..NCtx /\ slot'[s].kv \in 0..NCtx
             /\ slot'[s].kv = slot'[s].nTokens \/ slot'[s].nTokens = 0
    <2>1. slot'[s] = Released(slot[s]) /\ slot[s] \in SlotRecord /\ Left(s) = {}
        BY <1>1, <1>2, <1>3, AtRest
    <2>2. ~IsChild(slot[s]) => /\ slot[s].nTokens \in 0..NCtx /\ slot[s].kv \in 0..NCtx
                               /\ slot[s].kv = slot[s].nTokens \/ slot[s].nTokens = 0
        BY <2>1, CellsOf
    <2>3. NCtx \in Nat
        BY Sizes
    <2> QED
        BY <2>1, <2>2, <2>3, ReleasedFields
<1>4. \A s \in Slots : s \notin Family(id) => slot'[s] = slot[s]
    BY <1>1
<1>5. Shapes' /\ Phases'
    <2>1. slot' \in [Slots -> SlotRecord]
        BY <1>1, <1>2, <1>3, <1>4
    <2>2. answer' \in [1..MaxTasks -> {"none", "final", "error", "cancelled"}]
        BY <1>1 DEF Shapes
    <2> QED
        BY <1>1, <2>1, <2>2 DEF Shapes, Phases
<1>6. ASSUME NEW i \in 1..MaxTasks, answer'[i] # answer[i]
      PROVE  \E s \in Slots : s \in Family(id) /\ ~Idle(s) /\ slot[s].task.id = i
    BY <1>1, <1>6 DEF Family
<1>7. /\ \A s \in Slots : OneTask(s)
      /\ \A s1, s2 \in Slots : ~Idle(s1) /\ slot[s1].task.id = slot[s2].task.id => s1 = s2
      /\ \A i \in 1..MaxTasks : i > launched => answer[i] = "none"
      /\ launched \in Nat /\ 1..launched \subseteq 1..MaxTasks
    BY <1>1, Sizes DEF Tasks, Shapes
<1>8. NoTask.id = 0 /\ NoTask.parent = None /\ NoTask.copies = 0
    BY NoTaskType DEF None
<1>9. ASSUME NEW s \in Slots PROVE OneTask(s)'
    <2>1. CASE s \in Family(id)
        BY <1>3, <1>8, <2>1 DEF OneTask, Idle, IsChild, IsParent
    <2>2. CASE s \notin Family(id)
        <3>1. ~Idle(s) => answer'[slot[s].task.id] = answer[slot[s].task.id]
            BY <1>6, <1>7, <2>2 DEF OneTask
        <3>2. OneTask(s) /\ slot'[s] = slot[s]
            BY <1>4, <1>7, <2>2
        <3> QED
            BY <1>1, <3>1, <3>2 DEF OneTask, Idle
    <2> QED
        BY <2>1, <2>2
<1>10. Tasks'
    <2>1. ASSUME NEW s1 \in Slots, NEW s2 \in Slots,
                 slot'[s1].state # "idle", slot'[s1].task.id = slot'[s2].task.id
          PROVE  s1 = s2
        <3>1. s1 \notin Family(id) /\ slot'[s1] = slot[s1] /\ ~Idle(s1)
            BY <1>3, <1>4, <2>1 DEF Idle
        <3>2. s2 \notin Family(id)
            BY <1>3, <1>7, <1>8, <2>1, <3>1 DEF OneTask
        <3> QED
            BY <1>4, <1>7, <2>1, <3>1, <3>2
    <2>2. ASSUME NEW i \in 1..MaxTasks, i > launched PROVE answer'[i] = "none"
        <3>1. i \notin 1..launched
            BY <1>7, <2>2
        <3> QED
            BY <1>6, <1>7, <2>2, <3>1 DEF OneTask
    <2> QED
        BY <1>1, <1>9, <2>1, <2>2 DEF Tasks, Idle
<1>11. AnswersOnce
    <2> SUFFICES ASSUME NEW i \in 1..MaxTasks, answer'[i] # answer[i]
                 PROVE  answer[i] = "none" /\ \A s \in Slots : slot'[s].task.id # i
        BY DEF AnswersOnce
    <2>1. PICK t \in Slots : t \in Family(id) /\ ~Idle(t) /\ slot[t].task.id = i
        BY <1>6
    <2>2. ASSUME NEW s \in Slots PROVE slot'[s].task.id # i
        <3>1. s \in Family(id) => slot'[s].task.id = 0
            BY <1>3, <1>8
        <3>2. s \notin Family(id) => slot'[s] = slot[s] /\ s # t
            BY <1>4, <2>1
        <3> QED
            BY <1>7, <2>1, <3>1, <3>2
    <2> QED
        BY <1>7, <2>1, <2>2 DEF OneTask
<1>12. ASSUME NEW s \in Slots PROVE SlotOK(s)'
    <2>1. Left(s)' = Left(s) /\ Left(s) = {}
        BY <1>1, SameLeft, AtRest
    <2>2. CASE s \in Family(id)
        BY <1>1, <1>3, <2>1, <2>2, IdleSettled
    <2>3. CASE s \notin Family(id)
        <3>1. /\ SlotOK(s) /\ slot'[s] = slot[s] /\ slot[s].dft = {} /\ slot[s].state # "done"
              /\ Generating(s) => slot[s].iBatch = -1
            BY <1>1, <1>4, <2>3, AtRest DEF Inv
        <3>2. Cells(s)' /\ Quiet(s)' /\ Fits(s)' /\ Entered(s)'
            BY <1>1, <2>1, <3>1, SMTT(20)
            DEF SlotOK, Cells, Quiet, Fits, Entered, Short, Stale, Stranded, Generating
        <3>3. Sampleable(s)' /\ InProgress(s)' /\ Draft(s)' /\ Budget(s)'
            BY <1>1, <2>1, <3>1 DEF SlotOK, Sampleable, InProgress, Draft, Budget, Generating
        <3> QED
            BY <3>2, <3>3 DEF SlotOK
    <2> QED
        BY <2>2, <2>3
<1> QED
    BY <1>5, <1>10, <1>11, <1>12 DEF Inv

(* An idle slot starts with a task, or waits for its parent with it.        *)
StartFields(r, state, task) == [r EXCEPT !.state = state, !.task = task]
LEMMA Started ==
    ASSUME NEW r \in SlotRecord, NEW state \in States, NEW task \in TaskRecord
    PROVE  /\ StartFields(r, state, task) \in SlotRecord
           /\ StartFields(r, state, task).state = state /\ StartFields(r, state, task).task = task
           /\ StartFields(r, state, task).nTokens = r.nTokens
           /\ StartFields(r, state, task).kv = r.kv /\ StartFields(r, state, task).dft = r.dft
<1> DEFINE r1 == [r EXCEPT !.state = state]
           r2 == [r1 EXCEPT !.task = task]
<1>1. r2 \in SlotRecord
    <2>1. r1 \in SlotRecord
        BY FieldUpdates
    <2> HIDE DEF r1
    <2> QED
        BY <2>1, FieldUpdates
<1>2. StartFields(r, state, task) = r2
    BY DEF StartFields
<1>3. r2.state = state /\ r2.task = task /\ r2.nTokens = r.nTokens /\ r2.kv = r.kv /\ r2.dft = r.dft
    BY DEF SlotRecord
<1> HIDE DEF r2
<1> QED
    BY <1>1, <1>2, <1>3

LEMMA LaunchKeeps ==
    ASSUME Inv, NEW s \in Slots, NEW q \in Requests, Launch(s, q)
    PROVE  Inv' /\ AnswersOnce
<1> DEFINE id == launched + 1
           C == ChildSlots(s)
<1>1. /\ Shapes /\ Phases /\ Tasks /\ pc = "rest" /\ Idle(s)
      /\ Cardinality(C) >= q.copies /\ launched + 1 + q.copies <= MaxTasks
      /\ launched' = id + q.copies
      /\ UNCHANGED <<params, pc, at, batch, lead, head, view, nBatch, answer, torn>>
    BY DEF Inv, Launch, cursor
<1>2. slot' = [c \in Slots |->
                IF c = s THEN StartFields(slot[c], "started", Task(q, id, None))
                ELSE IF c \in Taken(s, q)
                THEN StartFields(slot[c], "wait", Task(q, id + Place(s, c), id))
                ELSE slot[c]]
    BY DEF Launch, StartFields
<1>3. /\ launched \in Nat /\ MaxTasks \in Nat /\ id \in Nat /\ id > launched /\ id # None
      /\ q.copies \in Nat /\ (q.copies > 0 => q.kind = "completion")
    BY <1>1, Sizes, TaskFields DEF Shapes, None
<1>4. /\ C \subseteq Int /\ IsFiniteSet(C)
      /\ \A c \in C : c \in Slots /\ c # s /\ Idle(c)
    <2>1. IsFiniteSet(Slots) /\ Slots \subseteq Int
        BY Sizes, FS_Interval
    <2>2. C \subseteq Slots
        BY DEF ChildSlots
    <2> QED
        BY <2>1, <2>2, FS_Subset DEF ChildSlots
<1>5. \A c : Place(s, c) = Rank(C, c)
    BY DEF Place, Rank
<1>6. /\ \A c \in C : Place(s, c) \in Nat /\ Place(s, c) >= 1
      /\ \A c, d \in C : Place(s, c) = Place(s, d) => c = d
    <2>1. /\ \A x \in C : Rank(C, x) \in 1..Cardinality(C)
          /\ \A x, y \in C : Rank(C, x) = Rank(C, y) => x = y
        BY <1>4, RankCounts
    <2>2. Cardinality(C) \in Nat
        BY <1>4, FS_CardinalityType
    <2> HIDE DEF C
    <2> QED
        BY <1>5, <2>1, <2>2
<1>7. ASSUME NEW c \in Taken(s, q)
      PROVE  /\ c \in C /\ c \in Slots /\ c # s /\ Idle(c)
             /\ Place(s, c) \in Nat /\ Place(s, c) >= 1 /\ Place(s, c) <= q.copies
             /\ q.kind = "completion"
    <2>1. c \in C /\ Place(s, c) <= q.copies
        BY DEF Taken
    <2> HIDE DEF C
    <2> QED
        BY <1>3, <1>4, <1>6, <2>1
<1> HIDE DEF C
<1> DEFINE p == Task(q, id, None)
<1>8. /\ slot[s] \in SlotRecord /\ slot'[s] \in SlotRecord
      /\ slot'[s].state = "started" /\ slot'[s].nTokens = slot[s].nTokens
      /\ slot'[s].kv = slot[s].kv /\ slot'[s].dft = slot[s].dft
      /\ slot'[s].task.id = id /\ slot'[s].task.parent = None /\ slot'[s].task.copies = q.copies
      /\ slot'[s].task.kind = q.kind /\ q.kind \in {"completion", "embedding"}
    <2>1. /\ p \in TaskRecord /\ p.id = id /\ p.parent = None /\ p.kind = q.kind
          /\ p.copies = q.copies /\ q.kind \in {"completion", "embedding"}
        <3>1. None \in Nat
            BY DEF None
        <3> QED
            BY <1>3, <3>1, TaskFields
    <2>2. slot'[s] = StartFields(slot[s], "started", p) /\ slot[s] \in SlotRecord
        BY <1>1, <1>2 DEF Shapes
    <2>3. "started" \in States
        BY DEF States
    <2> HIDE DEF p
    <2> QED
        BY <2>1, <2>2, <2>3, Started
<1>9. ASSUME NEW c \in Taken(s, q)
      PROVE  /\ slot[c] \in SlotRecord /\ slot'[c] \in SlotRecord
             /\ slot'[c].state = "wait" /\ slot'[c].nTokens = slot[c].nTokens
             /\ slot'[c].kv = slot[c].kv /\ slot'[c].dft = slot[c].dft
             /\ slot'[c].task.id = id + Place(s, c) /\ slot'[c].task.parent = id
             /\ slot'[c].task.copies = 0 /\ slot'[c].task.kind = "completion"
    <2>1. PICK t : t = Task(q, id + Place(s, c), id)
        OBVIOUS
    <2>2. id + Place(s, c) \in Nat
        BY <1>3, <1>7
    <2>3. t \in TaskRecord /\ t.id = id + Place(s, c) /\ t.parent = id /\ t.kind = q.kind /\ t.copies = 0
        BY <1>3, <2>1, <2>2, TaskFields
    <2>4. slot'[c] = StartFields(slot[c], "wait", t) /\ slot[c] \in SlotRecord
        BY <1>1, <1>2, <1>7, <2>1 DEF Shapes
    <2>5. "wait" \in States
        BY DEF States
    <2> QED
        BY <1>7, <2>3, <2>4, <2>5, Started
<1>10. \A c \in Slots : c # s /\ c \notin Taken(s, q) => slot'[c] = slot[c]
    BY <1>2
<1>11. launched' \in 0..MaxTasks /\ launched' \in Nat /\ launched' >= id
    BY <1>1, <1>3
<1>12. Shapes' /\ Phases'
    <2>1. slot' \in [Slots -> SlotRecord]
        BY <1>1, <1>2, <1>8, <1>9, <1>10 DEF Shapes
    <2> QED
        BY <1>1, <1>11, <2>1 DEF Shapes, Phases
<1>13. /\ \A c \in Slots : OneTask(c)
       /\ \A s1, s2 \in Slots : ~Idle(s1) /\ slot[s1].task.id = slot[s2].task.id => s1 = s2
       /\ \A i \in 1..MaxTasks : i > launched => answer[i] = "none"
    BY <1>1 DEF Tasks
<1>14. ASSUME NEW c \in Slots PROVE OneTask(c)'
    <2>1. CASE c = s
        <3>1. id \in 1..launched' /\ id \in 1..MaxTasks /\ answer'[id] = "none"
            BY <1>1, <1>3, <1>11, <1>13
        <3> HIDE DEF id
        <3> QED
            BY <1>3, <1>8, <2>1, <3>1 DEF OneTask, Idle, IsChild, IsParent
    <2>2. CASE c \in Taken(s, q)
        <3>1. /\ id + Place(s, c) \in 1..launched' /\ id + Place(s, c) \in 1..MaxTasks
              /\ id + Place(s, c) > launched
            BY <1>1, <1>3, <1>7, <2>2
        <3>2. answer'[id + Place(s, c)] = "none"
            BY <1>1, <1>13, <3>1
        <3> HIDE DEF id
        <3> QED
            BY <1>3, <1>9, <2>2, <3>1, <3>2 DEF OneTask, Idle, IsChild, IsParent
    <2>3. CASE c # s /\ c \notin Taken(s, q)
        <3>1. slot'[c] = slot[c] /\ OneTask(c) /\ 1..launched \subseteq 1..launched'
            BY <1>3, <1>10, <1>11, <1>13, <2>3
        <3> QED
            BY <1>1, <3>1 DEF OneTask, Idle
    <2> QED
        BY <2>1, <2>2, <2>3
<1>15. Tasks'
    <2>1. ASSUME NEW c \in Slots, c # s /\ c \notin Taken(s, q)
          PROVE  slot'[c].task.id \in Nat /\ slot'[c].task.id <= launched
                 /\ (slot'[c].state # "idle" <=> ~Idle(c))
        <3>1. slot'[c] = slot[c] /\ OneTask(c)
            BY <1>10, <1>13, <2>1
        <3> QED
            BY <1>3, <3>1, NoTaskType DEF OneTask, Idle, None
    <2>2. ASSUME NEW s1 \in Slots, NEW s2 \in Slots,
                 slot'[s1].state # "idle", slot'[s1].task.id = slot'[s2].task.id
          PROVE  s1 = s2
        <3>1. CASE s1 # s /\ s1 \notin Taken(s, q)
            <4>1. slot'[s2].task.id <= launched /\ slot'[s1] = slot[s1] /\ ~Idle(s1)
                BY <1>10, <2>1, <2>2, <3>1
            <4>2. s2 # s /\ s2 \notin Taken(s, q)
                BY <1>3, <1>7, <1>8, <1>9, <4>1
            <4> QED
                BY <1>10, <1>13, <2>2, <3>1, <4>1, <4>2
        <3>2. CASE s1 = s
            <4>1. slot'[s2].task.id = id
                BY <1>8, <2>2, <3>2
            <4> HIDE DEF id
            <4> QED
                BY <1>3, <1>7, <1>9, <2>1, <3>2, <4>1
        <3>3. CASE s1 \in Taken(s, q)
            <4>1. slot'[s2].task.id = id + Place(s, s1) /\ Place(s, s1) \in Nat /\ Place(s, s1) >= 1
                BY <1>7, <1>9, <2>2, <3>3
            <4> HIDE DEF id
            <4>2. s2 \in Taken(s, q)
                BY <1>3, <1>8, <2>1, <4>1
            <4>3. Place(s, s2) = Place(s, s1)
                BY <1>3, <1>7, <1>9, <4>1, <4>2
            <4> QED
                BY <1>6, <1>7, <3>3, <4>2, <4>3
        <3> QED
            BY <3>1, <3>2, <3>3
    <2>3. ASSUME NEW i \in 1..MaxTasks, i > launched' PROVE answer'[i] = "none"
        BY <1>1, <1>3, <1>11, <1>13, <2>3
    <2> QED
        BY <1>14, <2>2, <2>3 DEF Tasks, Idle
<1>16. ASSUME NEW c \in Slots PROVE SlotOK(c)'
    <2>1. Left(c)' = {} /\ Left(c) = {} /\ SlotOK(c) /\ slot[c].dft = {} /\ slot[c].state # "done"
          /\ (Generating(c) => slot[c].iBatch = -1) /\ Cardinality(Left(c)') = 0
        BY <1>1, SameLeft, AtRest, FS_EmptySet DEF Inv
    <2>2. CASE c = s \/ c \in Taken(s, q)
        <3>1. /\ slot'[c].state \in {"started", "wait"} /\ slot'[c].dft = {}
              /\ slot'[c].nTokens \in 0..NCtx /\ slot'[c].kv \in 0..NCtx
              /\ slot'[c].kv = slot'[c].nTokens \/ slot'[c].nTokens = 0
            BY <1>1, <1>7, <1>8, <1>9, <2>2, IdleSlot
        <3>2. Cells(c)'
            BY <2>1, <3>1, Sizes DEF Cells, Stale, Stranded
        <3> QED
            BY <1>1, <2>1, <3>1, <3>2
            DEF SlotOK, Quiet, Fits, Entered, Sampleable, InProgress, Draft, Budget, Generating
    <2>3. CASE c # s /\ c \notin Taken(s, q)
        <3>1. slot'[c] = slot[c]
            BY <1>10, <2>3
        <3>2. Cells(c)' /\ Quiet(c)' /\ Fits(c)' /\ Entered(c)'
            BY <1>1, <2>1, <3>1, SMTT(20)
            DEF SlotOK, Cells, Quiet, Fits, Entered, Short, Stale, Stranded, Generating
        <3>3. Sampleable(c)' /\ InProgress(c)' /\ Draft(c)' /\ Budget(c)'
            BY <1>1, <2>1, <3>1 DEF SlotOK, Sampleable, InProgress, Draft, Budget, Generating
        <3> QED
            BY <3>2, <3>3 DEF SlotOK
    <2> QED
        BY <2>2, <2>3
<1>17. AnswersOnce
    BY <1>1 DEF AnswersOnce
<1> QED
    BY <1>12, <1>15, <1>16, <1>17, SMTT(20) DEF Inv

-----------------------------------------------------------------------------
(* Decoding a view                                                          *)

LEMMA ViewBounds ==
    ASSUME Shapes, head < Len(batch), NEW n, n = ViewSize
    PROVE  n \in Nat /\ n >= 1 /\ n \in 0..NBatch /\ head + n <= Len(batch) /\ n \in Int
<1>1. /\ head \in Nat /\ Len(batch) \in Nat /\ nBatch \in Int /\ nBatch >= 1 /\ nBatch <= NBatch
      /\ NBatch \in Nat
    BY Bounds, Sizes DEF Shapes
<1> QED
    BY <1>1 DEF ViewSize, SmallerOf

(* The tokens of a slot left to decode are those in the view and those      *)
(* after it.                                                                *)
LEMMA ViewCells ==
    ASSUME Shapes, view = 0, NEW n \in Nat, head + n <= Len(batch), view' = n, UNCHANGED <<head, batch>>,
           NEW s \in Slots
    PROVE  /\ Cardinality(InView(s, n)) \in Nat /\ Cardinality(Left(s)') \in Nat
           /\ Cardinality(Left(s)) = Cardinality(InView(s, n)) + Cardinality(Left(s)')
           /\ Left(s)' \subseteq Left(s)
           /\ \A i \in Left(s)' : i \in Int /\ i >= head + n
<1>1. head \in Nat /\ Len(batch) \in Nat
    BY Bounds
<1> DEFINE V == InView(s, n)
           R == {i \in (head + n)..(Len(batch) - 1) : batch[i + 1].slot = s}
<1>2. Left(s)' = R
    BY DEF Left, Decoded
<1>3. Left(s) = {i \in head..(Len(batch) - 1) : batch[i + 1].slot = s}
    BY <1>1 DEF Left, Decoded
<1>4. /\ \A i : i \in head..(Len(batch) - 1) <=>
                i \in head..(head + n - 1) \/ i \in (head + n)..(Len(batch) - 1)
      /\ \A i : ~(i \in head..(head + n - 1) /\ i \in (head + n)..(Len(batch) - 1))
    BY <1>1
<1>5. Left(s) = V \cup R /\ V \cap R = {}
    BY <1>3, <1>4 DEF InView
<1>6. IsFiniteSet(V) /\ IsFiniteSet(R)
    <2>1. IsFiniteSet(head..(head + n - 1)) /\ IsFiniteSet((head + n)..(Len(batch) - 1))
        <3>1. head \in Int /\ head + n - 1 \in Int /\ head + n \in Int /\ Len(batch) - 1 \in Int
            BY <1>1
        <3> QED
            BY <3>1, FS_Interval
    <2>2. V \subseteq head..(head + n - 1) /\ R \subseteq (head + n)..(Len(batch) - 1)
        BY DEF InView
    <2> QED
        BY <2>1, <2>2, FS_Subset
<1>7. \A i \in R : i \in Int /\ i >= head + n
    BY <1>1
<1> HIDE DEF V, R
<1>8. Cardinality(V \cup R) = Cardinality(V) + Cardinality(R) - Cardinality(V \cap R)
    BY <1>6, FS_Union
<1>9. Cardinality(V) \in Nat /\ Cardinality(R) \in Nat /\ Cardinality(V \cap R) = 0
    BY <1>5, <1>6, FS_CardinalityType, FS_EmptySet
<1>10. Cardinality(V \cup R) = Cardinality(V) + Cardinality(R)
    BY <1>8, <1>9
<1> QED
    BY <1>2, <1>5, <1>7, <1>9, <1>10 DEF V

(* What a slot becomes: it has the cells of the view, or is a child that    *)
(* starts with its parent's state.                                          *)
WithView(s, n) == slot[s].kv + Cardinality(InView(s, n))
Advanced(s, n) ==
    /\ slot'[s].state = slot[s].state /\ slot'[s].nTokens = slot[s].nTokens
    /\ slot'[s].iBatch = slot[s].iBatch /\ slot'[s].nDecoded = slot[s].nDecoded
    /\ slot'[s].nRemaining = slot[s].nRemaining
    /\ slot'[s].kv = WithView(s, n)
Activated(c, p, n) ==
    /\ slot[p].state = "done" /\ IsParent(slot[p]) /\ WaitingOn(c, p)
    /\ slot'[c].state = "done" /\ slot'[c].nTokens = slot[p].nTokens
    /\ slot'[c].iBatch = slot[p].iBatch /\ slot'[c].nDecoded = slot[p].nDecoded
    /\ slot'[c].kv = WithView(p, n)

LEMMA DecodeSlots ==
    ASSUME Inv, Decode, NEW n \in Nat, n = ViewSize, NEW c \in Slots
    PROVE  /\ slot'[c] \in SlotRecord /\ slot'[c].task = slot[c].task /\ slot'[c].dft = slot[c].dft
           /\ Advanced(c, n) \/ \E p \in Slots : Activated(c, p, n)
<1> DEFINE D(s) == [slot[s] EXCEPT !.kv = WithView(s, n)]
           parents == {s \in Slots : slot[s].state = "done" /\ IsParent(slot[s]) /\ WaitingOn(c, s)}
<1>1. slot'[c] = IF parents = {} THEN D(c) ELSE CopyState(D(c), D(CHOOSE s \in parents : TRUE))
    BY SMTT(30) DEF Decode, WithView
<1>2. ASSUME NEW s \in Slots
      PROVE  /\ D(s) \in SlotRecord /\ D(s).kv = WithView(s, n) /\ D(s).state = slot[s].state
             /\ D(s).nTokens = slot[s].nTokens /\ D(s).iBatch = slot[s].iBatch
             /\ D(s).nDecoded = slot[s].nDecoded /\ D(s).nRemaining = slot[s].nRemaining
             /\ D(s).task = slot[s].task /\ D(s).dft = slot[s].dft
    <2>1. slot[s] \in SlotRecord /\ WithView(s, n) \in Int
        <3>1. slot[s] \in SlotRecord /\ Shapes /\ view = 0 /\ head < Len(batch)
            BY DEF Inv, Shapes, Phases, Decode
        <3>2. IsFiniteSet(InView(s, n))
            <4>1. IsFiniteSet(head..(head + n - 1))
                BY <3>1, Bounds, FS_Interval
            <4>2. InView(s, n) \subseteq head..(head + n - 1)
                BY DEF InView
            <4> QED
                BY <4>1, <4>2, FS_Subset
        <3>3. Cardinality(InView(s, n)) \in Int /\ slot[s].kv \in Int
            BY <3>1, <3>2, FS_CardinalityType, FieldTypes
        <3> QED
            BY <3>1, <3>3 DEF WithView
    <2> QED
        BY <2>1 DEF SlotRecord
<1> HIDE DEF D
<1>3. CASE parents = {}
    BY <1>1, <1>2, <1>3 DEF Advanced
<1>4. CASE parents # {}
    <2>1. PICK p : p = CHOOSE s \in parents : TRUE
        OBVIOUS
    <2>2. p \in parents
        BY <1>4, <2>1
    <2>3. slot'[c] = CopyState(D(c), D(p)) /\ p \in Slots
        BY <1>1, <1>4, <2>1, <2>2
    <2>4. /\ slot'[c] \in SlotRecord /\ slot'[c].state = "done" /\ slot'[c].kv = D(p).kv
          /\ slot'[c].nTokens = D(p).nTokens /\ slot'[c].nDecoded = D(p).nDecoded
          /\ slot'[c].iBatch = D(p).iBatch /\ slot'[c].task = D(c).task /\ slot'[c].dft = D(c).dft
        BY <1>2, <2>3, CopyFields
    <2> QED
        BY <1>2, <2>2, <2>3, <2>4 DEF Activated
<1> QED
    BY <1>3, <1>4

LEMMA DecodeKeeps ==
    ASSUME Inv, Decode
    PROVE  Inv' /\ AnswersOnce
<1>1. PICK n : n = ViewSize
    OBVIOUS
<1>2. /\ Shapes /\ Phases /\ Tasks /\ pc = "decode" /\ head < Len(batch) /\ view = 0
      /\ view' = n /\ nBatch' = NBatch /\ pc' = "sample" /\ at' = 0
      /\ torn' = (torn \/ Tears(head + n))
      /\ UNCHANGED <<params, batch, lead, head, launched, answer>>
      /\ DOMAIN slot' = Slots
    BY <1>1 DEF Inv, Decode, Phases
<1>3. n \in Nat /\ n >= 1 /\ n \in 0..NBatch /\ head + n <= Len(batch) /\ n \in Int /\ head \in Nat
    BY <1>1, <1>2, ViewBounds DEF Shapes
<1>4. \A c \in Slots :
        /\ slot'[c] \in SlotRecord /\ slot'[c].task = slot[c].task /\ slot'[c].dft = slot[c].dft
        /\ Advanced(c, n) \/ \E p \in Slots : Activated(c, p, n)
    BY <1>1, <1>3, DecodeSlots
<1>5. \A c \in Slots : slot'[c].state = slot[c].state \/ (slot[c].state = "wait" /\ slot'[c].state = "done")
    BY <1>4 DEF Advanced, Activated, WaitingOn
<1>6. Shapes' /\ Phases'
    <2>1. slot' \in [Slots -> SlotRecord]
        <3>1. slot' = [c \in Slots |-> slot'[c]]
            BY DEF Decode
        <3> QED
            BY <1>4, <3>1
    <2>2. at' \in Slots /\ nBatch' \in 1..NBatch /\ torn' \in BOOLEAN
        BY <1>2, Sizes DEF Shapes
    <2> QED
        BY <1>2, <1>3, <2>1, <2>2 DEF Shapes, Phases
<1>7. Tasks'
    <2>1. ASSUME NEW c \in Slots PROVE OneTask(c)'
        <3>1. OneTask(c) /\ slot'[c].task = slot[c].task
            BY <1>2, <1>4 DEF Tasks
        <3> QED
            BY <1>2, <1>5, <3>1 DEF OneTask, Idle, IsChild, IsParent
    <2> QED
        BY <1>2, <1>4, <1>5, <2>1 DEF Tasks, Idle
<1>8. ASSUME NEW s \in Slots
      PROVE  /\ SlotOK(s) /\ OneTask(s) /\ slot[s] \in SlotRecord
             /\ Cardinality(InView(s, n)) \in Nat /\ Cardinality(Left(s)') \in Nat
             /\ Cardinality(Left(s)) = Cardinality(InView(s, n)) + Cardinality(Left(s)')
             /\ Left(s)' \subseteq Left(s)
             /\ \A i \in Left(s)' : i \in Int /\ i >= head + n
    BY <1>2, <1>3, ViewCells DEF Inv, Shapes, Tasks
<1>9. ASSUME NEW s \in Slots, slot[s].state \in {"done", "generating"}, slot[s].iBatch # -1
      PROVE  /\ slot[s].iBatch \in head'..(Len(batch') - 1) /\ slot[s].dft = {}
             /\ batch'[slot[s].iBatch + 1].pos = slot[s].nTokens - 1
             /\ \/ batch'[slot[s].iBatch + 1].slot = s
                \/ IsChild(slot[s])
                   /\ (\/ slot'[batch'[slot[s].iBatch + 1].slot].state = "idle"
                       \/ slot'[batch'[slot[s].iBatch + 1].slot].task.id = slot[s].task.parent)
    <2>1. PICK b : b = batch[slot[s].iBatch + 1]
        OBVIOUS
    <2>2. /\ slot[s].iBatch \in head..(Len(batch) - 1) /\ slot[s].dft = {} /\ b.pos = slot[s].nTokens - 1
          /\ b.slot = s \/ (IsChild(slot[s]) /\ (Idle(b.slot) \/ slot[b.slot].task.id = slot[s].task.parent))
        BY <1>8, <1>9, <2>1 DEF SlotOK, Sampleable
    <2>3. b.slot \in Slots
        <3>1. slot[s].iBatch + 1 \in 1..Len(batch)
            BY <1>3, <2>2, <1>2, Bounds
        <3> QED
            BY <1>2, <2>1, <3>1, BatchLength
    <2> QED
        BY <1>2, <1>4, <1>5, <2>1, <2>2, <2>3 DEF Idle
<1>10. ASSUME NEW s \in Slots, Advanced(s, n) PROVE SlotOK(s)'
    <2>1. /\ slot'[s].state = slot[s].state /\ slot'[s].nTokens = slot[s].nTokens
          /\ slot'[s].iBatch = slot[s].iBatch /\ slot'[s].nDecoded = slot[s].nDecoded
          /\ slot'[s].nRemaining = slot[s].nRemaining
          /\ slot'[s].kv = slot[s].kv + Cardinality(InView(s, n))
          /\ slot'[s].task = slot[s].task /\ slot'[s].dft = slot[s].dft
        BY <1>4, <1>10 DEF Advanced, WithView
    <2>2. Cells(s)'
        <3>1. slot[s].kv \in Int /\ slot[s].nTokens \in Int
            BY <1>8, FieldTypes
        <3>2. Short(s) => Short(s)'
            BY <1>2, <2>1 DEF Short, IsChild
        <3>3. Left(s) = {} => Left(s)' = {} /\ Cardinality(InView(s, n)) = 0
            BY <1>8, FS_EmptySet
        <3>4. Stale(s) => Stale(s)'
            BY <2>1, <3>1, <3>3 DEF Stale, Stranded
        <3> QED
            BY <1>8, <2>1, <3>1, <3>2, <3>4 DEF SlotOK, Cells
    <2>3. Quiet(s)' /\ Fits(s)' /\ Entered(s)' /\ InProgress(s)' /\ Budget(s)'
        BY <1>2, <1>8, <2>1 DEF SlotOK, Quiet, Fits, Entered, InProgress, Budget, Generating
    <2>4. Sampleable(s)'
        <3>1. ~(pc' = "verify" \/ (pc' = "sample" /\ s < at'))
            BY <1>2, Sizes
        <3> QED
            BY <1>9, <2>1, <3>1 DEF Sampleable, Idle, IsChild
    <2>5. Draft(s)'
        <3> SUFFICES ASSUME slot[s].dft # {} PROVE Draft(s)'
            BY <2>1 DEF Draft
        <3>1. Draft(s) /\ head = 0 /\ slot[s].dft \subseteq Nat
            BY <1>8, FieldTypes DEF SlotOK, Draft
        <3>2. ~torn' => slot[s].dft \subseteq 0..(n - 1)
            <4> SUFFICES ASSUME ~Tears(head + n) PROVE slot[s].dft \subseteq 0..(n - 1)
                BY <1>2
            <4>1. \A i \in slot[s].dft : ~(head + n <= i)
                BY DEF Tears
            <4> QED
                BY <1>3, <3>1, <4>1
        <3> QED
            BY <1>2, <2>1, <3>1, <3>2 DEF Draft, Generating, HasOutputs
    <2> QED
        BY <2>2, <2>3, <2>4, <2>5 DEF SlotOK
<1>11. ASSUME NEW c \in Slots, NEW p \in Slots, Activated(c, p, n) PROVE SlotOK(c)'
    <2>1. /\ slot'[c].state = "done" /\ slot'[c].nTokens = slot[p].nTokens
          /\ slot'[c].iBatch = slot[p].iBatch /\ slot'[c].nDecoded = slot[p].nDecoded
          /\ slot'[c].kv = slot[p].kv + Cardinality(InView(p, n))
          /\ slot'[c].task = slot[c].task /\ slot'[c].dft = slot[c].dft
          /\ slot[p].state = "done" /\ IsParent(slot[p])
          /\ slot[c].state = "wait" /\ slot[c].task.parent = slot[p].task.id
        BY <1>4, <1>11 DEF Activated, WaitingOn, WithView
    <2>2. /\ ~IsChild(slot[p]) /\ slot[p].task.kind = "completion" /\ slot[c].task.kind = "completion"
          /\ slot[p].task.id >= 1
        <3>1. OneTask(p) /\ OneTask(c) /\ launched \in 0..MaxTasks
            BY <1>2, <1>8 DEF Shapes
        <3> QED
            BY <2>1, <3>1, Sizes DEF OneTask, Idle
    <2>3. slot[c].task.parent # None
        BY <2>1, <2>2 DEF None
    <2>4. /\ slot[p].iBatch # -1 /\ slot[p].nDecoded = 0 /\ slot[p].dft = {} /\ slot[c].dft = {}
          /\ slot[p].nTokens \in 0..NCtx /\ slot[p].nTokens < NCtx
        BY <1>8, <2>1, <2>2 DEF SlotOK, InProgress, Draft, Fits, Generating
    <2>5. Left(c)' = {} /\ Cardinality(Left(c)') = 0
        BY <1>8, <2>1, FS_EmptySet DEF SlotOK, Quiet
    <2>6. slot[p].kv \in Int /\ slot[p].kv >= 0 /\ slot[p].kv + Cardinality(Left(p)) = slot[p].nTokens
        BY <1>8, <2>1, <2>2, FieldTypes DEF SlotOK, Cells, Short, Stale
    <2>7. ~torn' => Cardinality(Left(p)') = 0
        <3> SUFFICES ASSUME ~Tears(head + n) PROVE Left(p)' = {}
            BY <1>2, FS_EmptySet
        <3>1. ~(head + n <= slot[p].iBatch) /\ slot[p].iBatch \in Int
            BY <1>8, <2>1, FieldTypes DEF Tears
        <3>2. \A i \in Left(p) : i <= slot[p].iBatch
            BY <1>8, <2>1, <2>4 DEF SlotOK, Quiet
        <3> QED
            BY <1>3, <1>8, <3>1, <3>2
    <2>8. Cells(c)'
        <3>1. slot'[c].kv >= 0 /\ slot'[c].kv + Cardinality(Left(p)') = slot'[c].nTokens
            BY <1>8, <2>1, <2>4, <2>6
        <3>2. torn' => Short(c)'
            BY <2>1, <2>3 DEF Short, IsChild
        <3>3. slot'[c].kv \in Int /\ slot'[c].nTokens \in Int
            BY <1>4, FieldTypes
        <3>4. torn' => slot'[c].kv + 0 <= slot'[c].nTokens
            BY <1>8, <3>1, <3>3
        <3>5. ~torn' => slot'[c].kv + 0 = slot'[c].nTokens
            BY <2>7, <3>1, <3>3
        <3> QED
            BY <1>2, <2>5, <3>1, <3>2, <3>4, <3>5 DEF Cells, Shapes
    <2>9. Quiet(c)' /\ Fits(c)' /\ Entered(c)' /\ InProgress(c)' /\ Draft(c)' /\ Budget(c)'
        BY <1>2, <2>1, <2>4, <2>5
        DEF Quiet, Fits, Entered, InProgress, Draft, Budget, Generating
    <2>10. Sampleable(c)'
        <3>1. /\ slot[p].iBatch \in head'..(Len(batch') - 1)
              /\ batch'[slot[p].iBatch + 1].pos = slot[p].nTokens - 1
              /\ batch'[slot[p].iBatch + 1].slot = p
            BY <1>9, <2>1, <2>2, <2>4
        <3>2. ~(pc' = "verify" \/ (pc' = "sample" /\ c < at'))
            BY <1>2, Sizes
        <3>3. slot'[p].task.id = slot'[c].task.parent /\ slot'[c].task.parent # None
            BY <1>4, <2>1, <2>3
        <3> QED
            BY <2>1, <2>4, <3>1, <3>2, <3>3 DEF Sampleable, IsChild, Idle
    <2> QED
        BY <2>8, <2>9, <2>10 DEF SlotOK
<1>12. AnswersOnce
    BY <1>2 DEF AnswersOnce
<1> QED
    BY <1>4, <1>6, <1>7, <1>10, <1>11, <1>12 DEF Inv

-----------------------------------------------------------------------------
(* The invariant                                                            *)

LEMMA InitInv == Init => Inv
<1> SUFFICES ASSUME Init PROVE Inv
    OBVIOUS
<1>1. Fresh \in SlotRecord
    BY NoTaskType DEF Fresh, SlotRecord, States
<1>2. \A s \in Slots : /\ slot[s] = Fresh /\ slot[s].state = "idle" /\ slot[s].task = NoTask
                       /\ slot[s].nTokens = 0 /\ slot[s].kv = 0 /\ slot[s].dft = {}
    BY DEF Init, Fresh
<1>3. batch = <<>> /\ Len(batch) = 0 /\ batch \in Seq(Token)
    BY EmptySeq DEF Init
<1>4. Shapes
    BY <1>1, <1>3, Sizes DEF Init, Shapes
<1>5. Phases
    BY DEF Init, Phases
<1>6. Tasks
    BY <1>2, NoTaskType DEF Init, Tasks, OneTask, Idle, IsChild, IsParent
<1>7. ASSUME NEW s \in Slots PROVE SlotOK(s)
    <2>1. Left(s) = {} /\ Cardinality(Left(s)) = 0
        BY <1>3, FS_EmptySet DEF Init, Left, Decoded
    <2>2. NCtx \in Nat
        BY Sizes
    <2>3. Cells(s) /\ Quiet(s)
        BY <1>2, <2>1 DEF Cells, Quiet
    <2>4. Fits(s) /\ Entered(s) /\ Sampleable(s) /\ InProgress(s) /\ Draft(s) /\ Budget(s)
        BY <1>2, <2>2
        DEF Init, Fits, Entered, Sampleable, InProgress, Draft, Budget, Generating
    <2> QED
        BY <2>3, <2>4 DEF SlotOK
<1> QED
    BY <1>4, <1>5, <1>6, <1>7 DEF Inv

LEMMA NextInv ==
    ASSUME Inv, [Next]_vars
    PROVE  Inv' /\ AnswersOnce
<1>1. CASE Step
    <2>1. CASE BeginUpdate
        BY <2>1, BeginUpdateKeeps
    <2>2. CASE NoShift \/ SkipSampled \/ SkipPrompt \/ SkipSample \/ SkipVerify
        BY <2>2, SkipKeeps DEF Skip
    <2>3. CASE ShiftRefused
        BY <2>3, ShiftRefusedKeeps
    <2>4. CASE Shift
        BY <2>4, ShiftKeeps
    <2>5. CASE AddSampled
        BY <2>5, AddSampledKeeps
    <2>6. CASE AddDraft
        BY <2>6, AddDraftKeeps
    <2>7. CASE EndPrompt
        BY <2>7, EndPromptKeeps
    <2>8. CASE WaitForBatch
        BY <2>8, WaitForBatchKeeps
    <2>9. CASE FillPrompt
        BY <2>9, FillPromptKeeps
    <2>10. CASE Decode
        BY <2>10, DecodeKeeps
    <2>11. CASE RetryDecode
        BY <2>11, RetryDecodeKeeps
    <2>12. CASE FailDecode
        BY <2>12, FailDecodeKeeps
    <2>13. CASE EndUpdate
        BY <2>13, EndUpdateKeeps
    <2>14. CASE SendEmbedding
        BY <2>14, SendEmbeddingKeeps
    <2>15. CASE SampleToken
        BY <2>15, SampleTokenKeeps
    <2>16. CASE VerifyDraft
        BY <2>16, VerifyDraftKeeps
    <2>17. CASE Crash
        BY <2>17, CrashKeeps
    <2> QED
        BY <1>1, <2>1, <2>2, <2>3, <2>4, <2>5, <2>6, <2>7, <2>8, <2>9, <2>10, <2>11, <2>12, <2>13,
           <2>14, <2>15, <2>16, <2>17 DEF Step
<1>2. ASSUME NEW s \in Slots, NEW q \in Requests, Launch(s, q) PROVE Inv' /\ AnswersOnce
    BY <1>2, LaunchKeeps
<1>3. ASSUME NEW id \in 1..MaxTasks, Cancel(id) PROVE Inv' /\ AnswersOnce
    BY <1>3, CancelKeeps
<1>4. CASE UNCHANGED vars
    <2>1. /\ UNCHANGED <<params, slot, pc, at, batch, lead, head, view, nBatch, launched, answer, torn>>
        BY <1>4 DEF vars
    <2>2. Shapes' /\ Phases'
        BY <2>1 DEF Inv, Shapes, Phases
    <2>3. Tasks' /\ AnswersOnce
        BY <2>1, SameTasks
    <2>4. ASSUME NEW s \in Slots PROVE SlotOK(s)'
        <3>1. SlotOK(s) /\ Left(s)' = Left(s)
            BY <2>1, SameLeft DEF Inv
        <3>2. Cells(s)' /\ Quiet(s)' /\ Fits(s)' /\ Entered(s)' /\ InProgress(s)' /\ Draft(s)' /\ Budget(s)'
            BY <2>1, <3>1
            DEF SlotOK, Cells, Quiet, Fits, Entered, InProgress, Draft, Budget, Short, Stale, Stranded,
                Generating, HasOutputs
        <3>3. Sampleable(s)'
            BY <2>1, <3>1 DEF SlotOK, Sampleable, Idle, Decoded
        <3> QED
            BY <3>2, <3>3 DEF SlotOK
    <2> QED
        BY <2>2, <2>3, <2>4 DEF Inv
<1> QED
    BY <1>1, <1>2, <1>3, <1>4 DEF Next

LEMMA Invariance == Spec => []Inv
<1> QED
    BY InitInv, NextInv, PTL DEF Spec

-----------------------------------------------------------------------------
(* What the invariant says of the properties                                *)

LEMMA LeftCount ==
    ASSUME Shapes, NEW s \in Slots
    PROVE  Cardinality(Left(s)) \in Nat
<1>1. Decoded \in Int /\ Len(batch) - 1 \in Int
    BY Bounds
<1>2. IsFiniteSet(Decoded..(Len(batch) - 1))
    BY <1>1, FS_Interval
<1>3. Left(s) \subseteq Decoded..(Len(batch) - 1)
    BY DEF Left
<1> QED
    BY <1>2, <1>3, FS_Subset, FS_CardinalityType

LEMMA InvTypeOK == Inv => TypeOK
<1> SUFFICES ASSUME Inv PROVE TypeOK
    OBVIOUS
<1>1. Shapes
    BY DEF Inv
<1>2. head \in 0..Len(batch)
    BY <1>1, Bounds
<1>3. \A id \in DOMAIN answer : answer[id] \in {"none", "final", "error", "cancelled"}
    BY <1>1 DEF Shapes
<1>4. ASSUME NEW s \in Slots
      PROVE  /\ slot[s].state \in {"idle", "started", "wait", "processing", "done", "generating"}
             /\ slot[s].nTokens \in 0..NCtx /\ slot[s].kv \in 0..NCtx
             /\ slot[s].dft \subseteq 0..(Len(batch) - 1)
    <2>1. SlotOK(s) /\ slot[s] \in SlotRecord /\ slot[s].kv \in Int /\ slot[s].state \in States
        BY <1>1, FieldTypes DEF Inv, Shapes
    <2>2. slot[s].nTokens \in 0..NCtx /\ NCtx \in Nat
        BY <2>1, Sizes DEF SlotOK, Fits
    <2>3. Cardinality(Left(s)) \in Nat
        BY <1>1, LeftCount
    <2>4. slot[s].kv \in 0..NCtx
        BY <2>1, <2>2, <2>3 DEF SlotOK, Cells, Stale
    <2> QED
        BY <2>1, <2>2, <2>4 DEF SlotOK, Draft, States
<1> QED
    BY <1>1, <1>2, <1>3, <1>4 DEF Shapes, TypeOK

LEMMA InvKvMatchesPrompt == Inv => KvMatchesPrompt
<1> SUFFICES ASSUME Inv, pc = "rest", ~torn, NEW s \in Slots
             PROVE  slot[s].kv = slot[s].nTokens \/ Stranded(s)
    BY DEF KvMatchesPrompt
<1>1. SlotOK(s) /\ slot[s].kv \in Int /\ slot[s].nTokens \in Int
    BY FieldTypes DEF Inv, Shapes
<1>2. Cardinality(Left(s)) = 0
    BY AtRest, FS_EmptySet
<1> QED
    BY <1>1, <1>2 DEF SlotOK, Cells, Short, Stale

LEMMA InvOwnLogits == Inv => OwnLogits
<1> SUFFICES ASSUME Inv, pc \in {"sample", "verify"}, ~torn, NEW s \in Slots, s >= at
             PROVE  /\ pc = "sample" /\ Sampled(s) =>
                        /\ batch[slot[s].iBatch + 1].pos = slot[s].nTokens - 1
                        /\ \/ batch[slot[s].iBatch + 1].slot = s
                           \/ slot[batch[slot[s].iBatch + 1].slot].task.id = slot[s].task.parent
                           \/ (IsChild(slot[s]) /\ Idle(batch[slot[s].iBatch + 1].slot))
                    /\ pc = "verify" /\ Drafted(s) =>
                        HasOutputs(s) /\ \A i \in slot[s].dft : batch[i + 1].slot = s
    BY DEF OwnLogits
<1>1. SlotOK(s) /\ view > 0 /\ head \in Nat /\ view \in Nat
    BY Bounds DEF Inv, Phases
<1>2. ASSUME Sampled(s)
      PROVE  /\ batch[slot[s].iBatch + 1].pos = slot[s].nTokens - 1
             /\ \/ batch[slot[s].iBatch + 1].slot = s
                \/ slot[batch[slot[s].iBatch + 1].slot].task.id = slot[s].task.parent
                \/ (IsChild(slot[s]) /\ Idle(batch[slot[s].iBatch + 1].slot))
    <2>1. slot[s].iBatch # -1
        BY <1>1, <1>2 DEF Sampled
    <2> QED
        BY <1>1, <1>2, <2>1 DEF SlotOK, Sampleable, Sampled
<1>3. ASSUME Drafted(s) PROVE HasOutputs(s) /\ \A i \in slot[s].dft : batch[i + 1].slot = s
    <2>1. Draft(s) /\ slot[s].dft # {}
        BY <1>1, <1>3 DEF SlotOK, Drafted
    <2> QED
        BY <1>1, <2>1 DEF Draft
<1> QED
    BY <1>2, <1>3

LEMMA InvRoom ==
    Inv => (pc = "shift" /\ ~params.ctx_shift => \A s \in Slots : ~NeedsShift(s))
<1> SUFFICES ASSUME Inv, pc = "shift", ~params.ctx_shift, NEW s \in Slots, Generating(s)
             PROVE  ~(slot[s].nTokens + 1 >= NCtx)
    BY DEF NeedsShift
<1>1. SlotOK(s) /\ slot[s].dft = {} /\ slot[s].iBatch = -1
    BY AtRest DEF Inv
<1>2. slot[s].nTokens + 1 < NCtx /\ slot[s].nTokens \in Int /\ NCtx \in Int
    BY <1>1, Sizes DEF SlotOK, Fits
<1> QED
    BY <1>2

(* The count of a slot that has sampled, or is about to.                    *)
WithinBudget(s) == slot[s].nDecoded <= LargerOf(slot[s].task.n_predict, 1)
Samples(s) == slot[s].state \in {"done", "generating"} /\ slot[s].task.n_predict # -1
LEMMA InvBudget ==
    ASSUME Inv, NEW s \in Slots, Samples(s)
    PROVE  /\ WithinBudget(s) /\ slot[s].nDecoded + 1 <= LargerOf(slot[s].task.n_predict, 1)
           /\ slot[s].nDecoded \in Int /\ slot[s].task.n_predict \in Int
<1>1. /\ SlotOK(s) /\ slot[s].nDecoded \in Int /\ slot[s].task.n_predict \in Int
      /\ slot[s].nRemaining \in Int
    BY FieldTypes DEF Inv, Shapes
<1>2. CASE slot[s].state = "done"
    <2>1. slot[s].nDecoded = 0
        BY <1>1, <1>2 DEF SlotOK, InProgress
    <2> QED
        BY <1>1, <2>1 DEF WithinBudget, LargerOf
<1>3. CASE slot[s].state = "generating"
    <2>1. slot[s].task.n_predict - slot[s].nDecoded > 0
        BY <1>1, <1>3 DEF SlotOK, Budget, Generating, Samples
    <2> QED
        BY <1>1, <2>1 DEF WithinBudget, LargerOf
<1> QED
    BY <1>2, <1>3 DEF Samples

(* Only sampling and verification count.                                    *)
LEMMA CountKept ==
    ASSUME Inv, [Next]_vars, ~SampleToken, ~VerifyDraft, NEW s \in Slots, Samples(s)
    PROVE  slot'[s].nDecoded = slot[s].nDecoded
<1>1. /\ Shapes /\ slot[s] \in SlotRecord /\ at \in Slots /\ ~Idle(s)
      /\ slot[s].state \in {"done", "generating"} /\ slot \in [Slots -> SlotRecord]
    BY DEF Inv, Shapes, Samples, Idle
<1>2. CASE slot' = slot
    BY <1>2
<1>3. CASE ShiftRefused \/ EndPrompt
    BY <1>1, <1>3, ReleasedFields DEF ShiftRefused, EndPrompt
<1>4. CASE Shift
    BY <1>1, <1>4 DEF Shift, SlotRecord
<1>5. CASE AddSampled
    BY <1>1, <1>5 DEF AddSampled, SlotRecord
<1>6. CASE AddDraft
    BY <1>1, <1>6 DEF AddDraft, SlotRecord
<1>7. CASE WaitForBatch
    BY <1>1, <1>7 DEF WaitForBatch, SlotRecord
<1>8. CASE FillPrompt
    <2>1. s # at
        BY <1>1, <1>8 DEF FillPrompt, HasPrompt
    <2> QED
        BY <1>1, <1>8, <2>1 DEF FillPrompt
<1>9. CASE Decode
    <2>1. PICK n : n = ViewSize
        OBVIOUS
    <2>2. n \in Nat
        BY <1>1, <1>9, <2>1, ViewBounds DEF Decode
    <2>3. Advanced(s, n) \/ \E p \in Slots : Activated(s, p, n)
        BY <1>9, <2>1, <2>2, DecodeSlots
    <2> QED
        BY <1>1, <2>3 DEF Advanced, Activated, WaitingOn
<1>10. CASE RetryDecode
    BY <1>1, <1>10 DEF RetryDecode, Purgeable
<1>11. CASE FailDecode
    <2>1. slot'[s] = Clear(Released(slot[s]))
        BY <1>1, <1>11 DEF FailDecode
    <2>2. Released(slot[s]) \in SlotRecord /\ Released(slot[s]).nDecoded = slot[s].nDecoded
        BY <1>1, ReleasedFields
    <2> QED
        BY <2>1, <2>2, ClearFields
<1>12. CASE SendEmbedding
    <2>1. Released(slot[at]) \in SlotRecord /\ Released(slot[at]).nDecoded = slot[at].nDecoded
        BY <1>1, ReleasedFields
    <2> QED
        BY <1>1, <1>12, <2>1 DEF SendEmbedding, SlotRecord
<1>13. ASSUME NEW c \in Slots, NEW q \in Requests, Launch(c, q)
       PROVE  slot'[s].nDecoded = slot[s].nDecoded
    <2>1. s # c /\ s \notin Taken(c, q)
        BY <1>1, <1>13 DEF Launch, Taken, ChildSlots
    <2> QED
        BY <1>1, <1>13, <2>1 DEF Launch
<1>14. ASSUME NEW id \in 1..MaxTasks, Cancel(id)
       PROVE  slot'[s].nDecoded = slot[s].nDecoded
    BY <1>1, <1>14, ReleasedFields DEF Cancel
<1>15. CASE Step
    <2>1. CASE BeginUpdate \/ NoShift \/ SkipSampled \/ SkipPrompt \/ SkipSample \/ SkipVerify \/ Crash \/ EndUpdate
        BY <1>2, <2>1 DEF BeginUpdate, NoShift, SkipSampled, SkipPrompt, SkipSample, SkipVerify, Crash, EndUpdate
    <2> QED
        BY <1>3, <1>4, <1>5, <1>6, <1>7, <1>8, <1>9, <1>10, <1>11, <1>12, <1>15, <2>1 DEF Step
<1> QED
    BY <1>2, <1>13, <1>14, <1>15 DEF Next, vars

LEMMA StepBudget ==
    ASSUME Inv, [Next]_vars
    PROVE  \A s \in Slots : slot[s].state \in {"done", "generating"} /\ slot[s].task.n_predict # -1 =>
                slot'[s].nDecoded <= LargerOf(slot[s].task.n_predict, 1)
<1> SUFFICES ASSUME NEW s \in Slots, Samples(s)
             PROVE  slot'[s].nDecoded <= LargerOf(slot[s].task.n_predict, 1)
    BY DEF Samples
<1>1. /\ WithinBudget(s) /\ slot[s].nDecoded + 1 <= LargerOf(slot[s].task.n_predict, 1)
      /\ slot[s].task.n_predict \in Int
    BY InvBudget
<1>2. CASE ~SampleToken /\ ~VerifyDraft
    BY <1>1, <1>2, CountKept DEF WithinBudget
<1>3. CASE SampleToken
    <2>1. CASE s = at
        BY <1>1, <1>3, <2>1, SampleTokenKeeps
    <2>2. CASE s # at
        <3>1. slot'[s] = slot[s]
            BY <1>3, <2>2 DEF Inv, Shapes, SampleToken
        <3> QED
            BY <1>1, <3>1 DEF WithinBudget
    <2> QED
        BY <2>1, <2>2
<1>4. CASE VerifyDraft
    <2>1. CASE s = at
        <3>1. slot'[s].nDecoded <= slot[s].task.n_predict
            BY <1>4, <2>1, VerifyDraftKeeps DEF Samples
        <3>2. slot'[s].nDecoded \in Int
            BY <1>4, VerifyDraftKeeps, FieldTypes DEF Inv, Shapes
        <3> QED
            BY <1>1, <3>1, <3>2 DEF LargerOf
    <2>2. CASE s # at
        <3>1. slot'[s] = slot[s]
            BY <1>4, <2>2 DEF Inv, Shapes, VerifyDraft
        <3> QED
            BY <1>1, <3>1 DEF WithinBudget
    <2> QED
        BY <2>1, <2>2
<1> QED
    BY <1>2, <1>3, <1>4

-----------------------------------------------------------------------------
(* The theorems                                                             *)

(* Every variable keeps its type: no prompt and no cells past the context,  *)
(* no draft index past the batch, whatever n_batch and the drafts are.      *)
THEOREM TypeCorrect == Spec => []TypeOK
<1> QED
    BY Invariance, InvTypeOK, PTL

(* update_slots leaves in the memory of a slot the cells of its prompt:     *)
(* what the batch still has to add to them is counted on the way, through   *)
(* shifts, roll-backs, retries, purges and failures.                        *)
THEOREM CellsFollowPrompt == Spec => []KvMatchesPrompt
<1> QED
    BY Invariance, InvKvMatchesPrompt, PTL

(* A slot samples from the output of its own last token, a child from its   *)
(* parent's, and verifies a draft with outputs of its own tokens, as long   *)
(* as no view ends inside a draft or a shared prompt.                       *)
THEOREM SamplesOwn == Spec => []OwnLogits
<1> QED
    BY Invariance, InvOwnLogits, PTL

(* send_final_response, send_embedding, send_error and cancellation answer  *)
(* a task once, in the step in which its slot is released.                  *)
THEOREM OneAnswer == Spec => AnsweredOnce
<1>1. Inv /\ [Next]_vars =>
        [\A id \in 1..MaxTasks : answer'[id] # answer[id] =>
            /\ answer[id] = "none"
            /\ \A s \in Slots : slot'[s].task.id # id]_vars
    BY NextInv DEF AnswersOnce
<1> QED
    BY <1>1, Invariance, PTL DEF Spec, AnsweredOnce

(* process_token stops a slot before its context or its n_predict is        *)
(* exceeded, and get_n_draft_max keeps the drafts within both.              *)
THEOREM Limits == Spec => WithinLimits
<1>1. Inv /\ [Next]_vars =>
        [\A s \in Slots : slot[s].state \in {"done", "generating"} /\ slot[s].task.n_predict # -1 =>
            slot'[s].nDecoded <= LargerOf(slot[s].task.n_predict, 1)]_vars
    BY StepBudget
<1> QED
    BY <1>1, Invariance, InvRoom, PTL DEF Spec, WithinLimits
=============================================================================
