------------------------ MODULE AnswerStream_proofs ------------------------
(***************************************************************************)
(* What AnswerStream says of the text of a slot holds for any tokens, stop *)
(* words and limits, and for any parser of chat messages.                  *)
(*                                                                         *)
(* While it generates, a slot has all that was sampled as its text, and    *)
(* what was sent of it is its beginning (Inv).  That text has no stop word *)
(* which the search could have found, and no stop word begins in what was  *)
(* sent and may yet go on behind it (Covered).                             *)
(***************************************************************************)
EXTENDS AnswerStream, TLAPS, SequenceTheorems, WellFoundedInduction

-----------------------------------------------------------------------------
(* What the helpers return, and the order of numbers.                       *)

(* A nonempty set of naturals has a least element: what stands for           *)
(* induction where the induction theorems cannot be instantiated.           *)
LEMMA LeastElement ==
    ASSUME NEW S, S \subseteq Nat, S # {}
    PROVE  \E x \in S : \A y \in S : x =< y
<1>1. \E x \in S : \A y \in S : ~(<<y, x>> \in OpToRel(<, Nat))
    BY NatLessThanWellFounded, WFMin
<1>2. PICK x \in S : \A y \in S : ~(<<y, x>> \in OpToRel(<, Nat))
    BY <1>1
<1>3. \A y \in S : x =< y
    <2> SUFFICES ASSUME NEW y \in S, y < x PROVE FALSE
        OBVIOUS
    <2>1. <<y, x>> \in OpToRel(<, Nat)
        BY DEF OpToRel
    <2> QED
        BY <2>1, <1>2
<1> QED
    BY <1>3

(* Min returns it.                                                          *)
LEMMA MinIsElement ==
    ASSUME NEW S, S \subseteq Nat, S # {}
    PROVE  Min(S) \in S /\ \A y \in S : Min(S) =< y
    BY LeastElement DEF Min

(* The recursive function of FlattenSeq exists, and is the same for two     *)
(* sequences as far as they agree.                                          *)
IsFlat(g, q, len) ==
    g = [i \in 1..len |-> IF i = 1 THEN q[i] ELSE g[i - 1] \o q[i]]

LEMMA FlatStep ==
    ASSUME NEW f, NEW q, NEW n, IsFlat(f, q, n), NEW k \in 1..n
    PROVE  f[k] = IF k = 1 THEN q[k] ELSE f[k - 1] \o q[k]
BY DEF IsFlat

LEMMA FlatExists ==
    ASSUME NEW q, NEW len \in Nat
    PROVE  \E g : IsFlat(g, q, len)
<1> DEFINE body(g, i) == IF i = 1 THEN q[i] ELSE g[i - 1] \o q[i]
           Bad == {n \in Nat : ~(\E g : g = [i \in 1..n |-> body(g, i)])}
<1>1. CASE Bad = {}
    BY <1>1 DEF IsFlat
<1>2. CASE Bad # {}
    <2>1. PICK n \in Bad : \A y \in Bad : n =< y
        <3> HIDE DEF Bad
        <3>1. Bad \subseteq Nat
            BY DEF Bad
        <3> QED
            BY <3>1, <1>2, LeastElement
    <2>2. CASE n = 0
        <3> DEFINE g == [i \in 1..0 |-> <<>>]
        <3>1. g = [i \in 1..0 |-> body(g, i)]
            OBVIOUS
        <3> QED
            BY <3>1, <2>2
    <2>3. CASE n # 0
        <3>1. n - 1 \in Nat /\ n - 1 \notin Bad
            <4>1. n \in Nat
                OBVIOUS
            <4> HIDE DEF Bad
            <4> QED
                BY <4>1, <2>1, <2>3
        <3>2. PICK g : g = [i \in 1..(n - 1) |-> body(g, i)]
            BY <3>1
        <3> DEFINE h == [i \in 1..n |-> IF i = n THEN body(g, n) ELSE g[i]]
        <3>3. ASSUME NEW i \in 1..n PROVE h[i] = body(h, i)
            <4>1. i # 1 => i - 1 \in 1..(n - 1) /\ i - 1 \in 1..n /\ i - 1 # n
                OBVIOUS
            <4>2. i # 1 => h[i - 1] = g[i - 1]
                BY <4>1
            <4>3. body(h, i) = body(g, i)
                BY <4>2
            <4>4. i # n => i \in 1..(n - 1)
                OBVIOUS
            <4>5. i # n => g[i] = body(g, i)
                BY <4>4, <3>2
            <4> QED
                BY <4>3, <4>5
        <3>4. h = [i \in 1..n |-> body(h, i)]
            BY <3>3
        <3> QED
            BY <3>4
    <2> QED
        BY <2>2, <2>3
<1> QED
    BY <1>1, <1>2

LEMMA FlatAgrees ==
    ASSUME NEW f, NEW q, NEW m \in Nat, IsFlat(f, q, m),
           NEW g, NEW r, NEW n \in Nat, IsFlat(g, r, n),
           m <= n, \A i \in 1..m : q[i] = r[i], NEW k \in 1..m
    PROVE  f[k] = g[k]
<1> DEFINE Bad == {i \in 1..m : f[i] # g[i]}
<1>1. SUFFICES ASSUME Bad # {} PROVE FALSE
    OBVIOUS
<1>2. PICK i \in Bad : \A y \in Bad : i =< y
    <2>1. Bad \subseteq Nat
        OBVIOUS
    <2> HIDE DEF Bad
    <2> QED
        BY <1>1, <2>1, LeastElement
<1>3. i \in 1..m /\ i \in 1..n /\ f[i] # g[i] /\ q[i] = r[i]
    OBVIOUS
<1>4. /\ f[i] = IF i = 1 THEN q[i] ELSE f[i - 1] \o q[i]
      /\ g[i] = IF i = 1 THEN r[i] ELSE g[i - 1] \o r[i]
    BY <1>3 DEF IsFlat
<1>5. i # 1 => f[i - 1] = g[i - 1]
    <2>1. i # 1 => i - 1 \in 1..m /\ ~(i =< i - 1)
        BY <1>3
    <2> QED
        BY <1>2, <2>1
<1> QED
    BY <1>3, <1>4, <1>5

LEMMA FlatOf ==
    ASSUME NEW S, NEW q \in Seq(Seq(S)), q # <<>>
    PROVE  \E f : IsFlat(f, q, Len(q)) /\ FlattenSeq(q) = f[Len(q)]
<1> DEFINE f == CHOOSE g : IsFlat(g, q, Len(q))
<1>1. Len(q) \in Nat /\ Len(q) # 0
    BY EmptySeq
<1>2. IsFlat(f, q, Len(q))
    <2> HIDE DEF f
    <2> QED
        BY <1>1, FlatExists DEF f
<1>3. FlattenSeq(q) = f[Len(q)]
    BY <1>1 DEF FlattenSeq, IsFlat
<1> HIDE DEF f
<1> QED
    BY <1>2, <1>3

LEMMA FlatTypes ==
    ASSUME NEW S, NEW q \in Seq(Seq(S)), NEW f, IsFlat(f, q, Len(q)), NEW k \in 1..Len(q)
    PROVE  f[k] \in Seq(S)
<1> DEFINE Bad == {i \in 1..Len(q) : f[i] \notin Seq(S)}
<1>0. Len(q) \in Nat /\ \A i \in 1..Len(q) : q[i] \in Seq(S)
    BY LenProperties, ElementOfSeq
<1>1. SUFFICES ASSUME Bad # {} PROVE FALSE
    OBVIOUS
<1>2. PICK i \in Bad : \A y \in Bad : i =< y
    <2>1. Bad \subseteq Nat
        BY <1>0
    <2> HIDE DEF Bad
    <2> QED
        BY <1>1, <2>1, LeastElement
<1>3. i \in 1..Len(q) /\ f[i] \notin Seq(S) /\ q[i] \in Seq(S)
    BY <1>0
<1>4. f[i] = IF i = 1 THEN q[i] ELSE f[i - 1] \o q[i]
    BY <1>3 DEF IsFlat
<1>5. i # 1 => f[i - 1] \in Seq(S)
    <2>1. i # 1 => i - 1 \in 1..Len(q) /\ ~(i =< i - 1)
        BY <1>0, <1>3
    <2> QED
        BY <1>2, <2>1
<1> QED
    BY <1>3, <1>4, <1>5, ConcatProperties

LEMMA FlattenTypes ==
    ASSUME NEW S, NEW q \in Seq(Seq(S))
    PROVE  FlattenSeq(q) \in Seq(S)
<1>1. CASE q = <<>>
    BY <1>1, EmptySeq DEF FlattenSeq
<1>2. CASE q # <<>>
    <2>1. PICK f : IsFlat(f, q, Len(q)) /\ FlattenSeq(q) = f[Len(q)]
        BY <1>2, FlatOf
    <2>2. Len(q) \in 1..Len(q)
        BY <1>2, EmptySeq
    <2> QED
        BY <2>1, <2>2, FlatTypes
<1> QED
    BY <1>1, <1>2

Associates(S) == \A a, b, c \in Seq(S) : (a \o b) \o c = a \o (b \o c)

LEMMA ConcatAssociates ==
    ASSUME NEW S
    PROVE  Associates(S)
<1> SUFFICES ASSUME NEW a \in Seq(S), NEW b \in Seq(S), NEW c \in Seq(S)
             PROVE  (a \o b) \o c = a \o (b \o c)
    BY DEF Associates
<1> QED
    BY ConcatAssociative

(* Flattening, from the last sequence and from the first.                   *)
LEMMA FlattenAppend ==
    ASSUME NEW S, NEW q \in Seq(Seq(S)), NEW x \in Seq(S)
    PROVE  FlattenSeq(Append(q, x)) = FlattenSeq(q) \o x
<1> DEFINE r == Append(q, x)
           L == Len(q)
<1>1. /\ r \in Seq(Seq(S)) /\ r # <<>> /\ Len(r) = L + 1 /\ L \in Nat /\ r[L + 1] = x
      /\ \A i \in 1..L : q[i] = r[i]
    BY AppendProperties, LenProperties
<1>2. PICK g : IsFlat(g, r, L + 1) /\ FlattenSeq(r) = g[L + 1]
    <2> HIDE DEF r, L
    <2> QED
        BY <1>1, FlatOf
<1> HIDE DEF r
<1>3. g[L + 1] = IF L = 0 THEN x ELSE g[L] \o x
    <2>1. PICK k : k = L + 1
        OBVIOUS
    <2>2. k \in 1..k /\ k - 1 = L /\ (k = 1 <=> L = 0) /\ r[k] = x
        BY <1>1, <2>1
    <2>3. g[k] = IF k = 1 THEN r[k] ELSE g[k - 1] \o r[k]
        BY <1>2, <2>1, <2>2, FlatStep
    <2> HIDE DEF L
    <2> QED
        BY <2>1, <2>2, <2>3
<1>4. CASE q = <<>>
    <2>1. L = 0 /\ FlattenSeq(q) = <<>>
        BY <1>4, EmptySeq DEF FlattenSeq
    <2> QED
        BY <1>2, <1>3, <2>1, ConcatEmptySeq DEF r
<1>5. CASE q # <<>>
    <2>1. L # 0 /\ L \in 1..L
        BY <1>5, EmptySeq
    <2>2. PICK f : IsFlat(f, q, L) /\ FlattenSeq(q) = f[L]
        BY <1>5, FlatOf
    <2>3. f[L] = g[L]
        <3> HIDE DEF L
        <3>1. L + 1 \in Nat /\ L <= L + 1
            BY <1>1
        <3> QED
            BY <1>1, <1>2, <2>1, <2>2, <3>1, FlatAgrees
    <2> QED
        BY <1>2, <1>3, <2>1, <2>2, <2>3 DEF r
<1> QED
    BY <1>4, <1>5

LEMMA FlattenTail ==
    ASSUME NEW S, NEW q \in Seq(Seq(S)), q # <<>>
    PROVE  FlattenSeq(q) = Head(q) \o FlattenSeq(Tail(q))
<1>1. PICK h, t, L : h = Head(q) /\ t = Tail(q) /\ L = Len(q)
    OBVIOUS
<1>2. /\ h \in Seq(S) /\ t \in Seq(Seq(S)) /\ Len(t) = L - 1 /\ L \in Nat \ {0} /\ q[1] = h
      /\ \A i \in 1..(L - 1) : t[i] = q[i + 1] /\ t[i] \in Seq(S)
    <2>1. /\ h \in Seq(S) /\ t \in Seq(Seq(S)) /\ Len(t) = L - 1 /\ L \in Nat \ {0} /\ q[1] = h
          /\ \A i \in 1..(L - 1) : t[i] = q[i + 1]
        BY <1>1, HeadTailProperties, EmptySeq
    <2> QED
        BY <2>1, ElementOfSeq
<1>3. PICK f : IsFlat(f, q, L) /\ FlattenSeq(q) = f[L]
    BY <1>1, FlatOf
<1>4. f[1] = h
    BY <1>2, <1>3 DEF IsFlat
<1>5. CASE t = <<>>
    <2>1. L = 1 /\ FlattenSeq(t) = <<>>
        BY <1>2, <1>5, EmptySeq DEF FlattenSeq
    <2> QED
        BY <1>1, <1>2, <1>3, <1>4, <2>1, ConcatEmptySeq
<1>6. CASE t # <<>>
    <2>1. PICK g : IsFlat(g, t, L - 1) /\ FlattenSeq(t) = g[L - 1]
        BY <1>2, <1>6, FlatOf
    <2>2. L - 1 \in 1..(L - 1)
        <3>1. Len(t) # 0
            BY <1>2, <1>6, EmptySeq
        <3> QED
            BY <1>2, <3>1
    <2> DEFINE Bad == {i \in 1..(L - 1) : f[i + 1] # h \o g[i]}
    <2>3. ASSUME Bad # {} PROVE FALSE
        <3>1. PICK i \in Bad : \A y \in Bad : i =< y
            <4>1. Bad \subseteq Nat
                BY <1>2
            <4> HIDE DEF Bad
            <4> QED
                BY <2>3, <4>1, LeastElement
        <3>2. i \in 1..(L - 1) /\ f[i + 1] # h \o g[i] /\ t[i] = q[i + 1] /\ t[i] \in Seq(S)
            BY <1>2
        <3>3. i + 1 \in 1..L /\ i + 1 # 1 /\ i + 1 - 1 = i
            BY <1>2, <3>2
        <3>4. f[i + 1] = f[i] \o t[i]
            <4>1. PICK k : k = i + 1
                OBVIOUS
            <4>2. f[k] = IF k = 1 THEN q[k] ELSE f[k - 1] \o q[k]
                <5>1. k \in 1..L
                    BY <3>3, <4>1
                <5> HIDE DEF Bad
                <5> QED
                    BY <1>3, <5>1, FlatStep
            <4>3. k # 1 /\ k - 1 = i /\ q[k] = t[i]
                BY <3>2, <3>3, <4>1
            <4> QED
                BY <4>1, <4>2, <4>3
        <3>5. g[i] = IF i = 1 THEN t[i] ELSE g[i - 1] \o t[i]
            BY <2>1, <3>2 DEF IsFlat
        <3>6. CASE i = 1
            BY <1>4, <3>2, <3>4, <3>5, <3>6
        <3>7. CASE i # 1
            <4>1. i - 1 \in 1..(L - 1) /\ ~(i =< i - 1) /\ i - 1 + 1 = i
                BY <1>2, <3>2, <3>7
            <4>2. f[i] = h \o g[i - 1]
                BY <3>1, <4>1
            <4>3. g[i - 1] \in Seq(S)
                BY <1>2, <2>1, <4>1, FlatTypes
            <4>4. (h \o g[i - 1]) \o t[i] = h \o (g[i - 1] \o t[i])
                <5>1. PICK a \in Seq(S), b \in Seq(S) : a = g[i - 1] /\ b = t[i]
                    BY <3>2, <4>3
                <5>0. h \in Seq(S)
                    BY <1>2
                <5>2. (h \o a) \o b = h \o (a \o b)
                    <6>1. Associates(S)
                        BY ConcatAssociates
                    <6> HIDE DEF Bad
                    <6> QED
                        BY <5>0, <6>1 DEF Associates
                <5> QED
                    BY <5>1, <5>2
            <4> QED
                BY <3>2, <3>4, <3>5, <3>7, <4>2, <4>4
        <3> QED
            BY <3>6, <3>7
    <2>4. f[L] = h \o g[L - 1]
        <3>2. \A i : i \notin Bad
            BY <2>3
        <3>3. L - 1 + 1 = L
            BY <1>2
        <3>1. ~(f[L - 1 + 1] # h \o g[L - 1])
            BY <2>2, <3>2
        <3> QED
            BY <3>1, <3>3
    <2> QED
        BY <1>1, <1>3, <2>1, <2>4
<1> QED
    BY <1>5, <1>6


-----------------------------------------------------------------------------
(* The inductive invariant                                                  *)

Fields == {"state", "text", "sent", "decoded", "more", "stop", "word", "newLine", "lastNl"}
Reasons == {"none", "word", "limit", "eos"}
SlotTyped(s) ==
    /\ DOMAIN s = Fields /\ s.text \in Seq(Symbols)
    /\ s.sent \in Nat /\ s.lastNl \in Nat /\ s.decoded \in Nat
    /\ s.more \in BOOLEAN /\ s.stop \in Reasons
Result ==
    [final : BOOLEAN, content : Seq(Symbols), decoded : Nat, progress : BOOLEAN, stop : Reasons]

Shapes ==
    /\ req \in Requests /\ pieces \in Seq(Seq(Symbols)) /\ results \in Seq(Result)
    /\ late \in BOOLEAN /\ SlotTyped(slot)
    /\ DOMAIN reader = {"text", "msg", "thinking", "started"} /\ reader.text \in Seq(Symbols)
(* While a slot generates its text is all that was sampled.                 *)
Generates ==
    /\ slot.state \in {"prompt", "done_prompt", "generating", "idle"}
    /\ slot.decoded = Len(pieces) \/ (pieces = <<>> /\ slot.state \in {"prompt", "idle"})
    /\ slot.state \in {"prompt", "done_prompt"} => pieces = <<>>
    /\ req.empty => slot.state \in {"prompt", "idle"}
    /\ slot.more = (slot.state # "idle" \/ req.empty)
    /\ slot.state # "idle" => slot.text = Raw
    /\ req.empty => slot.text = <<>>
    /\ slot.sent <= Len(Raw) /\ slot.lastNl <= Len(Raw)
FinalIsLast ==
    \A i \in 1..Len(results) : results[i].final => i = Len(results) /\ slot.state = "idle"
Inv == Shapes /\ Generates /\ FinalIsLast /\ SentIsGenerated

-----------------------------------------------------------------------------
(* Lengths and positions                                                    *)

LEMMA RequestTypes ==
    ASSUME NEW r \in Requests
    PROVE  /\ \A i \in DOMAIN r.words : Len(r.words[i]) \in Nat
           /\ \A p \in r.pieces : p \in Seq(Symbols)
           /\ r.indent \in Nat /\ r.empty \in BOOLEAN /\ r.stream \in BOOLEAN
<1>1. RequestAssumption(r)
    BY AnswerStreamAssumption
<1>2. ASSUME NEW i \in DOMAIN r.words PROVE Len(r.words[i]) \in Nat
    <2>1. r.words[i] \in Seq(Range(r.words[i]))
        BY <1>1 DEF RequestAssumption
    <2> QED
        BY <2>1, LenProperties
<1>3. ASSUME NEW p \in r.pieces PROVE p \in Seq(Symbols)
    <2>1. p \in Seq(Range(p)) /\ Range(p) \subseteq Symbols
        BY <1>1 DEF RequestAssumption, Symbols
    <2> QED
        BY <2>1, SeqMonotonic
<1>4. r.indent \in Nat /\ r.empty \in BOOLEAN /\ r.stream \in BOOLEAN
    BY <1>1 DEF RequestAssumption
<1> QED
    BY <1>2, <1>3, <1>4

LEMMA RawTypes ==
    ASSUME Shapes
    PROVE  Raw \in Seq(Symbols) /\ Len(Raw) \in Nat
<1>1. Raw \in Seq(Symbols)
    BY FlattenTypes DEF Shapes, Raw
<1> QED
    BY <1>1, LenProperties

LEMMA SmallerOfTwo ==
    ASSUME NEW a \in Nat, NEW b \in Nat, a <= b
    PROVE  Min({a, b}) = a
<1>1. Min({a, b}) \in {a, b} /\ \A y \in {a, b} : Min({a, b}) =< y
    BY MinIsElement
<1> QED
    BY <1>1

LEMMA NoLessThanZero ==
    ASSUME NEW x \in Int
    PROVE  Max({0, x}) \in Nat /\ Max({0, x}) >= x
<1>1. \E m \in {0, x} : \A y \in {0, x} : m >= y
    <2>1. CASE x >= 0
        BY <2>1
    <2>2. CASE ~(x >= 0)
        BY <2>2
    <2> QED
        BY <2>1, <2>2
<1>2. Max({0, x}) \in {0, x} /\ \A y \in {0, x} : Max({0, x}) >= y
    BY <1>1 DEF Max
<1> QED
    BY <1>2

(* What was not sent begins after what was.                                 *)
LEMMA UnsentFrom ==
    ASSUME NEW s, SlotTyped(s), s.sent <= Len(s.text)
    PROVE  /\ Unsent(s) = SubSeq(s.text, s.sent + 1, Len(s.text))
           /\ Unsent(s) \in Seq(Symbols) /\ Len(Unsent(s)) = Len(s.text) - s.sent
<1>1. s.sent \in Nat /\ s.text \in Seq(Symbols) /\ Len(s.text) \in Nat
    BY LenProperties DEF SlotTyped
<1>2. Unsent(s) = SubSeq(s.text, s.sent + 1, Len(s.text))
    BY <1>1, SmallerOfTwo DEF Unsent
<1>3. PICK t, m, n : t = s.text /\ m = s.sent + 1 /\ n = Len(s.text)
    OBVIOUS
<1>4. m \in Nat \ {0} /\ n \in Nat /\ \A i \in m..n : t[i] \in Symbols
    <2>1. m \in Nat \ {0} /\ n \in Nat /\ t \in Seq(Symbols) /\ n = Len(t)
        BY <1>1, <1>3
    <2> QED
        BY <2>1, ElementOfSeq
<1>5. SubSeq(t, m, n) \in Seq(Symbols) /\ Len(SubSeq(t, m, n)) = IF m <= n THEN n - m + 1 ELSE 0
    <2>1. m \in Int /\ n \in Int
        BY <1>4
    <2>2. SubSeq(t, m, n) \in Seq(Symbols) /\ Len(SubSeq(t, m, n)) = IF m <= n THEN n - m + 1 ELSE 0
        BY <1>4, <2>1, SubSeqProperties, SMTT(20)
    <2> QED
        BY <2>2
<1> QED
    BY <1>1, <1>2, <1>3, <1>5

(* A prefix, by its length.                                                 *)
LEMMA PrefixTypes ==
    ASSUME NEW t \in Seq(Symbols), NEW k \in 0..Len(t)
    PROVE  SubSeq(t, 1, k) \in Seq(Symbols) /\ Len(SubSeq(t, 1, k)) = k
<1>1. Len(t) \in Nat /\ k \in Int /\ \A i \in 1..k : t[i] \in Symbols
    BY LenProperties, ElementOfSeq
<1>2. SubSeq(t, 1, k) \in Seq(Symbols) /\ Len(SubSeq(t, 1, k)) = IF 1 <= k THEN k - 1 + 1 ELSE 0
    BY <1>1, SubSeqProperties
<1> QED
    BY <1>1, <1>2

-----------------------------------------------------------------------------
(* What process_token does to the text, step by step                        *)

Same(t, s) == t.state = s.state /\ t.sent = s.sent /\ t.decoded = s.decoded
(* A step that may end the generation and keeps the text.                   *)
Ended(t, s) ==
    /\ SlotTyped(t) /\ Same(t, s) /\ t.text = s.text /\ t.lastNl = s.lastNl
    /\ t.more => s.more
(* A step that may cut the text, and ends the generation if it does.        *)
Shortened(t, s) ==
    /\ SlotTyped(t) /\ Same(t, s) /\ t.lastNl = s.lastNl
    /\ t.more => s.more /\ t.text = s.text
    /\ \E k \in 0..Len(s.text) : t.text = SubSeq(s.text, 1, k)

LEMMA StopKeeps ==
    ASSUME NEW s, SlotTyped(s), NEW e \in Reasons
    PROVE  Ended([s EXCEPT !.stop = e, !.more = FALSE], s)
<1>1. PICK t : t = [s EXCEPT !.stop = e, !.more = FALSE]
    OBVIOUS
<1>2. /\ DOMAIN t = Fields /\ t.state = s.state /\ t.sent = s.sent /\ t.decoded = s.decoded
      /\ t.text = s.text /\ t.lastNl = s.lastNl /\ t.more = FALSE /\ t.stop = e
    BY <1>1 DEF SlotTyped, Fields
<1>3. SlotTyped(t)
    BY <1>2 DEF SlotTyped
<1> QED
    BY <1>1, <1>2, <1>3 DEF Ended, Same

LEMMA EndsKeep ==
    ASSUME NEW s, SlotTyped(s), NEW shown, NEW overdue \in BOOLEAN, NEW eog \in BOOLEAN
    PROVE  /\ Ended(ContextEnd(s), s) /\ Ended(BudgetEnd(s), s)
           /\ Ended(LineEnd(s, shown, overdue), s) /\ Ended(EosEnd(s, eog), s)
<1>1. \A e \in Reasons : Ended([s EXCEPT !.stop = e, !.more = FALSE], s)
    BY StopKeeps
<1>2. Ended(s, s)
    BY DEF Ended, Same
<1>3. Ended(ContextEnd(s), s) /\ Ended(BudgetEnd(s), s) /\ Ended(EosEnd(s, eog), s)
    BY <1>1, <1>2 DEF ContextEnd, BudgetEnd, EosEnd, Reasons
<1>4. Ended(LineEnd(s, shown, overdue), s)
    <2>1. PICK n : n = [s EXCEPT !.newLine = TRUE]
        OBVIOUS
    <2>2. /\ DOMAIN n = Fields /\ n.state = s.state /\ n.sent = s.sent /\ n.decoded = s.decoded
          /\ n.text = s.text /\ n.lastNl = s.lastNl /\ n.more = s.more /\ n.stop = s.stop
        BY <2>1 DEF SlotTyped, Fields
    <2>3. Ended(n, s)
        BY <2>2 DEF Ended, Same, SlotTyped
    <2>4. PICK o : o = [s EXCEPT !.newLine = TRUE, !.stop = "limit", !.more = FALSE]
        OBVIOUS
    <2>5. o = [n EXCEPT !.stop = "limit", !.more = FALSE]
        BY <2>1, <2>4
    <2>6. Ended(o, n)
        BY <2>3, <2>5, StopKeeps DEF Ended, Reasons
    <2>7. Ended(o, s)
        BY <2>3, <2>6 DEF Ended, Same
    <2> QED
        BY <1>2, <2>1, <2>3, <2>4, <2>7 DEF LineEnd
<1> QED
    BY <1>3, <1>4

(* A text that is cut: the fields of the slot after it.                     *)
LEMMA CutKeeps ==
    ASSUME NEW s, SlotTyped(s), NEW k \in 0..Len(s.text), NEW e \in Reasons, NEW t,
           DOMAIN t = Fields, Same(t, s), t.lastNl = s.lastNl, t.more = FALSE, t.stop = e,
           t.text = SubSeq(s.text, 1, k)
    PROVE  Shortened(t, s) /\ Len(t.text) = k
<1>1. s.text \in Seq(Symbols)
    BY DEF SlotTyped
<1>2. t.text \in Seq(Symbols) /\ Len(t.text) = k
    BY <1>1, PrefixTypes
<1> QED
    BY <1>2 DEF Shortened, SlotTyped, Same

LEMMA WholeKeeps ==
    ASSUME NEW s, SlotTyped(s)
    PROVE  Shortened(s, s)
<1>1. Len(s.text) \in 0..Len(s.text) /\ s.text = SubSeq(s.text, 1, Len(s.text))
    BY LenProperties, SubSeqFull DEF SlotTyped
<1> QED
    BY <1>1 DEF Shortened, Same

(* find_stopping_strings cuts the text after what was sent.                 *)
LEMMA StopWordCuts ==
    ASSUME req \in Requests, NEW s, SlotTyped(s), s.sent <= Len(s.text), NEW last \in Nat
    PROVE  /\ Shortened(CutAtStop(s, last), s)
           /\ s.sent <= Len(CutAtStop(s, last).text)
<1>1. PICK u : u = Unsent(s)
    OBVIOUS
<1>2. PICK hits : hits = FullStops(u, last)
    OBVIOUS
<1>3. u \in Seq(Symbols) /\ Len(u) = Len(s.text) - s.sent /\ s.sent \in Nat /\ Len(s.text) \in Nat
    BY <1>1, UnsentFrom, LenProperties DEF SlotTyped
<1>4. CASE Incomplete(s.text) \/ hits = {}
    <2>1. CutAtStop(s, last) = s
        BY <1>1, <1>2, <1>4 DEF CutAtStop
    <2> QED
        BY <2>1, WholeKeeps
<1>5. CASE ~(Incomplete(s.text) \/ hits = {})
    <2>1. hits \subseteq 0..Len(u)
        <3> SUFFICES ASSUME NEW h \in hits PROVE h \in 0..Len(u)
            OBVIOUS
        <3>1. PICK i \in DOMAIN req.words :
                 h \in Occurrences(req.words[i], u, SearchFrom(req.words[i], u, last))
            BY <1>2 DEF FullStops
        <3>2. PICK n \in Nat : n = Len(req.words[i])
            BY RequestTypes
        <3>3. PICK from \in Nat : from = SearchFrom(req.words[i], u, last)
            <4>1. Len(u) - (n + last) \in Int
                BY <1>3
            <4> QED
                BY <3>2, <4>1, NoLessThanZero DEF SearchFrom
        <3>4. h \in from..(Len(u) - n)
            BY <3>1, <3>2, <3>3 DEF Occurrences
        <3> QED
            BY <1>3, <3>4
    <2>2. PICK m : m = Min(hits)
        OBVIOUS
    <2>3. m \in 0..Len(u)
        <3>1. hits \subseteq Nat /\ hits # {}
            BY <1>3, <1>5, <2>1
        <3> QED
            BY <2>1, <2>2, <3>1, MinIsElement
    <2>4. PICK k : k = Len(s.text) - Len(u) + m
        OBVIOUS
    <2>5. k \in 0..Len(s.text) /\ s.sent <= k
        BY <1>3, <2>3, <2>4
    <2>6. PICK t : t = CutAtStop(s, last)
        OBVIOUS
    <2>7. PICK w : w = StopWordAt(u, m)
        OBVIOUS
    <2>8. t = [s EXCEPT !.text = SubSeq(s.text, 1, k), !.stop = "word", !.more = FALSE, !.word = w]
        BY <1>1, <1>2, <1>5, <2>2, <2>4, <2>6, <2>7 DEF CutAtStop
    <2>9. /\ DOMAIN t = Fields /\ Same(t, s) /\ t.lastNl = s.lastNl /\ t.more = FALSE
          /\ t.stop = "word" /\ t.text = SubSeq(s.text, 1, k)
        BY <2>8 DEF SlotTyped, Fields, Same
    <2>10. Shortened(t, s) /\ Len(t.text) = k
        BY <2>5, <2>9, CutKeeps DEF Reasons
    <2> QED
        BY <2>5, <2>6, <2>10
<1> QED
    BY <1>4, <1>5

(* The indentation of the last line.                                        *)
LEMMA IndentTypes ==
    ASSUME NEW s, SlotTyped(s)
    PROVE  Indent(s) \in Nat
<1> DEFINE N == Max({0, Len(s.text) - s.lastNl})
           Ends == {n \in 0..N : s.lastNl + n >= Len(s.text) \/ s.text[s.lastNl + n + 1] # Space}
<1>1. N \in Nat /\ s.lastNl \in Nat /\ Len(s.text) \in Nat /\ s.lastNl + N >= Len(s.text)
    <2>1. Len(s.text) \in Nat /\ s.lastNl \in Nat
        BY LenProperties DEF SlotTyped
    <2>2. PICK x \in Int : x = Len(s.text) - s.lastNl
        BY <2>1
    <2>3. N \in Nat /\ N >= x
        BY <2>2, NoLessThanZero
    <2> HIDE DEF N
    <2> QED
        BY <2>1, <2>2, <2>3
<1>2. PICK n \in Ends : \A y \in Ends : n =< y
    <2>1. Ends \subseteq Nat /\ N \in Ends
        <3> HIDE DEF N
        <3> QED
            BY <1>1
    <2> HIDE DEF Ends
    <2> QED
        BY <2>1, LeastElement
<1> HIDE DEF N
<1>3. ASSUME NEW i \in 1..n PROVE s.text[s.lastNl + i] = Space
    <2>1. n \in 0..N
        OBVIOUS
    <2>2. i - 1 \in 0..N /\ ~(n =< i - 1)
        BY <1>1, <2>1
    <2>3. i - 1 \notin Ends
        BY <1>2, <2>2
    <2>4. s.lastNl + (i - 1) + 1 = s.lastNl + i
        BY <1>1
    <2> QED
        BY <2>2, <2>3, <2>4
<1>4. \E c \in 0..Max({0, Len(s.text) - s.lastNl}) :
        /\ \A i \in 1..c : s.text[s.lastNl + i] = Space
        /\ s.lastNl + c >= Len(s.text) \/ s.text[s.lastNl + c + 1] # Space
    BY <1>2, <1>3 DEF N
<1>5. Indent(s) \in 0..N
    BY <1>4 DEF Indent, N
<1> QED
    BY <1>1, <1>5

(* The line cut for its indentation, and the next one.                      *)
LEMMA IndentedCuts ==
    ASSUME req \in Requests, NEW s, SlotTyped(s)
    PROVE  \E t : /\ Shortened(t, s)
                  /\ Same(Indented(s), t) /\ SlotTyped(Indented(s))
                  /\ Indented(s).text = t.text /\ Indented(s).more = t.more
                  /\ Indented(s).lastNl = s.lastNl \/ Indented(s).lastNl <= Len(s.text)
<1>1. Len(s.text) \in Nat /\ s.text \in Seq(Symbols) /\ s.lastNl \in Nat
    BY LenProperties DEF SlotTyped
<1>2. PICK t : t = CutIndent(s)
    OBVIOUS
<1>3. PICK n \in Nat : n = Indent(s)
    BY IndentTypes
<1>4. Shortened(t, s)
    <2>1. CASE ~(s.lastNl > 0 /\ s.lastNl + n < Len(s.text) /\ n < req.indent)
        <3>1. t = s
            BY <1>2, <1>3, <2>1 DEF CutIndent
        <3> QED
            BY <3>1, WholeKeeps
    <2>2. CASE s.lastNl > 0 /\ s.lastNl + n < Len(s.text) /\ n < req.indent
        <3>1. PICK k \in 0..Len(s.text) : k = s.lastNl + n
            BY <1>1, <2>2
        <3>2. t = [s EXCEPT !.stop = "limit", !.more = FALSE, !.text = SubSeq(s.text, 1, k)]
            BY <1>2, <1>3, <2>2, <3>1 DEF CutIndent
        <3>3. /\ DOMAIN t = Fields /\ Same(t, s) /\ t.lastNl = s.lastNl /\ t.more = FALSE
              /\ t.stop = "limit" /\ t.text = SubSeq(s.text, 1, k)
            BY <3>2 DEF SlotTyped, Fields, Same
        <3> QED
            BY <3>3, CutKeeps DEF Reasons
    <2> QED
        BY <2>1, <2>2
<1>5. SlotTyped(t) /\ t.lastNl = s.lastNl /\ Len(t.text) <= Len(s.text) /\ Len(t.text) \in Nat
    <2>1. PICK k \in 0..Len(s.text) : t.text = SubSeq(s.text, 1, k)
        BY <1>4 DEF Shortened
    <2>2. Len(t.text) = k
        BY <1>1, <2>1, PrefixTypes
    <2> QED
        BY <1>1, <1>4, <2>2 DEF Shortened
<1>6. PICK i : i = NextLine(t)
    OBVIOUS
<1>7. /\ Same(i, t) /\ SlotTyped(i) /\ i.text = t.text /\ i.more = t.more
      /\ i.lastNl = s.lastNl \/ i.lastNl <= Len(s.text)
    <2>1. PICK next : next = {j \in (t.lastNl + 1)..Len(t.text) : t.text[j] = NewLine}
        OBVIOUS
    <2>2. CASE next = {}
        <3>1. i = t
            BY <1>6, <2>1, <2>2 DEF NextLine
        <3> QED
            BY <1>5, <3>1 DEF Same
    <2>3. CASE next # {}
        <3>1. next \subseteq Nat /\ \A j \in next : j <= Len(t.text)
            BY <1>1, <1>5, <2>1
        <3>2. PICK m : m = Min(next)
            OBVIOUS
        <3>3. m \in Nat /\ m <= Len(s.text)
            <4>1. m \in next
                BY <2>3, <3>1, <3>2, MinIsElement
            <4> QED
                BY <1>1, <1>5, <3>1, <4>1
        <3>4. i = [t EXCEPT !.lastNl = m]
            BY <1>6, <2>1, <2>3, <3>2 DEF NextLine
        <3>5. /\ DOMAIN i = Fields /\ Same(i, t) /\ i.text = t.text /\ i.more = t.more
              /\ i.stop = t.stop /\ i.lastNl = m
            BY <1>5, <3>4 DEF SlotTyped, Fields, Same
        <3> QED
            BY <1>5, <3>3, <3>5 DEF SlotTyped, Same
    <2> QED
        BY <2>2, <2>3
<1>8. CASE s.newLine /\ req.indent > 0
    <2>1. Indented(s) = i
        BY <1>2, <1>6, <1>8 DEF Indented
    <2> QED
        BY <1>4, <1>7, <2>1
<1>9. CASE ~(s.newLine /\ req.indent > 0)
    <2>1. Indented(s) = s
        BY <1>9 DEF Indented
    <2>2. Shortened(s, s) /\ Same(s, s)
        BY WholeKeeps DEF Same
    <2> QED
        BY <2>1, <2>2
<1> QED
    BY <1>8, <1>9

-----------------------------------------------------------------------------
(* The texts of the results                                                 *)

Contents(rs) == [i \in DOMAIN rs |-> rs[i].content]
LEMMA ContentsTypes ==
    ASSUME NEW rs \in Seq(Result)
    PROVE  /\ Contents(rs) \in Seq(Seq(Symbols)) /\ Len(Contents(rs)) = Len(rs)
           /\ DOMAIN rs = 1..Len(rs) /\ Len(rs) \in Nat
           /\ \A i \in 1..Len(rs) : Contents(rs)[i] = rs[i].content
           /\ Content(rs) = FlattenSeq(Contents(rs)) /\ Content(rs) \in Seq(Symbols)
<1>1. /\ DOMAIN rs = 1..Len(rs) /\ Len(rs) \in Nat
      /\ \A i \in 1..Len(rs) : rs[i].content \in Seq(Symbols)
    <2>1. \A i \in 1..Len(rs) : rs[i] \in Result
        BY ElementOfSeq
    <2> QED
        BY <2>1, LenProperties DEF Result
<1>2. PICK c : c = Contents(rs)
    OBVIOUS
<1>3. c = [i \in 1..Len(rs) |-> rs[i].content]
    BY <1>1, <1>2 DEF Contents
<1>4. c \in Seq(Seq(Symbols)) /\ Len(c) = Len(rs)
    BY <1>1, <1>3
<1>5. \A i \in 1..Len(rs) : c[i] = rs[i].content
    BY <1>3
<1>6. Content(rs) = FlattenSeq(c)
    BY <1>2 DEF Content, Concat, Contents
<1> QED
    BY <1>1, <1>2, <1>4, <1>5, <1>6, FlattenTypes

LEMMA ContentAppend ==
    ASSUME NEW rs \in Seq(Result), NEW r \in Result
    PROVE  Content(Append(rs, r)) = Content(rs) \o r.content
<1>1. PICK q, x, c : q = Append(rs, r) /\ x = r.content /\ c = Contents(rs)
    OBVIOUS
<1>2. x \in Seq(Symbols)
    BY <1>1 DEF Result
<1>3. /\ q \in Seq(Result) /\ Len(q) = Len(rs) + 1
      /\ \A i \in 1..Len(rs) : q[i] = rs[i]
      /\ q[Len(rs) + 1] = r
    BY <1>1, AppendProperties
<1>4. /\ c \in Seq(Seq(Symbols)) /\ Len(c) = Len(rs) /\ Len(rs) \in Nat
      /\ \A i \in 1..Len(rs) : c[i] = rs[i].content
      /\ Content(rs) = FlattenSeq(c)
    BY <1>1, ContentsTypes
<1>5. PICK d : d = Contents(q)
    OBVIOUS
<1>6. /\ d \in Seq(Seq(Symbols)) /\ Len(d) = Len(rs) + 1
      /\ \A i \in 1..(Len(rs) + 1) : d[i] = q[i].content
      /\ Content(q) = FlattenSeq(d)
    BY <1>3, <1>5, ContentsTypes
<1>7. PICK e : e = Append(c, x)
    OBVIOUS
<1>8. /\ e \in Seq(Seq(Symbols)) /\ Len(e) = Len(rs) + 1
      /\ \A i \in 1..Len(rs) : e[i] = c[i]
      /\ e[Len(rs) + 1] = x
    BY <1>2, <1>4, <1>7, AppendProperties
<1>9. ASSUME NEW i \in 1..(Len(rs) + 1) PROVE d[i] = e[i]
    <2>1. CASE i \in 1..Len(rs)
        BY <1>3, <1>4, <1>6, <1>8, <2>1
    <2>2. CASE i = Len(rs) + 1
        BY <1>1, <1>3, <1>6, <1>8, <2>2
    <2> QED
        BY <1>4, <2>1, <2>2
<1>10. d = e
    BY <1>6, <1>8, <1>9, SeqEqual
<1> QED
    BY <1>1, <1>2, <1>4, <1>6, <1>7, <1>10, FlattenAppend

LEMMA ContentTail ==
    ASSUME NEW rs \in Seq(Result), rs # <<>>
    PROVE  Content(rs) = Head(rs).content \o Content(Tail(rs))
<1>1. PICK t, n, c : t = Tail(rs) /\ n = Len(rs) - 1 /\ c = Contents(rs)
    OBVIOUS
<1>2. /\ t \in Seq(Result) /\ Len(t) = n /\ n \in Nat /\ Len(rs) = n + 1
      /\ \A i \in 1..n : t[i] = rs[i + 1]
    BY <1>1, HeadTailProperties, EmptySeq
<1>3. /\ c \in Seq(Seq(Symbols)) /\ Len(c) = n + 1
      /\ \A i \in 1..(n + 1) : c[i] = rs[i].content
      /\ Content(rs) = FlattenSeq(c)
    BY <1>1, <1>2, ContentsTypes
<1>4. c # <<>>
    BY <1>2, <1>3, EmptySeq
<1>5. Head(c) = Head(rs).content
    <2>1. 1 \in 1..(n + 1)
        BY <1>2
    <2> QED
        BY <1>3, <2>1
<1>6. PICK e : e = Tail(c)
    OBVIOUS
<1>7. e \in Seq(Seq(Symbols)) /\ Len(e) = n /\ \A i \in 1..n : e[i] = c[i + 1]
    <2>1. e \in Seq(Seq(Symbols)) /\ Len(e) = Len(c) - 1 /\ \A i \in 1..Len(e) : e[i] = c[i + 1]
        BY <1>3, <1>4, <1>6, HeadTailProperties
    <2> QED
        BY <1>2, <1>3, <2>1
<1>8. PICK d : d = Contents(t)
    OBVIOUS
<1>9. /\ d \in Seq(Seq(Symbols)) /\ Len(d) = n /\ \A i \in 1..n : d[i] = t[i].content
      /\ Content(t) = FlattenSeq(d)
    BY <1>2, <1>8, ContentsTypes
<1>10. ASSUME NEW i \in 1..n PROVE d[i] = e[i]
    <2>1. i \in 1..n /\ i + 1 \in 1..(n + 1)
        BY <1>2
    <2> QED
        BY <1>2, <1>3, <1>7, <1>9, <2>1
<1>11. d = e
    BY <1>7, <1>9, <1>10, SeqEqual
<1>12. FlattenSeq(c) = Head(c) \o FlattenSeq(e)
    BY <1>3, <1>4, <1>6, FlattenTail
<1> QED
    BY <1>1, <1>3, <1>5, <1>9, <1>11, <1>12

(* A result that is sent, or not.                                           *)
Follows(q, rs, r, w) ==
    /\ q \in Seq(Result) /\ Len(q) \in Nat
    /\ \A i \in 1..Len(rs) : q[i] = rs[i]
    /\ w = <<>> => q = rs
    /\ w # <<>> => /\ Len(q) = Len(rs) + 1 /\ q[Len(rs) + 1] = r
                   /\ Content(q) = Content(rs) \o r.content
LEMMA SendTypes ==
    ASSUME NEW rs \in Seq(Result), NEW r \in Result, NEW w \in {<<r>>, <<>>}
    PROVE  Follows(rs \o w, rs, r, w)
<1>1. PICK q : q = rs \o w
    OBVIOUS
<1>2. CASE w = <<r>>
    <2>1. q = Append(rs, r)
        BY <1>1, <1>2, AppendIsConcat
    <2>2. /\ q \in Seq(Result) /\ Len(q) = Len(rs) + 1 /\ q[Len(rs) + 1] = r
          /\ \A i \in 1..Len(rs) : q[i] = rs[i]
        BY <2>1, AppendProperties
    <2>3. Content(q) = Content(rs) \o r.content
        BY <2>1, ContentAppend
    <2>4. w # <<>> /\ Len(q) \in Nat
        BY <1>2, <2>2, LenProperties
    <2> QED
        BY <1>1, <2>2, <2>3, <2>4 DEF Follows
<1>3. CASE w = <<>>
    <2>1. q = rs
        BY <1>1, <1>3, ConcatEmptySeq
    <2> QED
        BY <1>1, <1>3, <2>1, LenProperties DEF Follows
<1> QED
    BY <1>2, <1>3

-----------------------------------------------------------------------------
(* A token                                                                  *)

(* A longer text begins with the same text.                                 *)
LEMMA GrownText ==
    ASSUME NEW a \in Seq(Symbols), NEW b \in Seq(Symbols), NEW n \in 0..Len(a)
    PROVE  SubSeq(a \o b, 1, n) = SubSeq(a, 1, n)
<1>1. CASE n = 0
    BY <1>1, SubSeqEmpty
<1>2. CASE n # 0
    <2>1. n \in 1..Len(a) /\ 1 \in 1..Len(a)
        BY <1>2, LenProperties
    <2> QED
        BY <2>1, SubSeqOfConcat1
<1> QED
    BY <1>1, <1>2

(* What is unsent of a text that was cut.                                   *)
LEMMA ShortenedUnsent ==
    ASSUME NEW t \in Seq(Symbols), NEW k \in 0..Len(t), NEW n \in 0..k
    PROVE  SubSeq(t, 1, k) = SubSeq(t, 1, n) \o SubSeq(SubSeq(t, 1, k), n + 1, k)
<1>1. Len(t) \in Nat
    BY LenProperties
<1>2. PICK u : u = SubSeq(t, 1, k)
    OBVIOUS
<1>3. u \in Seq(Symbols) /\ Len(u) = k
    BY <1>2, PrefixTypes
<1>4. SubSeq(u, 1, n) \o SubSeq(u, n + 1, k) = SubSeq(u, 1, k)
    <2>1. 1 \in 1..(Len(u) + 1) /\ n \in (1 - 1)..Len(u) /\ k \in n..Len(u)
        BY <1>1, <1>3
    <2> QED
        BY <1>3, <2>1, ConcatAdjacentSubSeq
<1>5. SubSeq(u, 1, n) = SubSeq(t, 1, n)
    <2>1. CASE n = 0
        BY <2>1, SubSeqEmpty
    <2>2. CASE n # 0
        <3>1. 1 \in 1..Len(t) /\ k \in 1..Len(t) /\ 1 \in 1..(k - 1 + 1) /\ n \in 1..(k - 1 + 1)
            BY <1>1, <2>2
        <3>2. SubSeq(SubSeq(t, 1, k), 1, n) = SubSeq(t, 1 + 1 - 1, 1 + n - 1)
            BY <3>1, SubSeqOfSubSeq
        <3>3. 1 + n - 1 = n
            BY <3>1
        <3> QED
            BY <1>2, <3>2, <3>3
    <2> QED
        BY <2>1, <2>2
<1>6. SubSeq(u, 1, k) = u
    BY <1>3, SubSeqFull
<1> QED
    BY <1>2, <1>4, <1>5, <1>6

(* What process_token sends of a text, and what it keeps.                   *)
Sends(t, s, cut, chunk) ==
    /\ SlotTyped(t) /\ chunk \in Seq(Symbols)
    /\ t.state = s.state /\ t.decoded = s.decoded /\ t.lastNl = s.lastNl
    /\ t.text = cut.text /\ t.sent \in 0..Len(s.text) /\ Len(t.text) \in 0..Len(s.text)
    /\ t.more => s.more /\ t.text = s.text
    /\ SubSeq(s.text, 1, t.sent) = SubSeq(s.text, 1, s.sent) \o chunk
    /\ Incomplete(s.text) => chunk = <<>>
    /\ Len(t.text) > t.sent =>
          Incomplete(s.text) \/ HeldBack(SubSeq(s.text, t.sent + 1, Len(s.text)))

LEMMA TokenSent ==
    ASSUME req \in Requests, NEW s, SlotTyped(s), s.sent <= Len(s.text), NEW last \in Nat,
           NEW eog, NEW cut, cut = CutAtStop(s, last),
           NEW chunk, chunk = Chunk(s, cut, eog),
           NEW t, t = [cut EXCEPT !.sent = @ + Len(chunk)]
    PROVE  Sends(t, s, cut, chunk)
<1>1. /\ s.text \in Seq(Symbols) /\ Len(s.text) \in Nat /\ s.sent \in Nat
      /\ Shortened(cut, s) /\ s.sent <= Len(cut.text)
    BY StopWordCuts, LenProperties DEF SlotTyped
<1>2. SlotTyped(cut) /\ cut.sent = s.sent
    BY <1>1 DEF Shortened, Same
<1>3. PICK k \in 0..Len(s.text) : cut.text = SubSeq(s.text, 1, k)
    BY <1>1 DEF Shortened
<1>4. Len(cut.text) = k /\ s.sent \in 0..k
    BY <1>1, <1>3, PrefixTypes
<1>5. PICK u : u = Unsent(cut)
    OBVIOUS
<1>6. u = SubSeq(cut.text, s.sent + 1, k) /\ u \in Seq(Symbols) /\ Len(u) = k - s.sent
    BY <1>1, <1>2, <1>4, <1>5, UnsentFrom
<1>7. chunk = IF SendsText(s, cut, eog) THEN u ELSE <<>>
    BY <1>5 DEF Chunk, When
<1>8. chunk \in Seq(Symbols) /\ Len(chunk) = IF SendsText(s, cut, eog) THEN k - s.sent ELSE 0
    BY <1>6, <1>7, EmptySeq
<1>9. PICK n : n = cut.sent + Len(chunk)
    OBVIOUS
<1>10. n = (IF SendsText(s, cut, eog) THEN k ELSE s.sent) /\ n \in 0..Len(s.text)
    BY <1>1, <1>2, <1>4, <1>8, <1>9
<1>11. t = [cut EXCEPT !.sent = n]
    BY <1>9
<1>12. /\ DOMAIN t = Fields /\ t.state = s.state /\ t.decoded = s.decoded /\ t.lastNl = s.lastNl
       /\ t.text = cut.text /\ t.sent = n /\ t.more = cut.more /\ t.stop = cut.stop
    BY <1>1, <1>2, <1>11 DEF SlotTyped, Fields, Shortened, Same
<1>13. SlotTyped(t)
    BY <1>2, <1>10, <1>12 DEF SlotTyped
<1>14. t.more => s.more /\ t.text = s.text
    BY <1>1, <1>12 DEF Shortened
<1>15. SubSeq(s.text, 1, n) = SubSeq(s.text, 1, s.sent) \o chunk
    <2>1. CASE SendsText(s, cut, eog)
        <3>1. SubSeq(s.text, 1, k)
                = SubSeq(s.text, 1, s.sent) \o SubSeq(SubSeq(s.text, 1, k), s.sent + 1, k)
            BY <1>1, <1>4, ShortenedUnsent
        <3> QED
            BY <1>3, <1>6, <1>7, <1>10, <2>1, <3>1
    <2>2. CASE ~SendsText(s, cut, eog)
        <3>1. SubSeq(s.text, 1, s.sent) \in Seq(Symbols)
            <4>1. s.sent \in 0..Len(s.text)
                BY <1>1, <1>4
            <4> QED
                BY <1>1, <4>1, PrefixTypes
        <3> QED
            BY <1>7, <1>10, <2>2, <3>1, ConcatEmptySeq
    <2> QED
        BY <2>1, <2>2
<1>16. Incomplete(s.text) => chunk = <<>>
    BY <1>7 DEF SendsText
<1>17. Len(t.text) > n =>
          Incomplete(s.text) \/ HeldBack(SubSeq(s.text, n + 1, Len(s.text)))
    <2>1. CASE SendsText(s, cut, eog)
        BY <1>1, <1>4, <1>10, <1>12, <2>1
    <2>2. CASE ~SendsText(s, cut, eog)
        <3>1. Unsent(s) = SubSeq(s.text, s.sent + 1, Len(s.text))
            <4>1. s.sent <= Len(s.text)
                OBVIOUS
            <4> QED
                BY <4>1, UnsentFrom
        <3>2. Incomplete(s.text) \/ HeldBack(Unsent(s))
            BY <2>2 DEF SendsText
        <3> QED
            BY <1>10, <2>2, <3>1, <3>2
    <2> QED
        BY <2>1, <2>2
<1>18. Len(t.text) \in 0..Len(s.text)
    BY <1>4, <1>12
<1> QED
    BY <1>8, <1>10, <1>12, <1>13, <1>14, <1>15, <1>16, <1>17, <1>18 DEF Sends

(* The ends of a generation.                                                *)
Ends(t, s) ==
    /\ SlotTyped(t) /\ Same(t, s) /\ Len(t.text) \in 0..Len(s.text)
    /\ t.more => s.more /\ t.text = s.text
    /\ t.lastNl = s.lastNl \/ t.lastNl <= Len(s.text)
LEMMA TokenEnds ==
    ASSUME req \in Requests, NEW s, SlotTyped(s), NEW shown, NEW overdue \in BOOLEAN,
           NEW eog \in BOOLEAN
    PROVE  Ends(EosEnd(LineEnd(Indented(BudgetEnd(ContextEnd(s))), shown, overdue), eog), s)
<1>1. PICK a : a = ContextEnd(s)
    OBVIOUS
<1>2. PICK b : b = BudgetEnd(a)
    OBVIOUS
<1>3. PICK i : i = Indented(b)
    OBVIOUS
<1>4. PICK l : l = LineEnd(i, shown, overdue)
    OBVIOUS
<1>5. PICK e : e = EosEnd(l, eog)
    OBVIOUS
<1>6. Ended(a, s)
    BY <1>1, EndsKeep
<1>7. SlotTyped(a)
    BY <1>6 DEF Ended
<1>8. Ended(b, a)
    BY <1>2, <1>7, EndsKeep
<1>9. SlotTyped(b)
    BY <1>8 DEF Ended
<1>10. b.text = s.text /\ Same(b, s) /\ b.lastNl = s.lastNl /\ (b.more => s.more)
    BY <1>6, <1>8 DEF Ended, Same
<1>11. PICK t : /\ Shortened(t, b)
                /\ Same(i, t) /\ SlotTyped(i) /\ i.text = t.text /\ i.more = t.more
                /\ i.lastNl = b.lastNl \/ i.lastNl <= Len(b.text)
    BY <1>3, <1>9, IndentedCuts
<1>12. Len(i.text) \in 0..Len(s.text)
    <2>1. PICK k \in 0..Len(b.text) : t.text = SubSeq(b.text, 1, k)
        BY <1>11 DEF Shortened
    <2>2. Len(t.text) = k
        BY <1>9, <2>1, PrefixTypes DEF SlotTyped
    <2> QED
        BY <1>10, <1>11, <2>2
<1>13. Same(i, s) /\ (i.more => s.more /\ i.text = s.text)
    BY <1>10, <1>11 DEF Shortened, Same
<1>14. Ended(l, i)
    BY <1>4, <1>11, EndsKeep
<1>15. SlotTyped(l)
    BY <1>14 DEF Ended
<1>16. Ended(e, l)
    BY <1>5, <1>15, EndsKeep
<1>17. e.text = i.text /\ Same(e, i) /\ e.lastNl = i.lastNl /\ (e.more => i.more) /\ SlotTyped(e)
    BY <1>14, <1>16 DEF Ended, Same
<1>18. Ends(e, s)
    BY <1>10, <1>11, <1>12, <1>13, <1>17 DEF Ends, Same
<1> QED
    BY <1>1, <1>2, <1>3, <1>4, <1>5, <1>18

LEMMA TokenStep ==
    ASSUME Inv, slot.state \in {"done_prompt", "generating"}, NEW piece \in Seq(Symbols),
           NEW eog \in BOOLEAN, NEW overdue \in BOOLEAN, ProcessToken(piece, eog, overdue),
           pieces' = Append(pieces, piece), UNCHANGED <<req, reader, late>>
    PROVE  Inv'
<1>1. ~req.empty
    <2>1. req.empty \in BOOLEAN
        BY RequestTypes DEF Inv, Shapes
    <2> QED
        BY <2>1 DEF Inv, Generates
<1>2. PICK last \in Nat : last = Len(piece)
    BY LenProperties
<1>3. PICK raw : raw = Raw'
    OBVIOUS
<1>4. /\ Raw \in Seq(Symbols) /\ Len(Raw) \in Nat /\ raw = Raw \o piece
      /\ raw \in Seq(Symbols) /\ Len(raw) = Len(Raw) + Len(piece)
      /\ pieces' \in Seq(Seq(Symbols)) /\ Len(pieces') = Len(pieces) + 1
      /\ Len(pieces) \in Nat
    <2>1. pieces \in Seq(Seq(Symbols))
        BY DEF Inv, Shapes
    <2>2. raw = Raw \o piece
        BY <1>3, <2>1, FlattenAppend DEF Raw
    <2>3. Raw \in Seq(Symbols) /\ Len(Raw) \in Nat
        BY RawTypes DEF Inv
    <2>4. raw \in Seq(Symbols) /\ Len(raw) = Len(Raw) + Len(piece)
        BY <2>2, <2>3, ConcatProperties
    <2> QED
        BY <2>1, <2>2, <2>3, <2>4, AppendProperties, LenProperties
(* The slot, from one step of process_token to the next.                    *)
<1>5. PICK added : added = [slot EXCEPT !.state = "generating", !.decoded = @ + 1,
                                        !.text = @ \o piece, !.more = TRUE]
    OBVIOUS
<1>6. /\ SlotTyped(added) /\ added.text = raw /\ added.state = "generating"
      /\ added.sent = slot.sent /\ added.lastNl = slot.lastNl /\ added.more = TRUE
      /\ added.decoded = Len(pieces) + 1 /\ slot.sent \in 0..Len(Raw) /\ slot.lastNl \in 0..Len(Raw)
    <2>1. SlotTyped(slot) /\ Generates
        BY DEF Inv, Shapes
    <2>2. slot.text = Raw /\ slot.decoded = Len(pieces)
        BY <2>1 DEF Generates
    <2>3. /\ DOMAIN added = Fields /\ added.state = "generating" /\ added.sent = slot.sent
          /\ added.lastNl = slot.lastNl /\ added.more = TRUE /\ added.stop = slot.stop
          /\ added.text = slot.text \o piece /\ added.decoded = slot.decoded + 1
        BY <1>5, <2>1 DEF SlotTyped, Fields
    <2>4. SlotTyped(added)
        <3>1. slot.sent \in Nat /\ slot.lastNl \in Nat /\ slot.stop \in Reasons
            BY <2>1 DEF SlotTyped
        <3>2. added.text \in Seq(Symbols) /\ added.decoded \in Nat
            BY <1>4, <2>2, <2>3
        <3> QED
            BY <2>3, <3>1, <3>2 DEF SlotTyped
    <2> QED
        BY <1>4, <2>1, <2>2, <2>3, <2>4 DEF SlotTyped, Generates
<1>7. PICK cut : cut = CutAtStop(added, last)
    OBVIOUS
<1>8. PICK chunk : chunk = Chunk(added, cut, eog)
    OBVIOUS
<1>9. PICK sent : sent = [cut EXCEPT !.sent = @ + Len(chunk)]
    OBVIOUS
<1>10. PICK shown : shown = IF Incomplete(added.text) THEN piece ELSE chunk
    OBVIOUS
<1>11. PICK done :
          done = EosEnd(LineEnd(Indented(BudgetEnd(ContextEnd(sent))), shown, overdue), eog)
    OBVIOUS
<1>12. req \in Requests /\ req.stream \in BOOLEAN
    BY RequestTypes DEF Inv, Shapes
<1>13. Sends(sent, added, cut, chunk)
    <2>1. added.sent <= Len(added.text)
        BY <1>4, <1>6, LenProperties
    <2> QED
        BY <1>6, <1>7, <1>8, <1>9, <1>12, <2>1, TokenSent
<1>14. Ends(done, sent)
    <2>1. SlotTyped(sent)
        BY <1>13 DEF Sends
    <2> QED
        BY <1>11, <1>12, <2>1, TokenEnds
<1>15. /\ sent.sent \in 0..Len(raw) /\ Len(sent.text) \in 0..Len(raw)
       /\ chunk \in Seq(Symbols) /\ sent.lastNl = slot.lastNl
       /\ SubSeq(raw, 1, sent.sent) = SubSeq(raw, 1, slot.sent) \o chunk
       /\ Incomplete(raw) => chunk = <<>>
       /\ Len(sent.text) > sent.sent =>
             Incomplete(raw) \/ HeldBack(SubSeq(raw, sent.sent + 1, Len(raw)))
    BY <1>6, <1>13 DEF Sends
<1>16. /\ SlotTyped(done) /\ done.state = "generating" /\ done.decoded = Len(pieces) + 1
       /\ done.sent = sent.sent /\ Len(done.text) \in 0..Len(sent.text)
       /\ done.lastNl <= Len(raw)
       /\ done.more => done.text = raw
    <2>1. done.lastNl <= Len(raw)
        <3>1. done.lastNl = slot.lastNl \/ done.lastNl <= Len(sent.text)
            BY <1>14, <1>15 DEF Ends
        <3>2. Len(piece) \in Nat /\ Len(raw) \in Nat /\ slot.lastNl <= Len(raw)
            <4>1. Len(piece) \in Nat
                BY LenProperties
            <4> QED
                BY <1>4, <1>6, <4>1
        <3>3. CASE done.lastNl = slot.lastNl
            BY <3>2, <3>3
        <3>4. CASE done.lastNl <= Len(sent.text)
            <4>1. done.lastNl \in Nat
                BY <1>14 DEF Ends, SlotTyped
            <4>2. PICK d, m, n : d = done.lastNl /\ m = Len(sent.text) /\ n = Len(raw)
                OBVIOUS
            <4>3. d \in Nat /\ d <= m /\ m \in 0..n /\ n \in Nat
                BY <1>15, <3>2, <3>4, <4>1, <4>2
            <4> QED
                BY <4>2, <4>3
        <3> QED
            BY <3>1, <3>3, <3>4
    <2> QED
        BY <1>6, <1>13, <1>14, <2>1 DEF Ends, Sends, Same
<1>17. PICK s : s = IF done.more THEN done ELSE [done EXCEPT !.state = "idle"]
    OBVIOUS
<1>18. slot' = s
    BY <1>2, <1>5, <1>7, <1>8, <1>9, <1>10, <1>11, <1>17, ZenonT(60)
    DEF ProcessToken
<1>19. /\ SlotTyped(s) /\ s.state = (IF done.more THEN "generating" ELSE "idle")
       /\ s.decoded = done.decoded /\ s.sent = done.sent /\ s.text = done.text
       /\ s.lastNl = done.lastNl /\ s.more = done.more /\ done.more \in BOOLEAN
    BY <1>16, <1>17 DEF SlotTyped, Fields
(* The results.                                                             *)
<1>20. PICK p : p = Partial(chunk, added.decoded, FALSE)
    OBVIOUS
<1>21. PICK f : f = Final(done)
    OBVIOUS
<1>22. PICK w : w = When(req.stream /\ ~Incomplete(raw), <<p>>)
    OBVIOUS
<1>23. PICK x : x = When(~done.more, <<f>>)
    OBVIOUS
<1>24. PICK rs : rs = results \o w
    OBVIOUS
<1>25. results' = rs \o x
    BY <1>2, <1>5, <1>6, <1>7, <1>8, <1>9, <1>10, <1>11, <1>20, <1>21, <1>22, <1>23, <1>24,
       ZenonT(60) DEF ProcessToken
<1>26. p \in Result /\ p.content = chunk /\ p.final = FALSE
    <2>1. added.decoded \in Nat
        BY <1>4, <1>6
    <2> QED
        BY <1>15, <1>20, <2>1 DEF Partial, Result, Reasons
<1>27. f \in Result /\ f.content = When(~req.stream, done.text)
    <2>1. When(~req.stream, done.text) \in Seq(Symbols)
        BY <1>16, EmptySeq DEF When, SlotTyped
    <2>2. done.decoded \in Nat /\ done.stop \in Reasons
        BY <1>16 DEF SlotTyped
    <2> QED
        BY <1>21, <2>1, <2>2 DEF Final, Result
<1>28. /\ results \in Seq(Result) /\ Len(results) \in Nat
       /\ \A i \in 1..Len(results) : ~results[i].final
    BY LenProperties DEF Inv, Shapes, FinalIsLast
<1>29. /\ rs \in Seq(Result) /\ Len(rs) \in Nat
       /\ req.stream => Content(rs) = Content(results) \o chunk
       /\ \A i \in 1..Len(rs) : ~rs[i].final
    <2>1. Follows(rs, results, p, w)
        <3>1. w \in {<<p>>, <<>>}
            BY <1>22 DEF When
        <3> QED
            BY <1>24, <1>26, <1>28, <3>1, SendTypes
    <2>2. rs \in Seq(Result) /\ Len(rs) \in Nat /\ \A i \in 1..Len(results) : rs[i] = results[i]
        BY <2>1 DEF Follows
    <2>3. CASE w = <<>>
        <3>1. rs = results
            BY <2>1, <2>3 DEF Follows
        <3>2. req.stream => chunk = <<>>
            BY <1>15, <1>22, <2>3 DEF When
        <3>3. Content(results) \o <<>> = Content(results)
            BY <1>28, ContentsTypes, ConcatEmptySeq
        <3> QED
            BY <1>28, <3>1, <3>2, <3>3
    <2>4. CASE w # <<>>
        <3>1. /\ Len(rs) = Len(results) + 1 /\ rs[Len(results) + 1] = p
              /\ Content(rs) = Content(results) \o p.content
            BY <2>1, <2>4 DEF Follows
        <3>2. ASSUME NEW i \in 1..Len(rs) PROVE ~rs[i].final
            <4>1. CASE i \in 1..Len(results)
                BY <1>28, <2>2, <4>1
            <4>2. CASE i \notin 1..Len(results)
                <5>1. i = Len(results) + 1
                    BY <1>28, <3>1, <4>2
                <5> QED
                    BY <1>26, <3>1, <5>1
            <4> QED
                BY <4>1, <4>2
        <3> QED
            BY <1>26, <2>2, <3>1, <3>2
    <2> QED
        BY <2>3, <2>4
<1>30. Follows(results', rs, f, x)
    <2>1. x \in {<<f>>, <<>>}
        BY <1>23 DEF When
    <2> QED
        BY <1>25, <1>27, <1>29, <2>1, SendTypes
<1>31. Shapes'
    <2>1. results' \in Seq(Result)
        BY <1>30 DEF Follows
    <2>2. /\ late \in BOOLEAN /\ DOMAIN reader = {"text", "msg", "thinking", "started"}
          /\ reader.text \in Seq(Symbols)
        BY DEF Inv, Shapes
    <2>3. SlotTyped(slot')
        BY <1>18, <1>19
    <2>4. SlotTyped(slot)'
        BY <2>3 DEF SlotTyped
    <2> QED
        BY <1>4, <1>12, <2>1, <2>2, <2>4 DEF Shapes
<1>32. Generates'
    <2>1. s.state \in {"generating", "idle"} /\ s.decoded = Len(pieces')
        BY <1>4, <1>16, <1>19
    <2>2. s.more = (s.state # "idle" \/ req.empty)
        BY <1>1, <1>19
    <2>3. s.state # "idle" => s.text = raw
        BY <1>16, <1>19
    <2>4. s.sent <= Len(raw) /\ s.lastNl <= Len(raw)
        BY <1>15, <1>16, <1>19
    <2> QED
        BY <1>1, <1>3, <1>18, <2>1, <2>2, <2>3, <2>4 DEF Generates
<1>33. FinalIsLast'
    <2>1. CASE x = <<>>
        <3>1. results' = rs
            BY <1>30, <2>1 DEF Follows
        <3> QED
            BY <1>29, <3>1 DEF FinalIsLast
    <2>2. CASE x # <<>>
        <3>1. Len(results') = Len(rs) + 1 /\ \A i \in 1..Len(rs) : (results')[i] = rs[i]
            BY <1>30, <2>2 DEF Follows
        <3>2. s.state = "idle"
            BY <1>19, <1>23, <2>2 DEF When
        <3>3. ASSUME NEW i \in 1..Len(results'), (results')[i].final PROVE i = Len(results')
            BY <1>29, <3>1, <3>3
        <3> QED
            BY <1>18, <3>2, <3>3 DEF FinalIsLast
    <2> QED
        BY <2>1, <2>2
<1>34. SentIsGenerated'
    <2> SUFFICES ASSUME req.stream
                 PROVE  /\ Streamed' = SubSeq(raw, 1, s.sent)
                        /\ s.state = "idle" /\ Len(s.text) > s.sent =>
                              Incomplete(raw) \/ HeldBack(SubSeq(raw, s.sent + 1, Len(raw)))
        BY <1>3, <1>18 DEF SentIsGenerated, HeldBack
    <2>1. Streamed = SubSeq(Raw, 1, slot.sent)
        BY DEF Inv, SentIsGenerated
    <2>2. Content(results') = Content(results) \o chunk
        <3>1. CASE x = <<>>
            <4>1. results' = rs
                BY <1>30, <3>1 DEF Follows
            <4> QED
                BY <1>29, <4>1
        <3>2. CASE x # <<>>
            <4>1. Content(results') = Content(rs) \o f.content
                BY <1>30, <3>2 DEF Follows
            <4>2. f.content = <<>>
                BY <1>27 DEF When
            <4>3. Content(rs) \o <<>> = Content(rs)
                BY <1>29, ContentsTypes, ConcatEmptySeq
            <4> QED
                BY <1>29, <4>1, <4>2, <4>3
        <3> QED
            BY <3>1, <3>2
    <2>3. Streamed' = Streamed \o chunk
        <3>1. reader.text \in Seq(Symbols) /\ Content(results) \in Seq(Symbols)
            BY <1>28, ContentsTypes DEF Inv, Shapes
        <3>2. (reader.text \o Content(results)) \o chunk = reader.text \o (Content(results) \o chunk)
            <4>1. PICK a \in Seq(Symbols), b \in Seq(Symbols), c \in Seq(Symbols) :
                     a = reader.text /\ b = Content(results) /\ c = chunk
                BY <1>15, <3>1
            <4>2. (a \o b) \o c = a \o (b \o c)
                BY ConcatAssociates DEF Associates
            <4> QED
                BY <4>1, <4>2
        <3>3. Streamed' = reader.text \o Content(results')
            BY DEF Streamed, Content
        <3> QED
            BY <2>2, <3>2, <3>3 DEF Streamed
    <2>4. SubSeq(raw, 1, slot.sent) = SubSeq(Raw, 1, slot.sent)
        BY <1>4, <1>6, GrownText
    <2>5. Streamed' = SubSeq(raw, 1, s.sent)
        BY <1>15, <1>16, <1>19, <2>1, <2>3, <2>4
    <2>6. ASSUME Len(s.text) > s.sent
          PROVE  Incomplete(raw) \/ HeldBack(SubSeq(raw, s.sent + 1, Len(raw)))
        <3>1. s.sent = sent.sent /\ Len(s.text) \in 0..Len(sent.text)
            BY <1>16, <1>19
        <3>2. Len(sent.text) > sent.sent
            <4>1. PICK a, b, n : a = Len(s.text) /\ b = sent.sent /\ n = Len(sent.text)
                OBVIOUS
            <4>2. a > b /\ a \in 0..n /\ b \in Nat /\ n \in Nat
                BY <1>4, <1>15, <2>6, <3>1, <4>1
            <4> QED
                BY <4>1, <4>2
        <3> QED
            BY <1>15, <3>1, <3>2
    <2> QED
        BY <2>5, <2>6
<1> QED
    BY <1>31, <1>32, <1>33, <1>34 DEF Inv

-----------------------------------------------------------------------------
(* The steps                                                                *)

LEMMA InitInv == Init => Inv
<1> SUFFICES ASSUME Init PROVE Inv
    OBVIOUS
<1>1. pieces = <<>> /\ results = <<>> /\ Raw = <<>> /\ Len(Raw) = 0
    BY EmptySeq DEF Init, Raw, FlattenSeq
<1>2. /\ SlotTyped(slot) /\ slot.state = "prompt" /\ slot.sent = 0 /\ slot.text = <<>>
      /\ slot.lastNl = 0 /\ slot.more = TRUE
    BY AnswerStreamAssumption, EmptySeq DEF Init, SlotTyped, Fields, Reasons
<1>3. Shapes
    <2>1. pieces \in Seq(Seq(Symbols)) /\ results \in Seq(Result)
        BY <1>1, EmptySeq
    <2>2. DOMAIN reader = {"text", "msg", "thinking", "started"} /\ reader.text = <<>>
        BY DEF Init
    <2> QED
        BY <1>2, <2>1, <2>2, EmptySeq DEF Init, Shapes
<1>4. Generates
    <2>1. slot.decoded = Len(pieces) \/ (pieces = <<>> /\ slot.state \in {"prompt", "idle"})
        BY <1>1, <1>2
    <2>2. slot.state = "prompt" /\ slot.state # "idle"
        BY <1>2
    <2>3. slot.more = (slot.state # "idle" \/ req.empty)
        BY <1>2, <2>2
    <2> QED
        BY <1>1, <1>2, <2>1, <2>2, <2>3 DEF Generates
<1>5. FinalIsLast
    BY <1>1 DEF FinalIsLast
<1>6. SentIsGenerated
    <2>1. Content(results) = <<>>
        <3>1. results \in Seq(Result) /\ Len(results) = 0
            BY <1>1, EmptySeq
        <3>2. PICK c : c = Contents(results)
            OBVIOUS
        <3>3. c \in Seq(Seq(Symbols)) /\ Len(c) = 0 /\ Content(results) = FlattenSeq(c)
            BY <3>1, <3>2, ContentsTypes
        <3>4. c = <<>>
            BY <3>3, EmptySeq
        <3> QED
            BY <3>3, <3>4 DEF FlattenSeq
    <2>2. reader.text = <<>>
        BY DEF Init
    <2>3. Streamed = <<>>
        BY <2>1, <2>2, EmptySeq, ConcatEmptySeq DEF Streamed
    <2>4. SubSeq(Raw, 1, slot.sent) = <<>>
        BY <1>2, SubSeqEmpty
    <2> QED
        BY <1>2, <2>3, <2>4 DEF SentIsGenerated
<1> QED
    BY <1>3, <1>4, <1>5, <1>6 DEF Inv

(* A result without text leaves what was sent as it was.                    *)
LEMMA EmptyResult ==
    ASSUME Inv, NEW r \in Result, r.content = <<>>
    PROVE  reader.text \o Content(Append(results, r)) = Streamed
<1>1. results \in Seq(Result)
    BY DEF Inv, Shapes
<1>2. Content(Append(results, r)) = Content(results) \o <<>>
    BY <1>1, ContentAppend
<1>3. Content(results) \o <<>> = Content(results)
    BY <1>1, ContentsTypes, ConcatEmptySeq
<1> QED
    BY <1>2, <1>3 DEF Streamed

LEMMA ProgressStep == Inv /\ SendProgress => Inv'
<1> SUFFICES ASSUME Inv, SendProgress PROVE Inv'
    OBVIOUS
<1>1. PICK r : r = Partial(<<>>, slot.decoded, TRUE)
    OBVIOUS
<1>2. r \in Result /\ r.content = <<>> /\ r.final = FALSE
    <2>1. slot.decoded \in Nat
        BY DEF Inv, Shapes, SlotTyped
    <2> QED
        BY <1>1, <2>1, EmptySeq DEF Partial, Result, Reasons
<1>3. /\ results' = Append(results, r) /\ UNCHANGED <<req, slot, pieces, reader, late>>
      /\ results = <<>> /\ results \in Seq(Result)
    BY <1>1 DEF SendProgress, Inv, Shapes
<1>4. results' \in Seq(Result) /\ Len(results') = 1 /\ (results')[1] = r
    <2>1. Len(results) = 0
        BY <1>3, EmptySeq
    <2> QED
        BY <1>2, <1>3, <2>1, AppendProperties
<1>5. Shapes'
    BY <1>3, <1>4 DEF Inv, Shapes, SlotTyped
<1>6. Generates'
    BY <1>3 DEF Inv, Generates, Raw
<1>7. FinalIsLast'
    BY <1>2, <1>4 DEF FinalIsLast
<1>8. SentIsGenerated'
    <2>1. reader.text \o Content(Append(results, r)) = Streamed
        BY <1>2, EmptyResult
    <2>2. Streamed' = reader.text \o Content(results')
        BY <1>3 DEF Streamed, Content
    <2>3. Streamed' = Streamed
        BY <1>3, <2>1, <2>2
    <2> QED
        BY <1>3, <2>3 DEF Inv, SentIsGenerated, HeldBack, Raw
<1> QED
    BY <1>5, <1>6, <1>7, <1>8 DEF Inv

LEMMA EndPromptStep == Inv /\ EndPrompt => Inv'
<1> SUFFICES ASSUME Inv, EndPrompt PROVE Inv'
    OBVIOUS
<1>1. PICK s : s = [slot EXCEPT !.state = "done_prompt", !.decoded = 0]
    OBVIOUS
<1>2. slot' = s /\ slot.state = "prompt" /\ UNCHANGED <<req, pieces, results, reader, late>>
    BY <1>1 DEF EndPrompt
<1>3. /\ SlotTyped(s) /\ s.state = "done_prompt" /\ s.decoded = 0 /\ s.text = slot.text
      /\ s.sent = slot.sent /\ s.lastNl = slot.lastNl /\ s.more = slot.more
    BY <1>1 DEF Inv, Shapes, SlotTyped, Fields
<1>4. ~req.empty /\ pieces = <<>> /\ Len(pieces) = 0
    BY <1>2, EmptySeq DEF EndPrompt, Inv, Generates
<1>5. Shapes'
    BY <1>2, <1>3 DEF Inv, Shapes, SlotTyped
<1>6. Generates'
    BY <1>2, <1>3, <1>4 DEF Inv, Generates, Raw
<1>7. FinalIsLast'
    BY <1>2 DEF Inv, FinalIsLast
<1>8. SentIsGenerated'
    BY <1>2, <1>3 DEF Inv, SentIsGenerated, Streamed, Content, HeldBack, Raw
<1> QED
    BY <1>5, <1>6, <1>7, <1>8 DEF Inv

LEMMA EmptyPromptStep == Inv /\ AnswerEmptyPrompt => Inv'
<1> SUFFICES ASSUME Inv, AnswerEmptyPrompt PROVE Inv'
    OBVIOUS
<1>1. PICK r : r = Final(slot)
    OBVIOUS
<1>2. /\ SlotTyped(slot) /\ results \in Seq(Result) /\ Len(results) \in Nat /\ slot.text = <<>>
      /\ slot.state = "prompt" /\ req.empty
    BY LenProperties DEF Inv, Shapes, AnswerEmptyPrompt, Generates
<1>3. r \in Result /\ r.content = <<>>
    <2>1. When(~req.stream, slot.text) = <<>>
        BY <1>2 DEF When
    <2>2. slot.decoded \in Nat /\ slot.stop \in Reasons
        BY <1>2 DEF SlotTyped
    <2> QED
        BY <1>1, <2>1, <2>2, EmptySeq DEF Final, Result
<1>4. PICK s : s = [slot EXCEPT !.state = "idle"]
    OBVIOUS
<1>5. /\ results' = Append(results, r) /\ slot' = s
      /\ UNCHANGED <<req, pieces, reader, late>>
    BY <1>1, <1>4 DEF AnswerEmptyPrompt
<1>6. /\ SlotTyped(s) /\ s.state = "idle" /\ s.text = slot.text /\ s.sent = slot.sent
      /\ s.decoded = slot.decoded /\ s.more = slot.more /\ s.lastNl = slot.lastNl
    BY <1>2, <1>4 DEF SlotTyped, Fields
<1>7. /\ results' \in Seq(Result) /\ Len(results') = Len(results) + 1
      /\ \A i \in 1..Len(results) : (results')[i] = results[i] /\ ~results[i].final
    <2>1. \A i \in 1..Len(results) : ~results[i].final
        BY <1>2 DEF Inv, FinalIsLast
    <2> QED
        BY <1>2, <1>3, <1>5, <2>1, AppendProperties
<1>8. Shapes'
    <2>1. SlotTyped(slot)'
        BY <1>5, <1>6 DEF SlotTyped
    <2> QED
        BY <1>5, <1>7, <2>1 DEF Inv, Shapes
<1>9. Generates'
    BY <1>2, <1>5, <1>6 DEF Inv, Generates, Raw
<1>10. FinalIsLast'
    <2>1. ASSUME NEW i \in 1..Len(results'), (results')[i].final PROVE i = Len(results')
        BY <1>2, <1>7, <2>1
    <2> QED
        BY <1>5, <1>6, <2>1 DEF FinalIsLast
<1>11. SentIsGenerated'
    <2>1. reader.text \o Content(Append(results, r)) = Streamed
        BY <1>3, EmptyResult
    <2>2. Streamed' = reader.text \o Content(results')
        BY <1>5 DEF Streamed, Content
    <2>3. Streamed' = Streamed
        BY <1>5, <2>1, <2>2
    <2>4. ~(Len(s.text) > s.sent)
        BY <1>2, <1>6, EmptySeq DEF SlotTyped
    <2> QED
        BY <1>5, <1>6, <2>3, <2>4 DEF Inv, SentIsGenerated, Raw
<1> QED
    BY <1>8, <1>9, <1>10, <1>11 DEF Inv

(* A handler that takes a result reads the text in it.                      *)
LEMMA TakeStep ==
    ASSUME Inv, results # <<>>, results' = Tail(results),
           DOMAIN reader' = {"text", "msg", "thinking", "started"},
           reader'.text = reader.text \o Head(results).content,
           UNCHANGED <<req, slot, pieces>>, late' \in BOOLEAN
    PROVE  Inv'
<1>1. PICK r, n : r = Head(results) /\ n = Len(results)
    OBVIOUS
<1>2. /\ results \in Seq(Result) /\ r \in Result /\ n \in Nat \ {0}
      /\ results' \in Seq(Result) /\ Len(results') = n - 1
      /\ \A i \in 1..(n - 1) : (results')[i] = results[i + 1]
    <2>1. results \in Seq(Result)
        BY DEF Inv, Shapes
    <2> QED
        BY <1>1, <2>1, HeadTailProperties, EmptySeq
<1>3. r.content \in Seq(Symbols) /\ reader.text \in Seq(Symbols)
    BY <1>2 DEF Result, Inv, Shapes
<1>4. Shapes'
    <2>1. reader'.text \in Seq(Symbols)
        BY <1>1, <1>3, ConcatProperties
    <2>2. SlotTyped(slot)'
        BY DEF Inv, Shapes, SlotTyped
    <2> QED
        BY <1>2, <2>1, <2>2 DEF Inv, Shapes
<1>5. Generates'
    BY DEF Inv, Generates, Raw
<1>6. FinalIsLast'
    <2>1. ASSUME NEW i \in 1..Len(results'), (results')[i].final
          PROVE  i = Len(results') /\ slot.state = "idle"
        <3>1. i + 1 \in 1..n /\ results[i + 1].final
            BY <1>2, <2>1
        <3>2. i + 1 = n /\ slot.state = "idle"
            BY <1>1, <3>1 DEF Inv, FinalIsLast
        <3> QED
            BY <1>2, <3>2
    <2> QED
        BY <2>1 DEF FinalIsLast
<1>7. SentIsGenerated'
    <2>1. Streamed' = Streamed
        <3>1. Content(results) = r.content \o Content(results')
            BY <1>1, <1>2, ContentTail
        <3>2. PICK a \in Seq(Symbols), b \in Seq(Symbols), c \in Seq(Symbols) :
                 a = reader.text /\ b = r.content /\ c = Content(results')
            BY <1>2, <1>3, ContentsTypes
        <3>3. (a \o b) \o c = a \o (b \o c)
            BY ConcatAssociates DEF Associates
        <3>4. Streamed' = (reader.text \o r.content) \o Content(results')
            BY <1>1 DEF Streamed, Content
        <3> QED
            BY <3>1, <3>2, <3>3, <3>4 DEF Streamed
    <2> QED
        BY <2>1 DEF Inv, SentIsGenerated, HeldBack, Raw
<1> QED
    BY <1>4, <1>5, <1>6, <1>7 DEF Inv

LEMMA ReadStep == Inv /\ (ReadPartial \/ ReadFinal) => Inv'
<1> SUFFICES ASSUME Inv, ReadPartial \/ ReadFinal PROVE Inv'
    OBVIOUS
<1>1. PICK r : r = Head(results)
    OBVIOUS
<1>2. /\ DOMAIN reader' = {"text", "msg", "thinking", "started"}
      /\ reader'.text = reader.text \o r.content
      /\ late' \in BOOLEAN /\ UNCHANGED <<req, slot, pieces>>
    <2>1. CASE ReadPartial
        <3>1. \E msg, diffs : reader' = UpdatePartial(r, msg, diffs)
            BY <1>1, <2>1 DEF ReadPartial
        <3>2. PICK msg, diffs : reader' = UpdatePartial(r, msg, diffs)
            BY <3>1
        <3> QED
            BY <2>1, <3>2 DEF ReadPartial, UpdatePartial, Inv, Shapes
    <2>2. CASE ReadFinal
        <3>1. \E msg : reader' = UpdateFinal(r, msg)
            BY <1>1, <2>2 DEF ReadFinal
        <3>2. PICK msg : reader' = [reader EXCEPT !.text = @ \o r.content, !.msg = msg]
            BY <3>1 DEF UpdateFinal
        <3>3. DOMAIN reader = {"text", "msg", "thinking", "started"}
            BY DEF Inv, Shapes
        <3>4. late' \in BOOLEAN /\ UNCHANGED <<req, slot, pieces>>
            BY <2>2 DEF ReadFinal
        <3> QED
            BY <3>2, <3>3, <3>4
    <2> QED
        BY <2>1, <2>2
<1>3. results # <<>> /\ results' = Tail(results)
    BY DEF ReadPartial, ReadFinal
<1> QED
    BY <1>1, <1>2, <1>3, TakeStep

LEMMA SampleStep == Inv /\ Sample => Inv'
<1> SUFFICES ASSUME Inv, Sample PROVE Inv'
    OBVIOUS
<1>1. PICK piece \in req.pieces \cup {<<>>}, eog \in BOOLEAN, overdue \in {FALSE, req.timed} :
         /\ ProcessToken(piece, eog, overdue)
         /\ pieces' = Append(pieces, piece)
    BY DEF Sample
<1>2. piece \in Seq(Symbols)
    BY RequestTypes, EmptySeq DEF Inv, Shapes
<1>3. overdue \in BOOLEAN
    <2>1. RequestAssumption(req)
        BY AnswerStreamAssumption DEF Inv, Shapes
    <2> QED
        BY <2>1 DEF RequestAssumption
<1>4. slot.state \in {"done_prompt", "generating"} /\ UNCHANGED <<req, reader, late>>
    BY DEF Sample
<1> QED
    BY <1>1, <1>2, <1>3, <1>4, TokenStep

LEMMA NextInv == Inv /\ [Next]_vars => Inv'
<1> SUFFICES ASSUME Inv, [Next]_vars PROVE Inv'
    OBVIOUS
<1>1. CASE Next
    BY <1>1, ProgressStep, EndPromptStep, EmptyPromptStep, SampleStep, ReadStep DEF Next
<1>2. CASE UNCHANGED vars
    BY <1>2 DEF vars, Inv, Shapes, Generates, FinalIsLast, SentIsGenerated, SlotTyped, Raw,
       Streamed, Content, HeldBack
<1> QED
    BY <1>1, <1>2

-----------------------------------------------------------------------------
(* Stop words.  Where a word is spelled in a text:                           *)
Spells(t, p, w, n) == \A j \in 1..n : t[p + j] = w[j]

(* the words, and the text after so many tokens;                            *)
Words == {req.words[i] : i \in DOMAIN req.words}
Until(q, k) == FlattenSeq(SubSeq(q, 1, k))

(* an end of a word that is not searched for; a text which holds no word up  *)
(* to b but such; no word has begun before n and may yet go on.             *)
Excused(q, e) ==
    \E k \in DOMAIN q : /\ Len(Until(q, k - 1)) < e /\ e <= Len(Until(q, k))
                        /\ Incomplete(Until(q, k))
Clean(W, q, t, b) ==
    \A w \in W : \A p \in Nat :
        p + Len(w) <= b /\ Spells(t, p, w, Len(w)) => Excused(q, p + Len(w))
NoneBegun(W, t, n) ==
    \A w \in W : \A p \in Nat : \A m \in 1..Len(w) :
        p < n /\ p + m = Len(t) => ~Spells(t, p, w, m)

(* The text of a slot is clean, the part that was sent of it, too; and while *)
(* it generates no stop word is half sent.                                  *)
Covers(s, W, q, t) ==
    /\ \E b \in 0..Len(t) : s.sent <= b /\ Len(s.text) <= b /\ Clean(W, q, t, b)
    /\ s.text = SubSeq(t, 1, Len(s.text))
    /\ s.state # "idle" => s.stop # "word" /\ Clean(W, q, t, Len(t)) /\ NoneBegun(W, t, s.sent)
    /\ s.stop = "word" => IsPrefix(s.text \o s.word, t)
Covered == Covers(slot, Words, pieces, Raw)

IsWord(w) == w \in Seq(Range(w)) /\ Len(w) \in Nat \ {0}
LEMMA WordTypes ==
    ASSUME req \in Requests
    PROVE  /\ \A w \in Words : IsWord(w)
           /\ \A i \in DOMAIN req.words : req.words[i] \in Words
<1>1. RequestAssumption(req)
    BY AnswerStreamAssumption
<1>2. ASSUME NEW i \in DOMAIN req.words PROVE IsWord(req.words[i])
    <2>1. PICK w : w = req.words[i]
        OBVIOUS
    <2>2. w \in Seq(Range(w)) /\ w # <<>>
        BY <1>1, <2>1 DEF RequestAssumption
    <2>3. Len(w) \in Nat \ {0}
        BY <2>2, EmptySeq
    <2> QED
        BY <2>1, <2>2, <2>3 DEF IsWord
<1> QED
    BY <1>2 DEF Words

(* A part of a text, element by element.                                    *)
LEMMA PartElements ==
    ASSUME NEW S, NEW t \in Seq(S), NEW p \in Nat, NEW n \in Nat, p + n <= Len(t)
    PROVE  /\ SubSeq(t, p + 1, p + n) \in Seq(S) /\ Len(SubSeq(t, p + 1, p + n)) = n
           /\ \A j \in 1..n : SubSeq(t, p + 1, p + n)[j] = t[p + j]
<1>1. PICK a, b, N : a = p + 1 /\ b = p + n /\ N = Len(t)
    OBVIOUS
<1>2. a \in Int /\ b \in Int /\ N \in Nat /\ \A i \in a..b : i \in 1..N
    BY <1>1, LenProperties
<1>3. \A i \in a..b : t[i] \in S
    BY <1>1, <1>2, ElementOfSeq
<1>4. /\ SubSeq(t, a, b) \in Seq(S)
      /\ Len(SubSeq(t, a, b)) = IF a <= b THEN b - a + 1 ELSE 0
      /\ \A i \in 1..(b - a + 1) : SubSeq(t, a, b)[i] = t[a + i - 1]
    BY <1>2, <1>3, SubSeqProperties
<1>5. b - a + 1 = n /\ (a <= b \/ n = 0)
    BY <1>1
<1>6. Len(SubSeq(t, a, b)) = n
    BY <1>4, <1>5
<1>7. ASSUME NEW j \in 1..n PROVE SubSeq(t, a, b)[j] = t[p + j]
    <2>1. a + j - 1 = p + j
        BY <1>1
    <2>2. SubSeq(t, a, b)[j] = t[a + j - 1]
        BY <1>4, <1>5
    <2> QED
        BY <2>1, <2>2
<1> QED
    BY <1>1, <1>4, <1>6, <1>7

LEMMA Spelled ==
    ASSUME NEW S, NEW t \in Seq(S), NEW R, NEW w \in Seq(R),
           NEW p \in Nat, NEW n \in 0..Len(w), p + n <= Len(t)
    PROVE  SubSeq(t, p + 1, p + n) = SubSeq(w, 1, n) <=> Spells(t, p, w, n)
<1>0. n \in Nat /\ 0 + n <= Len(w) /\ 0 \in Nat
    BY LenProperties
<1>1. PICK a : a = SubSeq(t, p + 1, p + n)
    OBVIOUS
<1>2. a \in Seq(S) /\ Len(a) = n /\ \A j \in 1..n : a[j] = t[p + j]
    BY <1>0, <1>1, PartElements
<1>3. PICK c : c = SubSeq(w, 1, n)
    OBVIOUS
<1>4. c \in Seq(R) /\ Len(c) = n /\ \A j \in 1..n : c[j] = w[j]
    <2>1. /\ SubSeq(w, 0 + 1, 0 + n) \in Seq(R) /\ Len(SubSeq(w, 0 + 1, 0 + n)) = n
          /\ \A j \in 1..n : SubSeq(w, 0 + 1, 0 + n)[j] = w[0 + j]
        BY <1>0, PartElements
    <2>2. 0 + 1 = 1 /\ 0 + n = n /\ \A j \in 1..n : 0 + j = j
        BY <1>0
    <2> QED
        BY <1>3, <2>1, <2>2
<1>5. ASSUME a = c PROVE Spells(t, p, w, n)
    BY <1>2, <1>4, <1>5 DEF Spells
<1>6. ASSUME Spells(t, p, w, n) PROVE a = c
    <2>1. \A j \in 1..n : a[j] = c[j]
        BY <1>2, <1>4, <1>6 DEF Spells
    <2>2. a \in Seq(S \cup R) /\ c \in Seq(S \cup R)
        BY <1>2, <1>4, SeqMonotonic
    <2> QED
        BY <1>2, <1>4, <2>1, <2>2, SeqEqual
<1> QED
    BY <1>1, <1>3, <1>5, <1>6

LEMMA SpelledWhole ==
    ASSUME NEW S, NEW t \in Seq(S), NEW w, IsWord(w), NEW p \in Nat, p + Len(w) <= Len(t)
    PROVE  SubSeq(t, p + 1, p + Len(w)) = w <=> Spells(t, p, w, Len(w))
<1>1. PICK R, n : R = Range(w) /\ n = Len(w)
    OBVIOUS
<1>2. w \in Seq(R) /\ n \in 0..Len(w) /\ SubSeq(w, 1, n) = w /\ p + n <= Len(t)
    BY <1>1, SubSeqFull DEF IsWord
<1>3. SubSeq(t, p + 1, p + n) = SubSeq(w, 1, n) <=> Spells(t, p, w, n)
    BY <1>2, Spelled
<1> QED
    BY <1>1, <1>2, <1>3

(* A text that ends with the beginning of a word.                           *)
LEMMA EndsInWord ==
    ASSUME NEW S, NEW u \in Seq(S), NEW w, IsWord(w), NEW n \in 1..Len(w), NEW p \in Nat,
           p + n = Len(u), Spells(u, p, w, n)
    PROVE  IsSuffix(SubSeq(w, 1, n), u)
<1>0. Len(u) \in Nat /\ n \in Nat /\ Len(w) \in Nat /\ w \in Seq(Range(w))
    BY LenProperties DEF IsWord
<1>1. PICK c : c = SubSeq(w, 1, n)
    OBVIOUS
<1>2. Len(c) = n /\ \A j \in 1..n : c[j] = w[j]
    <2>1. /\ SubSeq(w, 0 + 1, 0 + n) \in Seq(Range(w)) /\ Len(SubSeq(w, 0 + 1, 0 + n)) = n
          /\ \A j \in 1..n : SubSeq(w, 0 + 1, 0 + n)[j] = w[0 + j]
        <3>1. 0 + n <= Len(w) /\ 0 \in Nat
            BY <1>0
        <3> QED
            BY <1>0, <3>1, PartElements
    <2>2. 0 + 1 = 1 /\ 0 + n = n /\ \A j \in 1..n : 0 + j = j
        BY <1>0
    <2> QED
        BY <1>1, <2>1, <2>2
<1>3. PICK a, b : a = Reverse(c) /\ b = Reverse(u)
    OBVIOUS
<1>4. PICK N : N = Len(u)
    OBVIOUS
<1>5. a = [i \in 1..n |-> c[(n - i) + 1]] /\ b = [i \in 1..N |-> u[(N - i) + 1]]
    BY <1>2, <1>3, <1>4 DEF Reverse
<1>6. ASSUME NEW i \in 1..n PROVE a[i] = b[i]
    <2>1. n - i + 1 \in 1..n /\ i \in 1..N /\ p + (n - i + 1) = (N - i) + 1
        BY <1>0, <1>4
    <2>2. a[i] = w[n - i + 1] /\ b[i] = u[(N - i) + 1]
        BY <1>2, <1>5, <2>1
    <2>3. u[p + (n - i + 1)] = w[n - i + 1]
        BY <2>1 DEF Spells
    <2> QED
        BY <2>1, <2>2, <2>3
<1>7. Len(a) = n /\ Len(b) = N /\ n <= N /\ N \in Nat
    BY <1>0, <1>4, <1>5
<1>8. SubSeq(a, 1, n) = SubSeq(b, 1, n)
    <2>1. PICK T : T = {a[i] : i \in 1..n}
        OBVIOUS
    <2>2. \A i \in 1..n : a[i] \in T /\ b[i] \in T
        BY <1>6, <2>1
    <2>3. /\ SubSeq(a, 1, n) \in Seq(T) /\ Len(SubSeq(a, 1, n)) = n
          /\ \A i \in 1..n : SubSeq(a, 1, n)[i] = a[i]
        <3>1. 1 \in Int /\ n \in Int /\ n - 1 + 1 = n /\ \A i \in 1..n : 1 + i - 1 = i
            BY <1>0
        <3>2. /\ SubSeq(a, 1, n) \in Seq(T)
              /\ Len(SubSeq(a, 1, n)) = IF 1 <= n THEN n - 1 + 1 ELSE 0
              /\ \A i \in 1..(n - 1 + 1) : SubSeq(a, 1, n)[i] = a[1 + i - 1]
            BY <2>2, <3>1, SubSeqProperties
        <3> QED
            BY <1>0, <3>1, <3>2
    <2>4. /\ SubSeq(b, 1, n) \in Seq(T) /\ Len(SubSeq(b, 1, n)) = n
          /\ \A i \in 1..n : SubSeq(b, 1, n)[i] = b[i]
        <3>1. 1 \in Int /\ n \in Int /\ n - 1 + 1 = n /\ \A i \in 1..n : 1 + i - 1 = i
            BY <1>0
        <3>2. /\ SubSeq(b, 1, n) \in Seq(T)
              /\ Len(SubSeq(b, 1, n)) = IF 1 <= n THEN n - 1 + 1 ELSE 0
              /\ \A i \in 1..(n - 1 + 1) : SubSeq(b, 1, n)[i] = b[1 + i - 1]
            BY <2>2, <3>1, SubSeqProperties
        <3> QED
            BY <1>0, <3>1, <3>2
    <2> QED
        BY <1>6, <2>3, <2>4, SeqEqual
<1>9. IsPrefix(a, b)
    BY <1>7, <1>8 DEF IsPrefix
<1> QED
    BY <1>1, <1>3, <1>9 DEF IsSuffix

-----------------------------------------------------------------------------
(* One token more: what was excused stays so, and a token that ends inside a *)
(* character excuses what ends in it.                                       *)
OneMore(r, q) ==
    /\ DOMAIN q = 1..Len(q) /\ DOMAIN r = 1..(Len(q) + 1) /\ Len(q) \in Nat
    /\ \A k \in 0..Len(q) : Until(r, k) = Until(q, k)
    /\ Until(r, Len(q)) = FlattenSeq(q) /\ Until(r, Len(q) + 1) = FlattenSeq(r)
LEMMA UntilAppend ==
    ASSUME NEW S, NEW q \in Seq(Seq(S)), NEW x \in Seq(S), NEW r, r = Append(q, x)
    PROVE  OneMore(r, q)
<1>1. /\ r \in Seq(Seq(S)) /\ Len(r) = Len(q) + 1 /\ Len(q) \in Nat
      /\ \A i \in 1..Len(q) : r[i] = q[i]
      /\ DOMAIN q = 1..Len(q) /\ DOMAIN r = 1..Len(r)
    BY AppendProperties, LenProperties
<1>2. ASSUME NEW k \in 0..Len(q) PROVE SubSeq(r, 1, k) = SubSeq(q, 1, k)
    <2>1. k \in Nat /\ 0 + k <= Len(q) /\ 0 + k <= Len(r) /\ 0 \in Nat
        BY <1>1
    <2>2. PICK T : T = Seq(S)
        OBVIOUS
    <2>3. q \in Seq(T) /\ r \in Seq(T)
        BY <1>1, <2>2
    <2>4. /\ SubSeq(r, 0 + 1, 0 + k) \in Seq(T) /\ Len(SubSeq(r, 0 + 1, 0 + k)) = k
          /\ \A j \in 1..k : SubSeq(r, 0 + 1, 0 + k)[j] = r[0 + j]
        BY <2>1, <2>3, PartElements
    <2>5. /\ SubSeq(q, 0 + 1, 0 + k) \in Seq(T) /\ Len(SubSeq(q, 0 + 1, 0 + k)) = k
          /\ \A j \in 1..k : SubSeq(q, 0 + 1, 0 + k)[j] = q[0 + j]
        BY <2>1, <2>3, PartElements
    <2>6. \A j \in 1..k : r[0 + j] = q[0 + j]
        BY <1>1
    <2>7. SubSeq(r, 0 + 1, 0 + k) = SubSeq(q, 0 + 1, 0 + k)
        BY <2>4, <2>5, <2>6, SeqEqual
    <2>8. 0 + 1 = 1 /\ 0 + k = k
        BY <2>1
    <2> QED
        BY <2>7, <2>8
<1>3. \A k \in 0..Len(q) : Until(r, k) = Until(q, k)
    BY <1>2 DEF Until
<1>4. SubSeq(q, 1, Len(q)) = q /\ SubSeq(r, 1, Len(r)) = r
    BY <1>1, SubSeqFull
<1>5. Until(q, Len(q)) = FlattenSeq(q) /\ Until(r, Len(q) + 1) = FlattenSeq(r)
    BY <1>1, <1>4 DEF Until
<1>6. Len(q) \in 0..Len(q)
    BY <1>1
<1> QED
    BY <1>1, <1>3, <1>5, <1>6 DEF OneMore

LEMMA ExcusedAppend ==
    ASSUME NEW q \in Seq(Seq(Symbols)), NEW x \in Seq(Symbols), NEW r, r = Append(q, x), NEW e
    PROVE  /\ Excused(q, e) => Excused(r, e)
           /\ Len(FlattenSeq(q)) < e /\ e <= Len(FlattenSeq(r)) /\ Incomplete(FlattenSeq(r))
                 => Excused(r, e)
<1>1. /\ DOMAIN q = 1..Len(q) /\ DOMAIN r = 1..(Len(q) + 1) /\ Len(q) \in Nat
      /\ \A k \in 0..Len(q) : Until(r, k) = Until(q, k)
      /\ Until(r, Len(q)) = FlattenSeq(q) /\ Until(r, Len(q) + 1) = FlattenSeq(r)
    <2>1. OneMore(r, q)
        BY UntilAppend
    <2> QED
        BY <2>1 DEF OneMore
<1>2. ASSUME Excused(q, e) PROVE Excused(r, e)
    <2>1. PICK k \in DOMAIN q : /\ Len(Until(q, k - 1)) < e /\ e <= Len(Until(q, k))
                                /\ Incomplete(Until(q, k))
        BY <1>2 DEF Excused
    <2>2. k \in DOMAIN r /\ k \in 0..Len(q) /\ k - 1 \in 0..Len(q)
        BY <1>1
    <2>3. Until(r, k) = Until(q, k) /\ Until(r, k - 1) = Until(q, k - 1)
        BY <1>1, <2>2
    <2> QED
        BY <2>1, <2>2, <2>3 DEF Excused
<1>3. ASSUME Len(FlattenSeq(q)) < e, e <= Len(FlattenSeq(r)), Incomplete(FlattenSeq(r))
      PROVE  Excused(r, e)
    <2>1. PICK k : k = Len(q) + 1
        OBVIOUS
    <2>2. k \in DOMAIN r /\ k - 1 = Len(q)
        BY <1>1, <2>1
    <2>3. Until(r, k) = FlattenSeq(r) /\ Until(r, k - 1) = FlattenSeq(q)
        BY <1>1, <2>1, <2>2
    <2> QED
        BY <1>3, <2>2, <2>3 DEF Excused
<1> QED
    BY <1>2, <1>3

(* A longer text spells the same as far as it is the same.                  *)
LEMMA SpelledBefore ==
    ASSUME NEW t \in Seq(Symbols), NEW x \in Seq(Symbols), NEW w, NEW p \in Nat, NEW n \in Nat,
           p + n <= Len(t)
    PROVE  Spells(t \o x, p, w, n) <=> Spells(t, p, w, n)
<1>1. Len(t) \in Nat /\ Len(x) \in Nat
    BY LenProperties
<1>2. \A i \in 1..(Len(t) + Len(x)) : (t \o x)[i] = IF i <= Len(t) THEN t[i] ELSE x[i - Len(t)]
    BY ConcatProperties
<1>3. ASSUME NEW j \in 1..n PROVE (t \o x)[p + j] = t[p + j]
    <2>1. p + j \in 1..(Len(t) + Len(x)) /\ p + j <= Len(t)
        BY <1>1
    <2> QED
        BY <1>2, <2>1
<1> QED
    BY <1>3 DEF Spells

LEMMA CleanGrows ==
    ASSUME NEW W, \A w \in W : IsWord(w),
           NEW q \in Seq(Seq(Symbols)), NEW x \in Seq(Symbols), NEW r, r = Append(q, x),
           NEW t \in Seq(Symbols), Clean(W, q, t, Len(t)), NEW b \in Nat,
           \A w \in W : \A p \in Nat :
               p + Len(w) > Len(t) /\ p + Len(w) <= b /\ Spells(t \o x, p, w, Len(w))
                   => Excused(r, p + Len(w))
    PROVE  Clean(W, r, t \o x, b)
<1> SUFFICES ASSUME NEW w \in W, NEW p \in Nat,
                    p + Len(w) <= b, Spells(t \o x, p, w, Len(w))
             PROVE  Excused(r, p + Len(w))
    BY DEF Clean
<1>1. PICK n \in Nat : n = Len(w)
    BY DEF IsWord
<1>2. PICK N \in Nat : N = Len(t)
    BY LenProperties
<1>3. CASE p + n > N
    BY <1>1, <1>2, <1>3
<1>4. CASE ~(p + n > N)
    <2>1. p + n <= Len(t)
        BY <1>2, <1>4
    <2>2. Spells(t, p, w, n)
        BY <1>1, <2>1, SpelledBefore
    <2>3. Excused(q, p + n)
        BY <1>1, <2>1, <2>2 DEF Clean
    <2> QED
        BY <1>1, <2>3, ExcusedAppend
<1> QED
    BY <1>3, <1>4

(* No word that began in what was sent goes on in what is new.              *)
LEMMA BegunBefore ==
    ASSUME NEW W, NEW t \in Seq(Symbols), NEW x \in Seq(Symbols), NEW n, NoneBegun(W, t, n),
           NEW w \in W, IsWord(w), NEW p \in Nat, NEW m \in 1..Len(w),
           p < n, n <= Len(t), n \in Nat, p + m >= Len(t), Spells(t \o x, p, w, m)
    PROVE  FALSE
<1>1. PICK N \in Nat : N = Len(t)
    BY LenProperties
<1>2. PICK k : k = N - p
    OBVIOUS
<1>3. PICK L \in Nat : L = Len(w)
    BY DEF IsWord
<1>4. k \in 1..L /\ k \in Nat /\ k <= m /\ p + k = N
    BY <1>1, <1>2, <1>3
<1>5. Spells(t \o x, p, w, k)
    <2>1. \A j \in 1..k : j \in 1..m
        BY <1>3, <1>4
    <2> QED
        BY <2>1 DEF Spells
<1>6. Spells(t, p, w, k)
    BY <1>1, <1>4, <1>5, SpelledBefore
<1> QED
    BY <1>1, <1>3, <1>4, <1>6 DEF NoneBegun

-----------------------------------------------------------------------------
(* The search finds what ends in the new token, unless that ends inside a    *)
(* character.                                                               *)
LEMMA MaxAtMost ==
    ASSUME NEW a \in Int, NEW n \in Nat, a <= n
    PROVE  Max({0, a}) <= n
<1>1. \E m \in {0, a} : \A y \in {0, a} : m >= y
    <2>1. CASE a >= 0
        BY <2>1
    <2>2. CASE ~(a >= 0)
        BY <2>2
    <2> QED
        BY <2>1, <2>2
<1>2. Max({0, a}) \in {0, a}
    BY <1>1 DEF Max
<1> QED
    BY <1>2

(* What was not sent, element by element.                                   *)
LEMMA UnsentElements ==
    ASSUME NEW s, SlotTyped(s), s.sent <= Len(s.text)
    PROVE  /\ Unsent(s) \in Seq(Symbols) /\ Len(s.text) = s.sent + Len(Unsent(s))
           /\ s.sent \in Nat /\ Len(Unsent(s)) \in Nat /\ s.text \in Seq(Symbols)
           /\ \A j \in 1..Len(Unsent(s)) : Unsent(s)[j] = s.text[s.sent + j]
<1>1. PICK p, n, t : p = s.sent /\ t = s.text /\ n = Len(t) - p
    OBVIOUS
<1>2. p \in Nat /\ Len(t) \in Nat /\ p <= Len(t) /\ t \in Seq(Symbols)
    BY <1>1, LenProperties DEF SlotTyped
<1>3. n \in Nat /\ p + n = Len(t)
    BY <1>1, <1>2
<1>4. /\ SubSeq(t, p + 1, p + n) \in Seq(Symbols) /\ Len(SubSeq(t, p + 1, p + n)) = n
      /\ \A j \in 1..n : SubSeq(t, p + 1, p + n)[j] = t[p + j]
    <2>1. PICK S : S = Symbols
        OBVIOUS
    <2>2. p + n <= Len(t) /\ t \in Seq(S)
        BY <1>2, <1>3, <2>1
    <2> QED
        BY <1>2, <1>3, <2>1, <2>2, PartElements
<1>5. Unsent(s) = SubSeq(t, p + 1, p + n)
    BY <1>1, <1>3, UnsentFrom
<1> QED
    BY <1>1, <1>2, <1>3, <1>4, <1>5

LEMMA SearchFinds ==
    ASSUME req \in Requests, NEW s, SlotTyped(s),
           NEW t \in Seq(Symbols), NEW x \in Seq(Symbols), s.text = t \o x, s.sent <= Len(t),
           NoneBegun(Words, t, s.sent),
           NEW w \in Words, NEW p \in Nat, p + Len(w) > Len(t), p + Len(w) <= Len(s.text),
           Spells(s.text, p, w, Len(w))
    PROVE  p - s.sent \in Nat /\ p - s.sent \in FullStops(Unsent(s), Len(x))
<1>1. IsWord(w)
    BY WordTypes
<1>2. PICK n \in Nat \ {0} : n = Len(w)
    BY <1>1 DEF IsWord
<1>3. PICK T \in Nat, X \in Nat : T = Len(t) /\ X = Len(x)
    BY LenProperties
<1>4. Len(s.text) = T + X /\ s.sent \in Nat
    BY <1>3, ConcatProperties DEF SlotTyped
<1>5. PICK u : u = Unsent(s)
    OBVIOUS
<1>6. PICK f \in Nat : f = s.sent
    BY <1>4
<1>7. /\ u \in Seq(Symbols) /\ T + X = f + Len(u) /\ Len(u) \in Nat
      /\ \A j \in 1..Len(u) : u[j] = s.text[f + j]
    <2>1. s.sent <= Len(s.text)
        BY <1>3, <1>4
    <2> QED
        BY <1>4, <1>5, <1>6, <2>1, UnsentElements
<1>8. ~(p < f)
    <2> SUFFICES ASSUME p < f PROVE FALSE
        OBVIOUS
    <2>1. PICK W : W = Words
        OBVIOUS
    <2>2. /\ NoneBegun(W, t, f) /\ w \in W /\ f <= Len(t) /\ f \in Nat /\ n \in 1..Len(w)
          /\ p + n >= Len(t) /\ Spells(t \o x, p, w, n)
        BY <1>2, <1>3, <1>6, <2>1
    <2> QED
        BY <1>1, <2>2, BegunBefore
<1>9. PICK o \in Nat : o = p - f
    BY <1>6, <1>8
<1>10. o + n <= Len(u) /\ Len(u) - (n + X) <= o
    BY <1>2, <1>3, <1>4, <1>6, <1>7, <1>9
<1>11. Spells(u, o, w, n)
    <2>1. ASSUME NEW j \in 1..n PROVE u[o + j] = w[j]
        <3>0. PICK U \in Nat : U = Len(u) /\ o + n <= U
            BY <1>7, <1>10
        <3>1. o + j \in 1..Len(u) /\ f + (o + j) = p + j
            <4>1. o + j \in 1..U /\ f + (o + j) = p + j
                BY <1>9, <3>0
            <4> QED
                BY <3>0, <4>1
        <3>2. u[o + j] = s.text[p + j]
            BY <1>7, <3>1
        <3> QED
            BY <1>2, <3>2 DEF Spells
    <2> QED
        BY <2>1 DEF Spells
<1>12. SubSeq(u, o + 1, o + Len(w)) = w
    <2>1. PICK S : S = Symbols
        OBVIOUS
    <2>2. u \in Seq(S)
        BY <1>7, <2>1
    <2> QED
        BY <1>1, <1>2, <1>10, <1>11, <2>2, SpelledWhole
<1>13. SearchFrom(w, u, X) <= o /\ SearchFrom(w, u, X) \in Nat
    <2>0. PICK U \in Nat : U = Len(u)
        BY <1>7
    <2>1. PICK a \in Int : a = U - (n + X)
        OBVIOUS
    <2>2. Max({0, a}) <= o /\ Max({0, a}) \in Nat
        BY <1>10, <2>0, <2>1, MaxAtMost, NoLessThanZero
    <2> QED
        BY <1>2, <2>0, <2>1, <2>2 DEF SearchFrom
<1>14. o \in Occurrences(w, u, SearchFrom(w, u, X))
    <2>1. PICK g \in Nat : g = SearchFrom(w, u, X)
        BY <1>13
    <2>2. o \in g..(Len(u) - Len(w))
        BY <1>2, <1>7, <1>10, <1>13, <2>1
    <2> QED
        BY <1>12, <2>1, <2>2 DEF Occurrences
<1>15. PICK i \in DOMAIN req.words : w = req.words[i]
    BY DEF Words
<1>16. o \in FullStops(u, X)
    BY <1>14, <1>15 DEF FullStops
<1> QED
    BY <1>3, <1>5, <1>6, <1>9, <1>16

(* The positions found, and the word.                                       *)
LEMMA Found ==
    ASSUME req \in Requests, NEW u \in Seq(Symbols), NEW last \in Nat,
           NEW h \in FullStops(u, last)
    PROVE  /\ h \in 0..Len(u)
           /\ \E i \in DOMAIN req.words : h \in Occurrences(req.words[i], u, 0)
<1>1. PICK i \in DOMAIN req.words :
         h \in Occurrences(req.words[i], u, SearchFrom(req.words[i], u, last))
    BY DEF FullStops
<1>2. PICK w : w = req.words[i]
    OBVIOUS
<1>3. PICK n \in Nat, N \in Nat : n = Len(w) /\ N = Len(u)
    BY <1>2, RequestTypes, LenProperties
<1>4. PICK from \in Nat : from = SearchFrom(w, u, last)
    <2>1. N - (n + last) \in Int
        OBVIOUS
    <2> QED
        BY <1>3, <2>1, NoLessThanZero DEF SearchFrom
<1>5. h \in from..(N - n) /\ SubSeq(u, h + 1, h + Len(w)) = w
    BY <1>1, <1>2, <1>3, <1>4 DEF Occurrences
<1>6. h \in 0..(N - n) /\ h \in 0..N
    BY <1>5
<1>7. h \in Occurrences(w, u, 0)
    BY <1>3, <1>5, <1>6 DEF Occurrences
<1> QED
    BY <1>2, <1>3, <1>6, <1>7

LEMMA StopWordFound ==
    ASSUME req \in Requests, NEW u \in Seq(Symbols), NEW last \in Nat,
           NEW h \in FullStops(u, last)
    PROVE  /\ StopWordAt(u, h) \in Words
           /\ h \in Nat /\ h + Len(StopWordAt(u, h)) <= Len(u)
           /\ SubSeq(u, h + 1, h + Len(StopWordAt(u, h))) = StopWordAt(u, h)
<1>1. PICK I : I = {i \in DOMAIN req.words : h \in Occurrences(req.words[i], u, 0)}
    OBVIOUS
<1>2. I \subseteq Nat /\ I # {}
    <2>1. RequestAssumption(req)
        BY AnswerStreamAssumption
    <2>2. req.words \in Seq(Range(req.words))
        BY <2>1 DEF RequestAssumption
    <2>3. DOMAIN req.words \subseteq Nat
        BY <2>2, LenProperties
    <2> QED
        BY <1>1, <2>3, Found
<1>3. PICK i : i = Min(I)
    OBVIOUS
<1>4. i \in DOMAIN req.words /\ h \in Occurrences(req.words[i], u, 0)
    <2>1. i \in I
        BY <1>2, <1>3, MinIsElement
    <2> QED
        BY <1>1, <2>1
<1>5. PICK w : w = req.words[i]
    OBVIOUS
<1>6. w = StopWordAt(u, h)
    BY <1>1, <1>3, <1>5 DEF StopWordAt
<1>7. w \in Words /\ Len(w) \in Nat /\ Len(u) \in Nat
    BY <1>4, <1>5, RequestTypes, LenProperties DEF Words
<1>8. h \in 0..(Len(u) - Len(w)) /\ SubSeq(u, h + 1, h + Len(w)) = w
    BY <1>4, <1>5 DEF Occurrences
<1> QED
    BY <1>6, <1>7, <1>8

(* A text cut at a word, followed by the word.                              *)
LEMMA WordFollows ==
    ASSUME NEW t \in Seq(Symbols), NEW n \in Nat, NEW w, NEW L \in Nat, L = Len(w),
           n + L <= Len(t), SubSeq(t, n + 1, n + L) = w
    PROVE  IsPrefix(SubSeq(t, 1, n) \o w, t)
<1>1. PICK N \in Nat : N = Len(t) /\ n + L <= N
    BY LenProperties
<1>2. SubSeq(t, 1, n) \o SubSeq(t, n + 1, n + L) = SubSeq(t, 1, n + L)
    <2>1. 1 \in 1..(N + 1) /\ n \in (1 - 1)..N /\ n + L \in n..N
        BY <1>1
    <2> QED
        BY <1>1, <2>1, ConcatAdjacentSubSeq
<1>3. PICK k : k = n + L
    OBVIOUS
<1>4. PICK c : c = SubSeq(t, 1, k)
    OBVIOUS
<1>5. c \in Seq(Symbols) /\ Len(c) = k
    BY <1>1, <1>3, <1>4, PrefixTypes
<1>6. SubSeq(c, 1, Len(c)) = c
    BY <1>5, SubSeqFull
<1>7. IsPrefix(c, t)
    BY <1>1, <1>3, <1>4, <1>5, <1>6 DEF IsPrefix
<1> QED
    BY <1>2, <1>3, <1>4, <1>7

(* What find_stopping_strings leaves of the text: no word but an excused     *)
(* one, and if it cut, the word where it cut.                               *)
Leaves(cut, s, W, r, t) ==
    /\ \E b \in 0..Len(t) : s.sent <= b /\ Len(cut.text) <= b /\ Clean(W, r, t, b)
    /\ \/ cut = s /\ Clean(W, r, t, Len(t))
       \/ cut.stop = "word" /\ cut.more = FALSE /\ IsPrefix(cut.text \o cut.word, t)

(* The slot `s` with a token `x` behind the text `t` of the tokens `q`.      *)
Grows(s, q, t, x, r) ==
    /\ q \in Seq(Seq(Symbols)) /\ x \in Seq(Symbols) /\ t \in Seq(Symbols) /\ r = Append(q, x)
    /\ t = FlattenSeq(q) /\ s.text = t \o x /\ s.text = FlattenSeq(r) /\ s.sent <= Len(t)
    /\ NoneBegun(Words, t, s.sent) /\ Clean(Words, q, t, Len(t))

LEMMA CutCovers ==
    ASSUME req \in Requests, NEW s, SlotTyped(s), NEW q, NEW t, NEW x, NEW r, Grows(s, q, t, x, r),
           NEW cut, cut = CutAtStop(s, Len(x))
    PROVE  Leaves(cut, s, Words, r, s.text)
<1>1. PICK W : W = Words
    OBVIOUS
<1>0. /\ x \in Seq(Symbols) /\ t \in Seq(Symbols) /\ s.text = t \o x /\ s.sent <= Len(t)
      /\ NoneBegun(Words, t, s.sent)
    BY DEF Grows
<1>2. \A w \in W : IsWord(w)
    BY <1>1, WordTypes
<1>3. PICK T \in Nat, X \in Nat : T = Len(t) /\ X = Len(x)
    BY <1>0, LenProperties
<1>4. PICK u : u = Unsent(s)
    OBVIOUS
<1>5. PICK f \in Nat : f = s.sent
    BY DEF SlotTyped
<1>6. PICK N \in Nat : N = Len(s.text) /\ N = T + X
    BY <1>0, <1>3, ConcatProperties
<1>7. PICK U \in Nat : U = Len(u) /\ N = f + U
    <2>1. s.sent <= Len(s.text)
        BY <1>0, <1>3, <1>5, <1>6
    <2> QED
        BY <1>4, <1>5, <1>6, <2>1, UnsentElements
<1>8. u \in Seq(Symbols) /\ \A j \in 1..U : u[j] = s.text[f + j]
    <2>1. s.sent <= Len(s.text)
        BY <1>0, <1>3, <1>5, <1>6
    <2> QED
        BY <1>4, <1>5, <1>7, <2>1, UnsentElements
<1>9. PICK hits : hits = FullStops(u, X)
    OBVIOUS
<1>10. ASSUME NEW w \in W, NEW p \in Nat, p + Len(w) > T, p + Len(w) <= N,
              Spells(s.text, p, w, Len(w))
       PROVE  p - f \in hits
    BY <1>0, <1>1, <1>3, <1>4, <1>5, <1>6, <1>9, <1>10, SearchFinds
<1>11. Clean(W, q, t, T)
    BY <1>1, <1>3 DEF Grows
<1>12. ASSUME NEW b \in Nat,
              \A w \in W : \A p \in Nat :
                  p + Len(w) > T /\ p + Len(w) <= b /\ Spells(s.text, p, w, Len(w))
                      => Excused(r, p + Len(w))
       PROVE  Clean(W, r, s.text, b)
    <2>1. q \in Seq(Seq(Symbols)) /\ r = Append(q, x)
        BY DEF Grows
    <2>2. Clean(W, r, t \o x, b)
        BY <1>0, <1>2, <1>3, <1>11, <1>12, <2>1, CleanGrows
    <2> QED
        BY <1>0, <2>2
<1>13. CASE Incomplete(s.text) \/ hits = {}
    <2>1. cut = s
        BY <1>3, <1>4, <1>9, <1>13 DEF CutAtStop
    <2>2. ASSUME NEW w \in W, NEW p \in Nat, p + Len(w) > T, p + Len(w) <= N,
                 Spells(s.text, p, w, Len(w))
          PROVE  Excused(r, p + Len(w))
        <3>1. Incomplete(s.text)
            BY <1>10, <1>13, <2>2
        <3> QED
            BY <1>3, <1>6, <2>2, <3>1, ExcusedAppend DEF Grows
    <2>3. Clean(W, r, s.text, N)
        BY <1>12, <2>2
    <2>4. N \in 0..N /\ f <= N /\ N <= N
        BY <1>7
    <2>5. \E b \in 0..Len(s.text) : s.sent <= b /\ Len(s.text) <= b /\ Clean(W, r, s.text, b)
        BY <1>5, <1>6, <2>3, <2>4
    <2>6. Clean(W, r, s.text, Len(s.text))
        BY <1>6, <2>3
    <2>7. Leaves(s, s, W, r, s.text)
        BY <2>5, <2>6 DEF Leaves
    <2> QED
        BY <1>1, <2>1, <2>7
<1>14. CASE ~(Incomplete(s.text) \/ hits = {})
    <2>1. \A h \in hits : h \in 0..U
        BY <1>3, <1>7, <1>8, <1>9, Found
    <2>2. PICK m : m = Min(hits)
        OBVIOUS
    <2>3. m \in hits /\ m \in 0..U /\ \A h \in hits : m <= h
        <3>1. hits \subseteq Nat /\ hits # {}
            BY <1>14, <2>1
        <3> QED
            BY <2>1, <2>2, <3>1, MinIsElement
    <2>4. PICK b \in Nat : b = f + m /\ b \in 0..N
        BY <1>7, <2>3
    <2>5. PICK w : w = StopWordAt(u, m)
        OBVIOUS
    <2>6. cut = [s EXCEPT !.text = SubSeq(s.text, 1, b), !.stop = "word", !.more = FALSE,
                          !.word = w]
        <3>1. Len(s.text) - Len(u) + m = b
            <4>1. N - U + m = b
                BY <1>7, <2>3, <2>4
            <4> QED
                BY <1>6, <1>7, <4>1
        <3> QED
            BY <1>3, <1>4, <1>9, <1>14, <2>2, <2>5, <3>1 DEF CutAtStop
    <2>7. cut.text = SubSeq(s.text, 1, b) /\ cut.stop = "word" /\ cut.more = FALSE /\ cut.word = w
        BY <2>6 DEF SlotTyped, Fields
    <2>8. Len(cut.text) = b
        BY <1>6, <2>4, <2>7, PrefixTypes DEF SlotTyped
    <2>9. ASSUME NEW v \in W, NEW p \in Nat, p + Len(v) > T, p + Len(v) <= b,
                 Spells(s.text, p, v, Len(v))
          PROVE  Excused(r, p + Len(v))
        <3>1. PICK n \in Nat \ {0} : n = Len(v)
            BY <1>2 DEF IsWord
        <3>2. p - f \in hits
            BY <1>10, <2>4, <2>9
        <3>3. m <= p - f
            BY <2>3, <3>2
        <3> QED
            <4>1. p + n <= b /\ m \in Nat
                BY <2>3, <2>9, <3>1
            <4>2. FALSE
                BY <2>4, <3>1, <3>3, <4>1
            <4> QED
                BY <4>2
    <2>10. Clean(W, r, s.text, b)
        BY <1>12, <2>9
    <2>11. IsPrefix(SubSeq(s.text, 1, b) \o w, s.text)
        <3>1. /\ w \in Words /\ m + Len(w) <= U /\ SubSeq(u, m + 1, m + Len(w)) = w
            BY <1>3, <1>7, <1>8, <1>9, <2>3, <2>5, StopWordFound
        <3>2. IsWord(w)
            BY <1>1, <1>2, <3>1
        <3>3. PICK L \in Nat : L = Len(w)
            BY <3>2 DEF IsWord
        <3>4. Spells(u, m, w, L)
            <4>1. PICK S : S = Symbols
                OBVIOUS
            <4>2. u \in Seq(S) /\ m \in Nat /\ m + Len(w) <= Len(u)
                BY <1>7, <1>8, <2>3, <3>1, <4>1
            <4> QED
                BY <3>1, <3>2, <3>3, <4>2, SpelledWhole
        <3>5. Spells(s.text, b, w, L)
            <4>1. ASSUME NEW j \in 1..L PROVE s.text[b + j] = w[j]
                <5>1. m + j \in 1..U /\ f + (m + j) = b + j
                    BY <2>3, <2>4, <3>1, <3>3
                <5>2. u[m + j] = s.text[f + (m + j)]
                    BY <1>8, <5>1
                <5> QED
                    BY <3>4, <5>1, <5>2 DEF Spells
            <4> QED
                BY <4>1 DEF Spells
        <3>6. b + L <= N
            BY <1>7, <2>3, <2>4, <3>1, <3>3
        <3>7. SubSeq(s.text, b + 1, b + L) = w
            <4>1. PICK S : S = Symbols
                OBVIOUS
            <4>2. s.text \in Seq(S)
                BY <4>1 DEF SlotTyped
            <4> QED
                BY <1>6, <2>4, <3>2, <3>3, <3>5, <3>6, <4>2, SpelledWhole
        <3>8. s.text \in Seq(Symbols)
            BY DEF SlotTyped
        <3> QED
            BY <1>6, <3>3, <3>6, <3>7, <3>8, WordFollows
    <2>12. s.sent <= b /\ b \in 0..Len(s.text)
        BY <1>5, <1>6, <2>3, <2>4
    <2> QED
        BY <1>1, <2>7, <2>8, <2>10, <2>11, <2>12 DEF Leaves
<1> QED
    BY <1>13, <1>14

(* No word is half sent after a token: none that began before ...           *)
LEMMA NoneBegunGrows ==
    ASSUME req \in Requests, NEW s, SlotTyped(s), NEW q, NEW t, NEW x, NEW r, Grows(s, q, t, x, r)
    PROVE  /\ NoneBegun(Words, s.text, s.sent)
           /\ ~HeldBack(Unsent(s)) => NoneBegun(Words, s.text, Len(s.text))
<1>1. PICK W : W = Words
    OBVIOUS
<1>2. \A w \in W : IsWord(w)
    BY <1>1, WordTypes
<1>3. /\ x \in Seq(Symbols) /\ t \in Seq(Symbols) /\ s.text = t \o x /\ s.sent <= Len(t)
      /\ NoneBegun(W, t, s.sent)
    BY <1>1 DEF Grows
<1>4. PICK T \in Nat, X \in Nat : T = Len(t) /\ X = Len(x)
    BY <1>3, LenProperties
<1>5. PICK f \in Nat : f = s.sent /\ f <= T
    BY <1>3, <1>4 DEF SlotTyped
<1>6. PICK N \in Nat : N = Len(s.text) /\ N = T + X
    BY <1>3, <1>4, ConcatProperties
<1>7. ASSUME NEW w \in W, NEW p \in Nat, NEW m \in 1..Len(w), p < f, p + m = N,
             Spells(s.text, p, w, m)
      PROVE  FALSE
    <2>1. p + m >= Len(t) /\ f <= Len(t) /\ Spells(t \o x, p, w, m) /\ NoneBegun(W, t, f)
        BY <1>3, <1>4, <1>5, <1>6, <1>7
    <2>2. IsWord(w)
        BY <1>2
    <2> QED
        BY <1>3, <1>7, <2>1, <2>2, BegunBefore
<1>8. NoneBegun(W, s.text, s.sent)
    BY <1>5, <1>6, <1>7 DEF NoneBegun
(* ... and none in what was not held back.                                   *)
<1>9. ASSUME NEW w \in W, NEW p \in Nat, NEW m \in 1..Len(w), p >= f, p + m = N,
             Spells(s.text, p, w, m)
      PROVE  HeldBack(Unsent(s))
    <2>1. PICK u : u = Unsent(s)
        OBVIOUS
    <2>2. s.sent <= Len(s.text)
        BY <1>4, <1>5, <1>6
    <2>3. u \in Seq(Symbols) /\ N = f + Len(u) /\ \A j \in 1..Len(u) : u[j] = s.text[f + j]
        BY <1>5, <1>6, <2>1, <2>2, UnsentElements
    <2>4. PICK U \in Nat : U = Len(u)
        BY <2>3, LenProperties
    <2>5. PICK n \in Nat : n = m
        BY <1>2 DEF IsWord
    <2>6. PICK o \in Nat : o = p - f
        BY <1>9
    <2>7. o + n = U
        BY <1>9, <2>3, <2>4, <2>5, <2>6
    <2>8. Spells(u, o, w, m)
        <3>1. ASSUME NEW j \in 1..m PROVE u[o + j] = w[j]
            <4>1. o + j \in 1..U /\ f + (o + j) = p + j
                BY <2>5, <2>6, <2>7
            <4>2. u[o + j] = s.text[f + (o + j)]
                BY <2>3, <2>4, <4>1
            <4> QED
                BY <1>9, <4>1, <4>2 DEF Spells
        <3> QED
            BY <3>1 DEF Spells
    <2>9. IsSuffix(SubSeq(w, 1, m), u)
        <3>1. PICK S : S = Symbols
            OBVIOUS
        <3>2. u \in Seq(S) /\ IsWord(w) /\ o + m = Len(u)
            BY <1>2, <2>3, <2>4, <2>5, <2>7, <3>1
        <3> QED
            BY <2>8, <3>2, EndsInWord
    <2>10. PICK i \in DOMAIN req.words : w = req.words[i]
        BY <1>1 DEF Words
    <2> QED
        BY <2>1, <2>9, <2>10 DEF HeldBack
<1>10. ASSUME ~HeldBack(Unsent(s)) PROVE NoneBegun(W, s.text, Len(s.text))
    <2> SUFFICES ASSUME NEW w \in W, NEW p \in Nat, NEW m \in 1..Len(w), p + m = N,
                        Spells(s.text, p, w, m)
                 PROVE  FALSE
        BY <1>6 DEF NoneBegun
    <2>1. CASE p < f
        BY <1>7, <2>1
    <2>2. CASE ~(p < f)
        <3>1. p >= f
            BY <2>2
        <3> QED
            BY <1>9, <1>10, <3>1
    <2> QED
        BY <2>1, <2>2
<1> QED
    BY <1>1, <1>8, <1>10

(* What is sent, and what is not.                                           *)
SentOf(t, s, cut, eog) ==
    /\ t.text = cut.text /\ t.stop = cut.stop /\ t.word = cut.word /\ t.more = cut.more
    /\ t.sent = s.sent \/ (t.sent = Len(cut.text) /\ SendsText(s, cut, eog))
    /\ \E k \in 0..Len(s.text) : cut.text = SubSeq(s.text, 1, k) /\ Len(cut.text) = k
LEMMA SentFields ==
    ASSUME req \in Requests, NEW s, SlotTyped(s), s.sent <= Len(s.text), NEW last \in Nat,
           NEW eog, NEW cut, cut = CutAtStop(s, last),
           NEW chunk, chunk = Chunk(s, cut, eog),
           NEW t, t = [cut EXCEPT !.sent = @ + Len(chunk)]
    PROVE  SentOf(t, s, cut, eog)
<1>1. /\ s.text \in Seq(Symbols) /\ Len(s.text) \in Nat /\ s.sent \in Nat
      /\ Shortened(cut, s) /\ s.sent <= Len(cut.text)
    BY StopWordCuts, LenProperties DEF SlotTyped
<1>2. SlotTyped(cut) /\ cut.sent = s.sent
    BY <1>1 DEF Shortened, Same
<1>3. PICK k \in 0..Len(s.text) : cut.text = SubSeq(s.text, 1, k)
    BY <1>1 DEF Shortened
<1>4. Len(cut.text) = k /\ s.sent \in 0..k
    BY <1>1, <1>3, PrefixTypes
<1>5. PICK u : u = Unsent(cut)
    OBVIOUS
<1>6. u \in Seq(Symbols) /\ Len(u) = k - s.sent
    BY <1>1, <1>2, <1>4, <1>5, UnsentFrom
<1>7. chunk = IF SendsText(s, cut, eog) THEN u ELSE <<>>
    BY <1>5 DEF Chunk, When
<1>8. PICK n : n = cut.sent + Len(chunk)
    OBVIOUS
<1>9. n = s.sent \/ (n = k /\ SendsText(s, cut, eog))
    <2>1. CASE SendsText(s, cut, eog)
        BY <1>1, <1>2, <1>4, <1>6, <1>7, <1>8, <2>1
    <2>2. CASE ~SendsText(s, cut, eog)
        <3>1. chunk = <<>> /\ Len(chunk) = 0
            BY <1>7, <2>2, EmptySeq
        <3> QED
            BY <1>1, <1>2, <1>8, <3>1
    <2> QED
        BY <2>1, <2>2
<1>10. t = [cut EXCEPT !.sent = n]
    BY <1>8
<1>11. /\ t.text = cut.text /\ t.stop = cut.stop /\ t.word = cut.word /\ t.more = cut.more
       /\ t.sent = n
    BY <1>2, <1>10 DEF SlotTyped, Fields
<1> QED
    BY <1>3, <1>4, <1>9, <1>11 DEF SentOf

(* What ends a generation behind the search may shorten the text, but then   *)
(* it was not a stop word.                                                   *)
Later(t, s) ==
    /\ t.word = s.word
    /\ t.stop = "word" => s.stop = "word" /\ t.text = s.text
    /\ \E k \in 0..Len(s.text) : t.text = SubSeq(s.text, 1, k)
Kept(t, s) == t.word = s.word /\ t.text = s.text /\ (t.stop = "word" => s.stop = "word")

LEMMA PrefixOfPrefix ==
    ASSUME NEW t \in Seq(Symbols), NEW k \in 0..Len(t), NEW n \in 0..k
    PROVE  SubSeq(SubSeq(t, 1, k), 1, n) = SubSeq(t, 1, n)
<1>1. CASE n = 0
    BY <1>1, SubSeqEmpty
<1>2. CASE n # 0
    <2>1. 1 \in 1..Len(t) /\ k \in 1..Len(t) /\ 1 \in 1..(k - 1 + 1) /\ n \in 1..(k - 1 + 1)
        BY <1>2, LenProperties
    <2>2. SubSeq(SubSeq(t, 1, k), 1, n) = SubSeq(t, 1 + 1 - 1, 1 + n - 1)
        BY <2>1, SubSeqOfSubSeq
    <2>3. 1 + 1 - 1 = 1 /\ 1 + n - 1 = n
        BY <2>1
    <2> QED
        BY <2>2, <2>3
<1> QED
    BY <1>1, <1>2

LEMMA KeptEnds ==
    ASSUME NEW s, SlotTyped(s), NEW shown, NEW overdue \in BOOLEAN, NEW eog \in BOOLEAN
    PROVE  /\ Kept(ContextEnd(s), s) /\ Kept(BudgetEnd(s), s)
           /\ Kept(LineEnd(s, shown, overdue), s) /\ Kept(EosEnd(s, eog), s)
           /\ Kept(NextLine(s), s) /\ (EosEnd(s, eog).more => ~eog)
<1>1. DOMAIN s = Fields
    BY DEF SlotTyped
<1>2. Kept(s, s)
    BY DEF Kept
<1>3. Kept(ContextEnd(s), s) /\ Kept(BudgetEnd(s), s) /\ Kept(EosEnd(s, eog), s)
    BY <1>1, <1>2 DEF Kept, ContextEnd, BudgetEnd, EosEnd, Fields
<1>4. Kept(LineEnd(s, shown, overdue), s)
    BY <1>1, <1>2 DEF Kept, LineEnd, Fields
<1>5. Kept(NextLine(s), s)
    BY <1>1, <1>2 DEF Kept, NextLine, Fields
<1>6. EosEnd(s, eog).more => ~eog
    BY <1>1 DEF EosEnd, Fields
<1> QED
    BY <1>3, <1>4, <1>5, <1>6

LEMMA IndentedLater ==
    ASSUME NEW s, SlotTyped(s)
    PROVE  Later(Indented(s), s)
<1>0. s.text \in Seq(Symbols) /\ Len(s.text) \in Nat /\ s.lastNl \in Nat
    BY LenProperties DEF SlotTyped
<1>1. Later(s, s)
    BY <1>0, SubSeqFull DEF Later
<1>2. PICK t : t = CutIndent(s)
    OBVIOUS
<1>3. PICK n \in Nat : n = Indent(s)
    BY IndentTypes
<1>4. Later(t, s) /\ SlotTyped(t)
    <2>1. CASE ~(s.lastNl > 0 /\ s.lastNl + n < Len(s.text) /\ n < req.indent)
        <3>1. t = s
            BY <1>2, <1>3, <2>1 DEF CutIndent
        <3> QED
            BY <1>1, <3>1
    <2>2. CASE s.lastNl > 0 /\ s.lastNl + n < Len(s.text) /\ n < req.indent
        <3>1. PICK k \in 0..Len(s.text) : k = s.lastNl + n
            BY <1>0, <2>2
        <3>2. t = [s EXCEPT !.stop = "limit", !.more = FALSE, !.text = SubSeq(s.text, 1, k)]
            BY <1>2, <1>3, <2>2, <3>1 DEF CutIndent
        <3>3. /\ t.stop = "limit" /\ t.text = SubSeq(s.text, 1, k) /\ t.word = s.word
              /\ DOMAIN t = Fields /\ Same(t, s) /\ t.lastNl = s.lastNl /\ t.more = FALSE
            BY <3>2 DEF SlotTyped, Fields, Same
        <3>4. SlotTyped(t)
            BY <3>3, CutKeeps DEF Reasons, Shortened
        <3> QED
            BY <3>3, <3>4 DEF Later
    <2> QED
        BY <2>1, <2>2
<1>5. Kept(NextLine(t), t)
    BY <1>4, KeptEnds
<1>6. Indented(s) = NextLine(t) \/ Indented(s) = s
    BY <1>2 DEF Indented
<1> QED
    BY <1>1, <1>4, <1>5, <1>6 DEF Later, Kept

LEMMA TokenLater ==
    ASSUME req \in Requests, NEW s, SlotTyped(s), NEW shown, NEW overdue \in BOOLEAN,
           NEW eog \in BOOLEAN,
           NEW e, e = EosEnd(LineEnd(Indented(BudgetEnd(ContextEnd(s))), shown, overdue), eog)
    PROVE  Later(e, s) /\ (e.more => ~eog)
<1>1. PICK a : a = ContextEnd(s)
    OBVIOUS
<1>2. PICK b : b = BudgetEnd(a)
    OBVIOUS
<1>3. PICK i : i = Indented(b)
    OBVIOUS
<1>4. PICK l : l = LineEnd(i, shown, overdue)
    OBVIOUS
<1>5. Kept(a, s) /\ SlotTyped(a)
    BY <1>1, KeptEnds, EndsKeep DEF Ended
<1>6. Kept(b, a) /\ SlotTyped(b)
    BY <1>2, <1>5, KeptEnds, EndsKeep DEF Ended
<1>7. Later(i, b) /\ SlotTyped(i)
    BY <1>3, <1>6, IndentedLater, IndentedCuts
<1>8. Kept(l, i) /\ SlotTyped(l)
    BY <1>4, <1>7, KeptEnds, EndsKeep DEF Ended
<1>9. e = EosEnd(l, eog)
    BY <1>1, <1>2, <1>3, <1>4
<1>10. Kept(e, l) /\ (e.more => ~eog)
    BY <1>8, <1>9, KeptEnds
<1>11. Later(e, s)
    BY <1>5, <1>6, <1>7, <1>8, <1>10 DEF Later, Kept
<1> QED
    BY <1>10, <1>11

LEMMA TokenCovers ==
    ASSUME req \in Requests, NEW added, SlotTyped(added), added.stop # "word",
           NEW q, NEW t, NEW x, NEW r, Grows(added, q, t, x, r),
           NEW eog \in BOOLEAN, NEW shown, NEW overdue \in BOOLEAN,
           NEW cut, cut = CutAtStop(added, Len(x)),
           NEW chunk, chunk = Chunk(added, cut, eog),
           NEW sent, sent = [cut EXCEPT !.sent = @ + Len(chunk)],
           NEW done,
           done = EosEnd(LineEnd(Indented(BudgetEnd(ContextEnd(sent))), shown, overdue), eog),
           NEW s, /\ s.sent = done.sent /\ s.text = done.text /\ s.stop = done.stop
                  /\ s.word = done.word /\ (s.state # "idle" => done.more)
    PROVE  Covers(s, Words, r, added.text)
<1>1. PICK W, raw : W = Words /\ raw = added.text
    OBVIOUS
<1>2. raw \in Seq(Symbols) /\ Len(raw) \in Nat /\ Len(x) \in Nat /\ added.sent \in Nat
    BY <1>1, LenProperties DEF SlotTyped, Grows
<1>3. added.sent <= Len(raw)
    <2>1. /\ raw = t \o x /\ t \in Seq(Symbols) /\ x \in Seq(Symbols) /\ added.sent <= Len(t)
        BY <1>1 DEF Grows
    <2>2. PICK T \in Nat, X \in Nat : T = Len(t) /\ X = Len(x)
        BY <2>1, LenProperties
    <2>3. Len(raw) = T + X
        BY <2>1, <2>2, ConcatProperties
    <2> QED
        BY <1>2, <2>1, <2>2, <2>3
<1>4. Leaves(cut, added, W, r, raw)
    BY <1>1, CutCovers
<1>5. /\ sent.text = cut.text /\ sent.stop = cut.stop /\ sent.word = cut.word
      /\ sent.more = cut.more
      /\ sent.sent = added.sent \/ (sent.sent = Len(cut.text) /\ SendsText(added, cut, eog))
      /\ \E k \in 0..Len(raw) : cut.text = SubSeq(raw, 1, k) /\ Len(cut.text) = k
    <2>1. SentOf(sent, added, cut, eog)
        BY <1>1, <1>2, <1>3, SentFields
    <2> QED
        BY <1>1, <2>1 DEF SentOf
<1>6. SlotTyped(sent)
    BY <1>1, <1>2, <1>3, TokenSent DEF Sends
<1>7. Ends(done, sent)
    BY <1>6, TokenEnds
<1>8. Later(done, sent) /\ (done.more => ~eog)
    BY <1>6, TokenLater
<1>9. PICK k \in 0..Len(raw) : cut.text = SubSeq(raw, 1, k) /\ Len(cut.text) = k
    BY <1>5
<1>10. PICK n \in 0..k : done.text = SubSeq(cut.text, 1, n)
    <2>1. PICK n \in 0..Len(sent.text) : done.text = SubSeq(sent.text, 1, n)
        BY <1>8 DEF Later
    <2>2. sent.text = cut.text /\ Len(sent.text) = k
        BY <1>5, <1>9
    <2> QED
        BY <2>1, <2>2
<1>11. done.text = SubSeq(raw, 1, n) /\ Len(done.text) = n
    <2>1. done.text = SubSeq(raw, 1, n)
        BY <1>2, <1>9, <1>10, PrefixOfPrefix
    <2>2. n \in 0..Len(raw)
        BY <1>2
    <2> QED
        BY <1>2, <2>1, <2>2, PrefixTypes
<1>12. done.sent = sent.sent
    BY <1>7 DEF Ends, Same
<1>13. \E b \in 0..Len(raw) : s.sent <= b /\ Len(s.text) <= b /\ Clean(W, r, raw, b)
    <2>1. PICK b \in 0..Len(raw) : added.sent <= b /\ Len(cut.text) <= b /\ Clean(W, r, raw, b)
        BY <1>4 DEF Leaves
    <2>2. s.sent <= b
        BY <1>5, <1>12, <2>1
    <2>3. Len(s.text) <= b
        <3>1. k <= b /\ b \in Nat
            BY <1>2, <1>9, <2>1
        <3>2. Len(s.text) = n
            BY <1>11
        <3> QED
            BY <1>2, <3>1, <3>2
    <2> QED
        BY <2>1, <2>2, <2>3
<1>14. s.text = SubSeq(raw, 1, Len(s.text))
    BY <1>11
<1>15. ASSUME s.stop = "word" PROVE IsPrefix(s.text \o s.word, raw)
    <2>1. s.text = cut.text /\ s.word = cut.word /\ cut.stop = "word"
        BY <1>5, <1>8, <1>15 DEF Later
    <2>2. cut # added
        BY <2>1
    <2> QED
        BY <1>4, <2>1, <2>2 DEF Leaves
<1>16. ASSUME s.state # "idle"
       PROVE  s.stop # "word" /\ Clean(W, r, raw, Len(raw)) /\ NoneBegun(W, raw, s.sent)
    <2>1. cut.more = TRUE
        <3>1. done.more /\ SlotTyped(sent) /\ (done.more => sent.more)
            BY <1>6, <1>7, <1>16 DEF Ends
        <3> QED
            BY <1>5, <3>1 DEF SlotTyped
    <2>2. cut = added /\ Clean(W, r, raw, Len(raw))
        BY <1>4, <2>1 DEF Leaves
    <2>3. s.stop # "word"
        BY <1>5, <1>8, <2>2 DEF Later
    <2>4. s.sent = added.sent \/ (s.sent = Len(raw) /\ ~HeldBack(Unsent(added)))
        <3>1. ~eog
            BY <1>8, <1>16
        <3> QED
            BY <1>1, <1>5, <1>12, <2>2, <3>1 DEF SendsText
    <2>5. NoneBegun(W, raw, s.sent)
        BY <1>1, <2>4, NoneBegunGrows
    <2> QED
        BY <2>2, <2>3, <2>5
<1> QED
    BY <1>1, <1>13, <1>14, <1>15, <1>16 DEF Covers

LEMMA TokenCovered ==
    ASSUME Inv, Covered, slot.state \in {"done_prompt", "generating"}, NEW piece \in Seq(Symbols),
           NEW eog \in BOOLEAN, NEW overdue \in BOOLEAN, ProcessToken(piece, eog, overdue),
           pieces' = Append(pieces, piece), UNCHANGED <<req, reader, late>>
    PROVE  Covered'
<1>1. slot.state # "idle"
    OBVIOUS
<1>2. PICK last \in Nat : last = Len(piece)
    BY LenProperties
<1>3. PICK t, q, r : t = Raw /\ q = pieces /\ r = pieces'
    OBVIOUS
<1>4. /\ t \in Seq(Symbols) /\ q \in Seq(Seq(Symbols)) /\ r = Append(q, piece)
      /\ t = FlattenSeq(q) /\ FlattenSeq(r) = t \o piece /\ Raw' = FlattenSeq(r)
    <2>1. q \in Seq(Seq(Symbols))
        BY <1>3 DEF Inv, Shapes
    <2>2. FlattenSeq(Append(q, piece)) = FlattenSeq(q) \o piece
        BY <2>1, FlattenAppend
    <2> QED
        BY <1>3, <2>1, <2>2, RawTypes DEF Raw, Inv
<1>5. PICK added : added = [slot EXCEPT !.state = "generating", !.decoded = @ + 1,
                                        !.text = @ \o piece, !.more = TRUE]
    OBVIOUS
<1>6. /\ SlotTyped(added) /\ added.text = t \o piece /\ added.sent = slot.sent
      /\ added.stop = slot.stop /\ slot.sent <= Len(t)
    <2>1. SlotTyped(slot) /\ Generates
        BY DEF Inv, Shapes
    <2>2. slot.text = t /\ slot.sent <= Len(t)
        BY <1>1, <1>3, <2>1 DEF Generates
    <2>3. /\ DOMAIN added = Fields /\ added.sent = slot.sent /\ added.lastNl = slot.lastNl
          /\ added.more = TRUE /\ added.stop = slot.stop /\ added.text = slot.text \o piece
          /\ added.decoded = slot.decoded + 1
        BY <1>5, <2>1 DEF SlotTyped, Fields
    <2>4. slot.sent \in Nat /\ slot.lastNl \in Nat /\ slot.stop \in Reasons /\ slot.decoded \in Nat
        BY <2>1 DEF SlotTyped
    <2>5. added.text \in Seq(Symbols)
        BY <1>4, <2>2, <2>3, ConcatProperties
    <2>6. SlotTyped(added)
        <3>1. added.decoded \in Nat
            BY <2>3, <2>4
        <3> QED
            BY <2>3, <2>4, <2>5, <3>1 DEF SlotTyped
    <2> QED
        BY <2>2, <2>3, <2>6
<1>7. added.stop # "word" /\ Clean(Words, q, t, Len(t)) /\ NoneBegun(Words, t, slot.sent)
    BY <1>1, <1>3, <1>6 DEF Covered, Covers
<1>8. Grows(added, q, t, piece, r)
    BY <1>4, <1>6, <1>7 DEF Grows
<1>9. PICK cut : cut = CutAtStop(added, last)
    OBVIOUS
<1>10. PICK chunk : chunk = Chunk(added, cut, eog)
    OBVIOUS
<1>11. PICK sent : sent = [cut EXCEPT !.sent = @ + Len(chunk)]
    OBVIOUS
<1>12. PICK shown : shown = IF Incomplete(added.text) THEN piece ELSE chunk
    OBVIOUS
<1>13. PICK done :
          done = EosEnd(LineEnd(Indented(BudgetEnd(ContextEnd(sent))), shown, overdue), eog)
    OBVIOUS
<1>14. slot' = IF done.more THEN done ELSE [done EXCEPT !.state = "idle"]
    BY <1>2, <1>5, <1>9, <1>10, <1>11, <1>12, <1>13, ZenonT(60) DEF ProcessToken
<1>15. SlotTyped(done)
    <2>1. added.sent <= Len(added.text)
        <3>1. PICK T \in Nat, f \in Nat : T = Len(t) /\ f = slot.sent /\ f <= T
            BY <1>4, <1>6, LenProperties DEF SlotTyped
        <3>2. Len(added.text) = T + last
            BY <1>2, <1>4, <1>6, <3>1, ConcatProperties
        <3> QED
            BY <1>6, <3>1, <3>2
    <2>2. req \in Requests
        BY DEF Inv, Shapes
    <2>3. SlotTyped(sent)
        BY <1>6, <1>9, <1>10, <1>11, <2>1, <2>2, TokenSent DEF Sends
    <2> QED
        BY <1>13, <2>2, <2>3, TokenEnds DEF Ends
<1>16. PICK s : s = slot'
    OBVIOUS
<1>17. /\ s.sent = done.sent /\ s.text = done.text /\ s.stop = done.stop
       /\ s.word = done.word /\ (s.state # "idle" => done.more)
    BY <1>14, <1>15, <1>16 DEF SlotTyped, Fields
<1>18. Covers(s, Words, r, added.text)
    <2>1. req \in Requests /\ SlotTyped(added) /\ added.stop # "word"
        BY <1>6, <1>7 DEF Inv, Shapes
    <2>2. cut = CutAtStop(added, Len(piece))
        BY <1>2, <1>9
    <2> QED
        BY <1>8, <1>10, <1>11, <1>13, <1>17, <2>1, <2>2, TokenCovers
<1>19. Words' = Words
    BY DEF Words
<1> QED
    BY <1>3, <1>4, <1>6, <1>16, <1>18, <1>19 DEF Covered, Covers

LEMMA InitCovered == Init => Covered
<1> SUFFICES ASSUME Init PROVE Covered
    OBVIOUS
<1>1. /\ Raw = <<>> /\ Len(Raw) = 0 /\ slot.sent = 0 /\ slot.text = <<>> /\ Len(slot.text) = 0
      /\ slot.stop = "none" /\ req \in Requests
    BY EmptySeq DEF Init, Raw, FlattenSeq
<1>2. Clean(Words, pieces, Raw, 0)
    <2> SUFFICES ASSUME NEW w \in Words, NEW p \in Nat, p + Len(w) <= 0 PROVE FALSE
        BY DEF Clean
    <2>1. PICK n \in Nat \ {0} : n = Len(w)
        BY <1>1, WordTypes DEF IsWord
    <2> QED
        BY <2>1
<1>3. NoneBegun(Words, Raw, 0)
    BY DEF NoneBegun
<1>4. SubSeq(Raw, 1, 0) = <<>>
    BY SubSeqEmpty
<1> QED
    BY <1>1, <1>2, <1>3, <1>4 DEF Covered, Covers

LEMMA NextCovered == Inv /\ Covered /\ [Next]_vars => Covered'
<1> SUFFICES ASSUME Inv, Covered, [Next]_vars PROVE Covered'
    OBVIOUS
<1>1. ASSUME UNCHANGED <<req, slot, pieces>> PROVE Covered'
    BY <1>1 DEF Covered, Covers, Words, Raw
<1>2. CASE SendProgress \/ ReadPartial \/ ReadFinal \/ UNCHANGED vars
    BY <1>1, <1>2 DEF SendProgress, ReadPartial, ReadFinal, vars
<1>3. CASE AnswerEmptyPrompt
    <2>1. slot' = [slot EXCEPT !.state = "idle"] /\ UNCHANGED <<req, pieces>> /\ SlotTyped(slot)
        BY <1>3 DEF AnswerEmptyPrompt, Inv, Shapes
    <2>2. PICK s : s = slot'
        OBVIOUS
    <2>3. /\ s.sent = slot.sent /\ s.text = slot.text /\ s.stop = slot.stop
          /\ s.word = slot.word /\ s.state = "idle"
        BY <2>1, <2>2 DEF SlotTyped, Fields
    <2>4. Covers(s, Words, pieces, Raw)
        BY <2>3 DEF Covered, Covers
    <2> QED
        BY <2>1, <2>2, <2>4 DEF Covered, Covers, Words, Raw
<1>4. CASE EndPrompt
    <2>1. /\ slot' = [slot EXCEPT !.state = "done_prompt", !.decoded = 0]
          /\ slot.state = "prompt" /\ UNCHANGED <<req, pieces>> /\ SlotTyped(slot)
        BY <1>4 DEF EndPrompt, Inv, Shapes
    <2>2. PICK s : s = slot'
        OBVIOUS
    <2>3. /\ s.sent = slot.sent /\ s.text = slot.text /\ s.stop = slot.stop
          /\ s.word = slot.word /\ s.state = "done_prompt"
        BY <2>1, <2>2 DEF SlotTyped, Fields
    <2>4. Covers(s, Words, pieces, Raw)
        BY <2>1, <2>3 DEF Covered, Covers
    <2> QED
        BY <2>1, <2>2, <2>4 DEF Covered, Covers, Words, Raw
<1>5. CASE Sample
    <2>1. PICK piece \in req.pieces \cup {<<>>}, eog \in BOOLEAN, overdue \in {FALSE, req.timed} :
             /\ ProcessToken(piece, eog, overdue)
             /\ pieces' = Append(pieces, piece)
        BY <1>5 DEF Sample
    <2>2. piece \in Seq(Symbols)
        BY RequestTypes, EmptySeq DEF Inv, Shapes
    <2>3. overdue \in BOOLEAN
        <3>1. RequestAssumption(req)
            BY AnswerStreamAssumption DEF Inv, Shapes
        <3> QED
            BY <3>1 DEF RequestAssumption
    <2>4. slot.state \in {"done_prompt", "generating"} /\ UNCHANGED <<req, reader, late>>
        BY <1>5 DEF Sample
    <2> QED
        BY <2>1, <2>2, <2>3, <2>4, TokenCovered
<1> QED
    BY <1>2, <1>3, <1>4, <1>5 DEF Next

(* What is shown of the text is clean.                                      *)
LEMMA CoveredKept == Inv /\ Covered => StopWordKept
<1> SUFFICES ASSUME Inv, Covered PROVE StopWordKept
    OBVIOUS
<1>1. PICK shown : shown = IF req.stream THEN Streamed ELSE slot.text
    OBVIOUS
<1>2. PICK W, t : W = Words /\ t = Raw
    OBVIOUS
<1>3. /\ t \in Seq(Symbols) /\ Len(t) \in Nat /\ req \in Requests
      /\ slot.sent \in Nat /\ slot.text \in Seq(Symbols) /\ Len(slot.text) \in Nat
    BY <1>2, RawTypes, LenProperties DEF Inv, Shapes, SlotTyped
<1>4. PICK b \in 0..Len(t) : slot.sent <= b /\ Len(slot.text) <= b /\ Clean(W, pieces, t, b)
    BY <1>2 DEF Covered, Covers
<1>5. PICK n \in Nat : n <= b /\ shown = SubSeq(t, 1, n)
    <2>1. CASE req.stream
        BY <1>1, <1>2, <1>3, <1>4, <2>1 DEF Inv, SentIsGenerated
    <2>2. CASE ~req.stream
        BY <1>1, <1>2, <1>3, <1>4, <2>2 DEF Covered, Covers
    <2> QED
        BY <2>1, <2>2
<1>6. shown \in Seq(Symbols) /\ Len(shown) = n /\ \A j \in 1..n : shown[j] = t[j]
    <2>1. PICK S : S = Symbols
        OBVIOUS
    <2>2. t \in Seq(S) /\ 0 + n <= Len(t) /\ 0 \in Nat
        BY <1>3, <1>4, <1>5, <2>1
    <2>3. /\ SubSeq(t, 0 + 1, 0 + n) \in Seq(S) /\ Len(SubSeq(t, 0 + 1, 0 + n)) = n
          /\ \A j \in 1..n : SubSeq(t, 0 + 1, 0 + n)[j] = t[0 + j]
        BY <2>2, PartElements
    <2>4. 0 + 1 = 1 /\ 0 + n = n /\ \A j \in 1..n : 0 + j = j
        OBVIOUS
    <2> QED
        BY <1>5, <2>1, <2>3, <2>4
<1>7. ASSUME NEW i \in DOMAIN req.words, NEW p \in Occurrences(req.words[i], shown, 0)
      PROVE  \E k \in DOMAIN pieces :
                 EndsAt(k, p + Len(req.words[i])) /\ Incomplete(TextUntil(k))
    <2>1. PICK w : w = req.words[i]
        OBVIOUS
    <2>2. w \in W /\ IsWord(w)
        BY <1>2, <1>3, <2>1, WordTypes
    <2>3. PICK L \in Nat : L = Len(w)
        BY <2>2 DEF IsWord
    <2>4. p \in Nat /\ p + L <= n /\ SubSeq(shown, p + 1, p + L) = w
        <3>1. p \in 0..(n - L) /\ SubSeq(shown, p + 1, p + L) = w
            BY <1>6, <2>1, <2>3 DEF Occurrences
        <3> QED
            BY <3>1
    <2>5. Spells(shown, p, w, L)
        <3>1. PICK S : S = Symbols
            OBVIOUS
        <3>2. shown \in Seq(S) /\ p + Len(w) <= Len(shown)
            BY <1>6, <2>3, <2>4, <3>1
        <3> QED
            BY <2>2, <2>3, <2>4, <3>2, SpelledWhole
    <2>6. Spells(t, p, w, L)
        <3>1. ASSUME NEW j \in 1..L PROVE t[p + j] = w[j]
            <4>1. p + j \in 1..n
                BY <2>4
            <4> QED
                BY <1>6, <2>5, <4>1 DEF Spells
        <3> QED
            BY <3>1 DEF Spells
    <2>7. Excused(pieces, p + L)
        <3>1. p + L <= b
            BY <1>3, <1>5, <2>4
        <3> QED
            BY <1>4, <2>2, <2>3, <2>4, <2>6, <3>1 DEF Clean
    <2>8. PICK k \in DOMAIN pieces :
             /\ Len(Until(pieces, k - 1)) < p + L /\ p + L <= Len(Until(pieces, k))
             /\ Incomplete(Until(pieces, k))
        BY <2>7 DEF Excused
    <2>9. EndsAt(k, p + L) /\ Incomplete(TextUntil(k))
        BY <2>8 DEF EndsAt, TextUntil, Concat, Until
    <2> QED
        BY <2>1, <2>3, <2>9
<1>8. slot.stop = "word" => IsPrefix(slot.text \o slot.word, Raw)
    BY DEF Covered, Covers
<1> QED
    BY <1>1, <1>7, <1>8 DEF StopWordKept

-----------------------------------------------------------------------------
(* The theorems                                                             *)

LEMMA InvTypeOK == Inv => TypeOK
<1> SUFFICES ASSUME Inv PROVE TypeOK
    OBVIOUS
<1>1. Len(Raw) \in Nat
    BY RawTypes DEF Inv
<1>2. /\ req \in Requests /\ late \in BOOLEAN
      /\ slot.text \in Seq(Symbols) /\ slot.stop \in {"none", "word", "limit", "eos"}
      /\ slot.sent \in 0..Len(Raw) /\ slot.lastNl \in 0..Len(Raw) /\ slot.decoded \in Nat
    BY <1>1 DEF Inv, Shapes, SlotTyped, Reasons, Generates
<1>3. \A i \in DOMAIN results : results[i].final => i = Len(results) /\ slot.state = "idle"
    BY ContentsTypes DEF Inv, Shapes, FinalIsLast
<1> QED
    BY <1>2, <1>3 DEF TypeOK, Inv, Generates

LEMMA SpecInv == Spec => []Inv
    BY InitInv, NextInv, PTL DEF Spec

(* The text of a slot is made of what the tokens are made of, what was sent *)
(* of it and the last new line lie within what was generated, n_decoded     *)
(* counts the tokens once the prompt is done (whatever the task before has  *)
(* left in it), and the final result is the last of a task.                 *)
THEOREM TypeCorrect == Spec => []TypeOK
    BY SpecInv, InvTypeOK, PTL

(* Whatever the tokens, the stop words and the limits, a stream has sent    *)
(* the beginning of what was generated, n_sent_text long, and what the end  *)
(* of the generation left behind ended inside a character or a stop word    *)
(* (process_token, send_partial_response, send_final_response).             *)
THEOREM SentAlwaysGenerated == Spec => []SentIsGenerated
<1>1. Inv => SentIsGenerated
    BY DEF Inv
<1> QED
    BY <1>1, SpecInv, PTL

(* Whatever the tokens and the stop words, and wherever tokens cut them: the *)
(* answer, streamed or whole, has a stop word only if it ended in a token    *)
(* that also began a character, and an answer that ended at a word is what   *)
(* was generated before it (find_stopping_strings, process_token).          *)
THEOREM StopWordsKept == Spec => []StopWordKept
<1>1. Init => Inv /\ Covered
    BY InitInv, InitCovered
<1>2. Inv /\ Covered /\ [Next]_vars => (Inv /\ Covered)'
    BY NextInv, NextCovered
<1>3. Inv /\ Covered => StopWordKept
    BY CoveredKept
<1> QED
    BY <1>1, <1>2, <1>3, PTL DEF Spec
=============================================================================
