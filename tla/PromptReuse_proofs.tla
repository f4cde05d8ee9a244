-------------------------- MODULE PromptReuse_proofs --------------------------
(***************************************************************************)
(* What PromptReuse says of the prompts that are kept and reused holds for *)
(* any requests, any number of slots and any sizes of context, batch,      *)
(* window and cache.  The argument:                                        *)
(*                                                                         *)
(* Every prompt that is kept, in a slot, in the cache or in the file, is   *)
(* right by itself (RightStates): no cell beyond the context, the cells of *)
(* full attention those of its tokens, its checkpoints within their limit; *)
(* and a slot that works has a request and no cell behind its tokens       *)
(* (Works).  Each action takes right prompts to right prompts, so this is  *)
(* inductive (Reusable).                                                   *)
(*                                                                         *)
(* The window then reaches back far enough (ReachStates), a property again *)
(* of one prompt, as long as no window too short was kept (Full), and a    *)
(* prompt with tokens has memory (Held).                                   *)
(*                                                                         *)
(* The limits of the cache need no more than its types: what update()      *)
(* leaves is within them, and alloc() saves nothing that is contained in   *)
(* another state or contains one (Apart).                                  *)
(***************************************************************************)
EXTENDS PromptReuse, TLAPS, FiniteSetTheorems, SequenceTheorems,
        WellFoundedInduction

-----------------------------------------------------------------------------
(* What the helpers return, and the order of numbers.                       *)

(* A nonempty set of naturals has a least element: what stands for           *)
(* induction where the induction theorems cannot be instantiated.           *)
LEMMA LeastElement ==
    ASSUME NEW S, S \subseteq Nat, S # {}
    PROVE  \E x \in S : \A y \in S : x =< y
<1>1. \E x \in S : \A y \in S : ~(<<y, x>> \in OpToRel(<, Nat))
    BY NatLessThanWellFounded, WFMin
<1>2. PICK x \in S : \A y \in S : ~(<<y, x>> \in OpToRel(<, Nat))
    BY <1>1
<1>3. \A y \in S : x =< y
    <2> SUFFICES ASSUME NEW y \in S, y < x PROVE FALSE
        OBVIOUS
    <2>1. <<y, x>> \in OpToRel(<, Nat)
        BY DEF OpToRel
    <2> QED
        BY <2>1, <1>2
<1> QED
    BY <1>3

(* Min returns it.                                                          *)
LEMMA MinIsElement ==
    ASSUME NEW S, S \subseteq Nat, S # {}
    PROVE  Min(S) \in S /\ \A y \in S : Min(S) =< y
    BY LeastElement DEF Min

(* What RemoveAt returns, position by position.                             *)
LEMMA RemoveAtElements ==
    ASSUME NEW S, NEW q \in Seq(S), NEW i \in 1..Len(q)
    PROVE  /\ RemoveAt(q, i) \in Seq(S) /\ Len(RemoveAt(q, i)) = Len(q) - 1
           /\ \A k \in 1..(Len(q) - 1) :
                 RemoveAt(q, i)[k] = IF k < i THEN q[k] ELSE q[k + 1]
<1> DEFINE a == SubSeq(q, 1, i - 1)
           b == SubSeq(q, i + 1, Len(q))
<1>1. /\ a \in Seq(S) /\ Len(a) = i - 1
      /\ \A j \in 1..(i - 1) : a[j] = q[j]
    BY SubSeqProperties, ElementOfSeq
<1>2. /\ b \in Seq(S) /\ Len(b) = Len(q) - i
      /\ \A j \in 1..(Len(q) - i) : b[j] = q[i + j]
    BY SubSeqProperties, ElementOfSeq
<1> HIDE DEF a, b
<1>3. /\ a \o b \in Seq(S) /\ Len(a \o b) = Len(a) + Len(b)
      /\ \A j \in 1..(Len(a) + Len(b)) :
            (a \o b)[j] = IF j <= Len(a) THEN a[j] ELSE b[j - Len(a)]
    BY <1>1, <1>2, ConcatProperties
<1>4. Len(a) = i - 1 /\ Len(a) + Len(b) = Len(q) - 1
    BY <1>1, <1>2, LenProperties
<1>5. ASSUME NEW k \in 1..(Len(q) - 1)
      PROVE  (a \o b)[k] = IF k < i THEN q[k] ELSE q[k + 1]
    <2>1. CASE k < i
        BY <2>1, <1>1, <1>3, <1>4
    <2>2. CASE k >= i
        <3> DEFINE n == k - (i - 1)
        <3>1. n \in 1..(Len(q) - i) /\ i + n = k + 1 /\ ~(k <= i - 1) /\ ~(k < i)
            BY <2>2
        <3>2. (a \o b)[k] = b[n]
            BY <3>1, <1>3, <1>4
        <3>3. b[n] = q[i + n]
            <4> HIDE DEF n
            <4> QED
                BY <3>1, <1>2
        <3> QED
            BY <3>1, <3>2, <3>3
    <2>3. k < i \/ k >= i
        OBVIOUS
    <2> QED
        BY <2>1, <2>2, <2>3
<1> QED
    BY <1>3, <1>4, <1>5 DEF RemoveAt, a, b

(* Taking one position out of a sequence leaves a sequence over the same    *)
(* set, in which every other position is still found.                       *)
LEMMA RemoveAtProperties ==
    ASSUME NEW S, NEW q \in Seq(S), NEW i \in 1..Len(q)
    PROVE  /\ RemoveAt(q, i) \in Seq(S)
           /\ \A j \in 1..Len(q) : j # i =>
                \E k \in 1..Len(RemoveAt(q, i)) : RemoveAt(q, i)[k] = q[j]
<1>1. ASSUME NEW j \in 1..Len(q), j # i
      PROVE  \E k \in 1..(Len(q) - 1) : RemoveAt(q, i)[k] = q[j]
    <2>1. CASE j < i
        <3>1. j \in 1..(Len(q) - 1)
            BY <2>1
        <3> QED
            BY <2>1, <3>1, RemoveAtElements
    <2>2. CASE j > i
        <3>1. j - 1 \in 1..(Len(q) - 1) /\ ~(j - 1 < i) /\ (j - 1) + 1 = j
            BY <2>2
        <3> QED
            BY <3>1, RemoveAtElements
    <2> QED
        BY <2>1, <2>2, <1>1
<1> QED
    BY <1>1, RemoveAtElements

(* The recursive function of KeepAt exists.                                 *)
IsKept(g, q, K, len) ==
    g = [n \in 0..len |-> IF n = 0 THEN <<>>
                          ELSE IF n \in K THEN Append(g[n - 1], q[n]) ELSE g[n - 1]]

LEMMA KeptExists ==
    ASSUME NEW q, NEW K, NEW len \in Nat
    PROVE  \E g : IsKept(g, q, K, len)
<1> USE DEF IsKept
<1> DEFINE body(g, n) == IF n = 0 THEN <<>>
                         ELSE IF n \in K THEN Append(g[n - 1], q[n]) ELSE g[n - 1]
           Bad == {n \in Nat : ~(\E g : g = [i \in 0..n |-> body(g, i)])}
<1>1. CASE Bad = {}
    BY <1>1
<1>2. CASE Bad # {}
    <2>1. PICK n \in Bad : \A y \in Bad : n =< y
        <3> HIDE DEF Bad
        <3>1. Bad \subseteq Nat
            BY DEF Bad
        <3> QED
            BY <3>1, <1>2, LeastElement
    <2>2. CASE n = 0
        <3> DEFINE g == [i \in 0..0 |-> <<>>]
        <3>1. g = [i \in 0..0 |-> body(g, i)]
            OBVIOUS
        <3> QED
            BY <3>1, <2>2
    <2>3. CASE n # 0
        <3>1. n - 1 \in Nat /\ n - 1 \notin Bad
            <4>1. n \in Nat
                OBVIOUS
            <4> HIDE DEF Bad
            <4> QED
                BY <4>1, <2>1, <2>3
        <3>2. PICK g : g = [i \in 0..(n - 1) |-> body(g, i)]
            BY <3>1
        <3> DEFINE h == [i \in 0..n |-> IF i = n THEN body(g, n) ELSE g[i]]
        <3>3. ASSUME NEW i \in 0..n PROVE h[i] = body(h, i)
            <4>1. CASE i = 0
                BY <4>1, <2>3, <3>2
            <4>2. CASE i # 0
                <5>1. i - 1 \in 0..(n - 1) /\ i - 1 \in 0..n /\ i - 1 # n
                    BY <4>2
                <5>2. h[i - 1] = g[i - 1]
                    BY <5>1
                <5>3. body(h, i) = body(g, i)
                    BY <5>2, <4>2
                <5>4. i # n => i \in 0..(n - 1)
                    OBVIOUS
                <5>5. i # n => g[i] = body(g, i)
                    BY <5>4, <3>2
                <5> QED
                    BY <5>3, <5>5
            <4> QED
                BY <4>1, <4>2
        <3>4. h = [i \in 0..n |-> body(h, i)]
            BY <3>3
        <3>5. n \notin Bad
            BY <3>4
        <3> QED
            BY <3>5
    <2> QED
        BY <2>2, <2>3
<1> QED
    BY <1>1, <1>2

(* KeepAt keeps the positions of K and their order: m lists them.           *)
Lists(m, p, q, K) ==
    /\ m \in [1..Len(p) -> K]
    /\ \A i, j \in 1..Len(p) : i < j => m[i] < m[j]
    /\ \A i \in 1..Len(p) : p[i] = q[m[i]]
    /\ \A k \in K : \E i \in 1..Len(p) : m[i] = k

LEMMA KeepAtProperties ==
    ASSUME NEW S, NEW q \in Seq(S), NEW K, K \subseteq 1..Len(q)
    PROVE  KeepAt(q, K) \in Seq(S) /\ \E m : Lists(m, KeepAt(q, K), q, K)
<1> DEFINE N == Len(q)
           f == CHOOSE g : IsKept(g, q, K, N)
           Order(s, m, n) == s \in Seq(S) /\ Lists(m, s, q, K \cap 1..n)
           Bad == {n \in 0..N : ~(\E m : Order(f[n], m, n))}
<1>1. N \in Nat
    BY LenProperties
<1>2. IsKept(f, q, K, N)
    BY <1>1, KeptExists
<1>3. KeepAt(q, K) = f[N]
    BY DEF KeepAt, IsKept
<1> HIDE DEF N, f
<1> USE DEF Lists
<1>4. f[0] = <<>>
    BY <1>1, <1>2 DEF IsKept
<1>5. ASSUME NEW n \in 0..N, n # 0
      PROVE  f[n] = IF n \in K THEN Append(f[n - 1], q[n]) ELSE f[n - 1]
    BY <1>1, <1>2, <1>5 DEF IsKept
<1>6. CASE Bad # {}
    <2>1. PICK n \in Bad : \A y \in Bad : n =< y
        <3>1. Bad \subseteq Nat
            BY <1>1
        <3> HIDE DEF Bad
        <3> QED
            BY <3>1, <1>6, LeastElement
    <2>2. CASE n = 0
        <3>1. /\ <<>> \in Seq(S) /\ Len(<<>>) = 0
              /\ 1..0 = {} /\ <<>> \in [{} -> K \cap 1..0]
            OBVIOUS
        <3>2. Order(<<>>, <<>>, 0)
            BY <3>1
        <3>3. f[n] = <<>>
            BY <1>4, <2>2
        <3>4. Order(f[n], <<>>, n)
            BY <2>2, <3>2, <3>3
        <3> QED
            BY <3>4
    <2>3. CASE n # 0
        <3>1. n - 1 \in 0..N /\ n - 1 \notin Bad /\ n \in 1..N
            <4>1. n \in 0..N
                OBVIOUS
            <4> HIDE DEF Bad
            <4> QED
                BY <4>1, <2>1, <2>3, <1>1
        <3>2. PICK m : Order(f[n - 1], m, n - 1)
            BY <3>1
        <3> DEFINE s == f[n - 1]
                   L == Len(s)
        <3>3. s \in Seq(S) /\ L \in Nat /\ DOMAIN m = 1..L
            BY <3>2, LenProperties
        <3> HIDE DEF s
        <3>4. CASE n \notin K
            <4>1. f[n] = s
                BY <3>4, <1>5, <2>3 DEF s
            <4>2. K \cap 1..n = K \cap 1..(n - 1)
                BY <3>1, <3>4
            <4>3. Order(s, m, n)
                BY <3>2, <4>2 DEF s
            <4> QED
                BY <4>1, <4>3
        <3>5. CASE n \in K
            <4> DEFINE t == Append(s, q[n])
                       p == [i \in 1..(L + 1) |-> IF i = L + 1 THEN n ELSE m[i]]
            <4>1. f[n] = t
                BY <3>5, <1>5, <2>3 DEF s
            <4>2. q[n] \in S
                BY <3>1, ElementOfSeq DEF N
            <4>3. /\ t \in Seq(S) /\ Len(t) = L + 1
                  /\ \A i \in 1..L : t[i] = s[i]
                  /\ t[L + 1] = q[n]
                BY <3>3, <4>2, AppendProperties
            <4>4. /\ \A i \in 1..L : m[i] \in K /\ m[i] \in 1..(n - 1)
                  /\ \A i, j \in 1..L : i < j => m[i] < m[j]
                  /\ \A i \in 1..L : s[i] = q[m[i]]
                  /\ \A k \in K \cap 1..(n - 1) : \E i \in 1..L : m[i] = k
                BY <3>2 DEF s
            <4> HIDE DEF t, L
            <4>5. \A i \in 1..(L + 1) : i = L + 1 \/ i \in 1..L
                BY <3>3
            <4>6. p[L + 1] = n /\ \A i \in 1..L : p[i] = m[i] /\ i # L + 1
                BY <3>3
            <4>7. p \in [1..(L + 1) -> K \cap 1..n]
                <5>1. ASSUME NEW i \in 1..(L + 1) PROVE p[i] \in K /\ p[i] \in 1..n
                    BY <3>1, <3>5, <4>4, <4>5, <4>6
                <5> QED
                    BY <5>1
            <4> HIDE DEF p
            <4>8. ASSUME NEW i \in 1..(L + 1), NEW j \in 1..(L + 1), i < j
                  PROVE  p[i] < p[j]
                <5>1. i \in 1..L
                    BY <4>8, <3>3
                <5>2. CASE j = L + 1
                    <6>1. m[i] \in 1..(n - 1) /\ p[i] = m[i] /\ p[j] = n
                        BY <5>1, <5>2, <4>4, <4>6
                    <6> QED
                        BY <6>1, <3>1
                <5>3. CASE j \in 1..L
                    BY <5>1, <5>3, <4>4, <4>6, <4>8
                <5> QED
                    BY <5>2, <5>3, <4>5
            <4>9. ASSUME NEW i \in 1..(L + 1) PROVE t[i] = q[p[i]]
                <5>1. CASE i = L + 1
                    BY <5>1, <4>3, <4>6
                <5>2. CASE i \in 1..L
                    <6>1. t[i] = s[i] /\ s[i] = q[m[i]] /\ p[i] = m[i]
                        BY <5>2, <4>3, <4>4, <4>6
                    <6> QED
                        BY <6>1
                <5> QED
                    BY <5>1, <5>2, <4>5
            <4>10. \A k \in K \cap 1..n : \E i \in 1..(L + 1) : p[i] = k
                <5>1. ASSUME NEW k \in K \cap 1..n PROVE \E i \in 1..(L + 1) : p[i] = k
                    <6>1. CASE k = n
                        <7>1. L + 1 \in 1..(L + 1)
                            BY <3>3
                        <7> QED
                            BY <6>1, <7>1, <4>6
                    <6>2. CASE k # n
                        <7>1. k \in K \cap 1..(n - 1)
                            BY <6>2, <3>1
                        <7>2. PICK i \in 1..L : m[i] = k
                            BY <7>1, <4>4
                        <7>3. i \in 1..(L + 1)
                            BY <3>3
                        <7> QED
                            BY <7>2, <7>3, <4>6
                    <6> QED
                        BY <6>1, <6>2
                <5> QED
                    BY <5>1
            <4>11. Order(t, p, n)
                BY <4>3, <4>7, <4>8, <4>9, <4>10
            <4> QED
                BY <4>1, <4>11
        <3> QED
            BY <3>4, <3>5
    <2> QED
        BY <2>2, <2>3
<1>7. CASE Bad = {}
    <2>1. \E m : Order(f[N], m, N)
        BY <1>7, <1>1
    <2>2. K \cap 1..N = K
        BY DEF N
    <2> QED
        BY <2>1, <2>2, <1>3
<1> QED
    BY <1>6, <1>7


-----------------------------------------------------------------------------
(* Greatest and least of numbers.                                           *)
LEMMA MaxIsElement ==
    ASSUME NEW S, S \subseteq Nat, S # {}, NEW b \in Nat, \A x \in S : x <= b
    PROVE  Max(S) \in S /\ \A y \in S : y <= Max(S)
<1> DEFINE T == {n \in Nat : b - n \in S}
<1>1. T \subseteq Nat
    OBVIOUS
<1>2. T # {}
    <2>1. PICK x \in S : TRUE
        OBVIOUS
    <2>2. b - x \in Nat /\ b - (b - x) = x
        BY <2>1
    <2> QED
        BY <2>2
<1>3. PICK n \in T : \A y \in T : n =< y
    <2> HIDE DEF T
    <2> QED
        BY <1>1, <1>2, LeastElement
<1>4. b - n \in S
    BY <1>3
<1>5. ASSUME NEW y \in S PROVE b - n >= y
    <2>1. b - y \in Nat /\ b - (b - y) = y
        BY <1>5
    <2>2. b - y \in T
        BY <2>1
    <2>3. n =< b - y
        BY <2>2, <1>3
    <2> QED
        BY <2>1, <2>3, <1>5
<1>6. \E x \in S : \A y \in S : x >= y
    BY <1>4, <1>5
<1> HIDE DEF T
<1> QED
    BY <1>6 DEF Max

(* Max and Min of two numbers.                                              *)
LEMMA MaxOfTwo ==
    ASSUME NEW a \in Int, NEW b \in Int
    PROVE  Max({a, b}) = IF a >= b THEN a ELSE b
<1> DEFINE m == IF a >= b THEN a ELSE b
           P(x) == x \in {a, b} /\ \A y \in {a, b} : x >= y
<1>1. P(m)
    OBVIOUS
<1>2. \A x : P(x) => x = m
    OBVIOUS
<1>3. Max({a, b}) = CHOOSE x : P(x)
    BY DEF Max
<1> HIDE DEF P, m
<1>4. Max({a, b}) = m
    BY <1>1, <1>2, <1>3
<1> QED
    BY <1>4 DEF m

LEMMA MinOfTwo ==
    ASSUME NEW a \in Int, NEW b \in Int
    PROVE  Min({a, b}) = IF a <= b THEN a ELSE b
<1> DEFINE m == IF a <= b THEN a ELSE b
           P(x) == x \in {a, b} /\ \A y \in {a, b} : x =< y
<1>1. P(m)
    OBVIOUS
<1>2. \A x : P(x) => x = m
    OBVIOUS
<1>3. Min({a, b}) = CHOOSE x : P(x)
    BY DEF Min
<1> HIDE DEF P, m
<1>4. Min({a, b}) = m
    BY <1>1, <1>2, <1>3
<1> QED
    BY <1>4 DEF m

(* The common prefix is no longer than either sequence.                     *)
LEMMA CommonPrefixBound ==
    ASSUME NEW S, NEW s \in Seq(S), NEW T, NEW t \in Seq(T)
    PROVE  /\ CommonPrefix(s, t) \in 0..Len(s) /\ CommonPrefix(s, t) <= Len(t)
           /\ CommonPrefix(s, t) \in Nat
           /\ SubSeq(s, 1, CommonPrefix(s, t)) = SubSeq(t, 1, CommonPrefix(s, t))
<1> DEFINE N == {n \in 0..Len(s) : n <= Len(t) /\ SubSeq(s, 1, n) = SubSeq(t, 1, n)}
<1>1. Len(s) \in Nat /\ Len(t) \in Nat
    BY LenProperties
<1>2. 0 \in N
    BY <1>1 DEF N
<1>3. N \subseteq Nat /\ \A n \in N : n <= Len(s)
    BY <1>1
<1>4. CommonPrefix(s, t) = Max(N)
    BY DEF CommonPrefix
<1>5. Max(N) \in N
    <2> HIDE DEF N
    <2> QED
        BY <1>1, <1>2, <1>3, MaxIsElement
<1>6. PICK m \in N : m = CommonPrefix(s, t)
    BY <1>4, <1>5
<1>7. m \in 0..Len(s) /\ m <= Len(t) /\ SubSeq(s, 1, m) = SubSeq(t, 1, m)
    OBVIOUS
<1>8. m \in Nat
    BY <1>1, <1>7
<1> HIDE DEF N
<1> QED
    BY <1>6, <1>7, <1>8

-----------------------------------------------------------------------------
(* Types.                                                                   *)
Positions == 0..(NCtx - 1)
Loras     == {r.lora : r \in Requests} \cup {NoLora}
CellMaps  == UNION {[D -> Tokens \X Loras] : D \in SUBSET Positions}
Ckpts     == CellMaps \ {None}
PromptStates == [tokens : Seq(Tokens), ckpts : Seq(Ckpts), base : CellMaps, swa : CellMaps]

(* Cells are maps from positions to a token and its adapters.               *)
LEMMA CellMap ==
    ASSUME NEW cells
    PROVE  cells \in CellMaps <=>
              /\ cells = [p \in DOMAIN cells |-> cells[p]]
              /\ DOMAIN cells \subseteq Positions
              /\ \A p \in DOMAIN cells : cells[p] \in Tokens \X Loras
<1>1. ASSUME cells \in CellMaps
      PROVE  /\ cells = [p \in DOMAIN cells |-> cells[p]]
             /\ DOMAIN cells \subseteq Positions
             /\ \A p \in DOMAIN cells : cells[p] \in Tokens \X Loras
    <2>1. PICK D \in SUBSET Positions : cells \in [D -> Tokens \X Loras]
        BY <1>1 DEF CellMaps
    <2> QED
        BY <2>1
<1>2. ASSUME /\ cells = [p \in DOMAIN cells |-> cells[p]]
             /\ DOMAIN cells \subseteq Positions
             /\ \A p \in DOMAIN cells : cells[p] \in Tokens \X Loras
      PROVE  cells \in CellMaps
    <2>1. cells \in [DOMAIN cells -> Tokens \X Loras]
        BY <1>2
    <2> QED
        BY <1>2, <2>1 DEF CellMaps
<1> QED
    BY <1>1, <1>2

LEMMA OneToken ==
    ASSUME NEW S, NEW x \in S
    PROVE  <<x>> \in Seq(S) /\ Len(<<x>>) = 1
    OBVIOUS

LEMMA NoneIsMap == None \in CellMaps /\ DOMAIN None = {}
<1>1. DOMAIN None = {}
    BY DEF None
<1>2. None = [p \in DOMAIN None |-> None[p]]
    BY DEF None
<1> QED
    BY <1>1, <1>2, CellMap

LEMMA MapWithCells ==
    ASSUME NEW cells \in CellMaps, cells # None
    PROVE  DOMAIN cells # {}
<1> SUFFICES ASSUME DOMAIN cells = {} PROVE cells = None
    OBVIOUS
<1>1. cells = [p \in DOMAIN cells |-> cells[p]]
    BY CellMap
<1>2. [p \in {} |-> cells[p]] = [p \in {} |-> <<>>]
    OBVIOUS
<1> QED
    BY <1>1, <1>2 DEF None

(* A restriction of cells, and cells with others added.                     *)
LEMMA RestrictedCells ==
    ASSUME NEW cells \in CellMaps, NEW D \in SUBSET (DOMAIN cells)
    PROVE  [q \in D |-> cells[q]] \in CellMaps
<1> DEFINE r == [q \in D |-> cells[q]]
<1>1. DOMAIN r = D /\ \A q \in D : r[q] = cells[q]
    OBVIOUS
<1>2. r = [q \in DOMAIN r |-> r[q]]
    OBVIOUS
<1>3. DOMAIN cells \subseteq Positions /\ \A p \in DOMAIN cells : cells[p] \in Tokens \X Loras
    BY CellMap
<1> HIDE DEF r
<1>4. r \in CellMaps
    BY <1>1, <1>2, <1>3, CellMap
<1> QED
    BY <1>4 DEF r

Restricts(r, cells, D) ==
    /\ r \in CellMaps /\ DOMAIN r = D /\ \A q \in D : r[q] = cells[q]

LEMMA BeforeCells ==
    ASSUME NEW cells \in CellMaps, NEW p
    PROVE  Restricts(Before(cells, p), cells, {q \in DOMAIN cells : q < p})
<1>1. Before(cells, p) = [q \in {k \in DOMAIN cells : k < p} |-> cells[q]]
    BY DEF Before, RestrictDomain, Restrict
<1>2. Before(cells, p) \in CellMaps
    BY <1>1, RestrictedCells
<1> QED
    BY <1>1, <1>2 DEF Restricts

LEMMA FromCells ==
    ASSUME NEW cells \in CellMaps, NEW p
    PROVE  Restricts(From(cells, p), cells, {q \in DOMAIN cells : q >= p})
<1>1. From(cells, p) = [q \in {k \in DOMAIN cells : k >= p} |-> cells[q]]
    BY DEF From, RestrictDomain, Restrict
<1>2. From(cells, p) \in CellMaps
    BY <1>1, RestrictedCells
<1> QED
    BY <1>1, <1>2 DEF Restricts

LEMMA WithoutCells ==
    ASSUME NEW cells \in CellMaps, NEW i, NEW j
    PROVE  Restricts(Without(cells, i, j), cells, {q \in DOMAIN cells : q < i \/ q >= j})
<1>1. Without(cells, i, j) = [q \in {k \in DOMAIN cells : k < i \/ k >= j} |-> cells[q]]
    BY DEF Without, RestrictDomain, Restrict
<1>2. Without(cells, i, j) \in CellMaps
    BY <1>1, RestrictedCells
<1> QED
    BY <1>1, <1>2 DEF Restricts

(* Cells moved to the front of where they were, into a gap.                 *)
MovedTo(r, cells, i, j, to) ==
    /\ r \in CellMaps
    /\ \A q \in DOMAIN cells : q < to \/ q >= j => q \in DOMAIN r /\ r[q] = cells[q]
    /\ \A q \in DOMAIN cells : i <= q /\ q < j => q + to - i \in DOMAIN r /\ r[q + to - i] = cells[q]
    /\ \A q \in DOMAIN r :
          (q \in DOMAIN cells /\ (q < i \/ q >= j)) \/ (to <= q /\ q < to + j - i)

LEMMA MovedCells ==
    ASSUME NEW cells \in CellMaps, NEW i \in Nat, NEW j \in Nat, NEW to \in Nat, to <= i, i <= j,
           NCtx \in Nat, \A q \in DOMAIN cells : q < i => q < to
    PROVE  MovedTo(Moved(cells, i, j, to), cells, i, j, to)
<1> DEFINE A == {k \in DOMAIN cells : k < i \/ k >= j}
           B == {k + to - i : k \in {n \in DOMAIN cells : i <= n /\ n < j}}
           In(q) == to <= q /\ q < to + j - i
           r == [q \in A \cup B |-> IF In(q) THEN cells[q - to + i] ELSE cells[q]]
<1>1. r = Moved(cells, i, j, to)
    BY DEF Moved
<1>2. DOMAIN cells \subseteq Positions /\ \A p \in DOMAIN cells : cells[p] \in Tokens \X Loras
    BY CellMap
<1>3. \A q \in DOMAIN cells : q \in Int /\ 0 <= q /\ q < NCtx
    BY <1>2 DEF Positions
<1>4. ASSUME NEW q \in A PROVE ~In(q) /\ r[q] = cells[q] /\ q \in DOMAIN cells
    BY <1>3
<1>5. ASSUME NEW q \in DOMAIN cells, i <= q, q < j
      PROVE  q + to - i \in B /\ In(q + to - i) /\ r[q + to - i] = cells[q]
    <2>1. q \in Int
        BY <1>3
    <2>2. q + to - i \in B
        BY <1>5
    <2>3. In(q + to - i) /\ (q + to - i) - to + i = q
        BY <2>1, <1>5
    <2>4. r[q + to - i] = cells[(q + to - i) - to + i]
        BY <2>2, <2>3
    <2> QED
        BY <2>2, <2>3, <2>4
<1>6. ASSUME NEW q \in B
      PROVE  \E k \in DOMAIN cells : i <= k /\ k < j /\ q = k + to - i
    BY <1>6
<1>7. DOMAIN r = A \cup B
    OBVIOUS
<1>8. \A q \in DOMAIN r : q \in Positions /\ r[q] \in Tokens \X Loras
    <2> SUFFICES ASSUME NEW q \in A \cup B PROVE q \in Positions /\ r[q] \in Tokens \X Loras
        BY <1>7
    <2>1. CASE q \in A
        BY <2>1, <1>2, <1>4
    <2>2. CASE q \in B
        <3>1. PICK k \in DOMAIN cells : i <= k /\ k < j /\ q = k + to - i
            BY <2>2, <1>6
        <3>2. r[q] = cells[k]
            BY <3>1, <1>5
        <3>3. q \in Positions
            BY <3>1, <1>3 DEF Positions
        <3> QED
            BY <3>2, <3>3, <1>2
    <2> QED
        BY <2>1, <2>2
<1>9. r = [q \in DOMAIN r |-> r[q]]
    OBVIOUS
<1>10. \A q \in DOMAIN r : (q \in DOMAIN cells /\ (q < i \/ q >= j)) \/ In(q)
    <2> SUFFICES ASSUME NEW q \in A \cup B
                 PROVE  (q \in DOMAIN cells /\ (q < i \/ q >= j)) \/ In(q)
        BY <1>7
    <2>1. CASE q \in B
        <3>1. PICK k \in DOMAIN cells : i <= k /\ k < j /\ q = k + to - i
            BY <2>1, <1>6
        <3> QED
            BY <3>1, <1>5
    <2> QED
        BY <2>1, <1>4
<1>11. \A q \in DOMAIN cells : q < to \/ q >= j => q \in A
    BY <1>3
<1> HIDE DEF A, B, r
<1>12. r \in CellMaps
    BY <1>8, <1>9, CellMap
<1>13. \A q \in DOMAIN cells : q < to \/ q >= j => q \in DOMAIN r /\ r[q] = cells[q]
    BY <1>4, <1>7, <1>11
<1>14. \A q \in DOMAIN cells : i <= q /\ q < j => q + to - i \in DOMAIN r /\ r[q + to - i] = cells[q]
    BY <1>5, <1>7
<1>15. MovedTo(r, cells, i, j, to)
    BY <1>10, <1>12, <1>13, <1>14 DEF MovedTo
<1> QED
    BY <1>1, <1>15

-----------------------------------------------------------------------------
(* Recursion over 0..N.  What holds of the first value and is kept by a     *)
(* step holds of all, and a step that stays in a set can be iterated.       *)
LEMMA IterTypes ==
    ASSUME NEW V, NEW N \in Nat, NEW f, f[0] \in V, \A n \in 1..N : f[n - 1] \in V => f[n] \in V
    PROVE  \A n \in 0..N : f[n] \in V
<1> DEFINE Bad == {n \in 0..N : f[n] \notin V}
<1>1. CASE Bad # {}
    <2>1. PICK n \in Bad : \A y \in Bad : n =< y
        <3>1. Bad \subseteq Nat
            OBVIOUS
        <3> HIDE DEF Bad
        <3> QED
            BY <3>1, <1>1, LeastElement
    <2>2. n \in 1..N /\ n - 1 \in 0..N /\ ~(n =< n - 1)
        OBVIOUS
    <2>3. n - 1 \notin Bad
        <3> HIDE DEF Bad
        <3> QED
            BY <2>1, <2>2
    <2> QED
        BY <2>2, <2>3
<1> QED
    BY <1>1

Iterates(g, N, first, step) ==
    g[0] = first /\ \A n \in 1..N : g[n] = step[<<n, g[n - 1]>>]

LEMMA IterExists ==
    ASSUME NEW V, NEW first \in V, NEW N \in Nat, NEW step \in [(1..N) \X V -> V]
    PROVE  \E g \in [0..N -> V] : Iterates(g, N, first, step)
<1> DEFINE Upto(n) == \E g \in [0..n -> V] : Iterates(g, n, first, step)
           Bad == {n \in 0..N : ~Upto(n)}
<1>1. CASE Bad # {}
    <2>1. PICK n \in Bad : \A y \in Bad : n =< y
        <3>1. Bad \subseteq Nat
            OBVIOUS
        <3> HIDE DEF Bad
        <3> QED
            BY <3>1, <1>1, LeastElement
    <2>2. CASE n = 0
        <3>1. Iterates([i \in 0..0 |-> first], 0, first, step)
            BY DEF Iterates
        <3> QED
            BY <2>2, <3>1
    <2>3. CASE n # 0
        <3>1. n \in 1..N /\ n - 1 \in 0..N /\ ~(n =< n - 1)
            BY <2>3
        <3>2. n - 1 \notin Bad
            <4> HIDE DEF Bad
            <4> QED
                BY <2>1, <3>1
        <3>3. PICK g \in [0..(n - 1) -> V] : Iterates(g, n - 1, first, step)
            BY <3>1, <3>2
        <3> DEFINE h == [i \in 0..n |-> IF i = n THEN step[<<n, g[n - 1]>>] ELSE g[i]]
        <3>4. g[n - 1] \in V
            BY <3>1
        <3>5. step[<<n, g[n - 1]>>] \in V
            BY <3>1, <3>4
        <3>6. h \in [0..n -> V]
            BY <3>1, <3>5
        <3>7. h[0] = first
            BY <3>1, <3>3 DEF Iterates
        <3>8. ASSUME NEW i \in 1..n PROVE h[i] = step[<<i, h[i - 1]>>]
            <4>1. i - 1 \in 0..n /\ i - 1 # n
                BY <3>1
            <4>2. h[i - 1] = g[i - 1]
                BY <4>1
            <4>3. CASE i = n
                <5>1. h[i] = step[<<n, g[n - 1]>>]
                    BY <4>3
                <5>2. h[i - 1] = g[n - 1]
                    BY <4>2, <4>3
                <5> HIDE DEF h
                <5> QED
                    BY <5>1, <5>2, <4>3
            <4>4. CASE i # n
                <5>1. i \in 1..(n - 1)
                    BY <4>4, <3>1
                <5> QED
                    BY <5>1, <4>2, <4>4, <3>3 DEF Iterates
            <4> QED
                BY <4>3, <4>4
        <3>9. Iterates(h, n, first, step)
            <4> HIDE DEF h
            <4> QED
                BY <3>7, <3>8 DEF Iterates
        <3> HIDE DEF h
        <3>10. Upto(n)
            BY <3>6, <3>9
        <3> QED
            BY <3>10
    <2> QED
        BY <2>2, <2>3
<1>2. CASE Bad = {}
    <2>1. Upto(N)
        BY <1>2
    <2> QED
        BY <2>1
<1> QED
    BY <1>1, <1>2

-----------------------------------------------------------------------------
(* Sequences: what KeepAt keeps, and what is still of the same elements.    *)
Elements(r, q, K) == \A x : x \in Range(r) <=> \E k \in K : x = q[k]

LEMMA KeptElements ==
    ASSUME NEW S, NEW q \in Seq(S), NEW K, K \subseteq 1..Len(q)
    PROVE  /\ KeepAt(q, K) \in Seq(S) /\ Len(KeepAt(q, K)) <= Len(q)
           /\ Elements(KeepAt(q, K), q, K)
<1> DEFINE r == KeepAt(q, K)
<1>1. r \in Seq(S) /\ \E m : Lists(m, r, q, K)
    BY KeepAtProperties
<1> HIDE DEF r
<1>2. PICK m : Lists(m, r, q, K)
    BY <1>1
<1>3. Len(r) \in Nat /\ Len(q) \in Nat /\ DOMAIN r = 1..Len(r)
    BY <1>1, LenProperties
<1>4. /\ m \in [1..Len(r) -> K]
      /\ \A i, j \in 1..Len(r) : i < j => m[i] < m[j]
      /\ \A i \in 1..Len(r) : r[i] = q[m[i]]
      /\ \A k \in K : \E i \in 1..Len(r) : m[i] = k
    BY <1>2 DEF Lists
<1>5. \A i \in 1..Len(r) : m[i] \in 1..Len(q)
    BY <1>4
<1>6. \A i \in 1..Len(r) : i <= m[i]
    <2> DEFINE Bad == {i \in 1..Len(r) : ~(i <= m[i])}
    <2>1. CASE Bad # {}
        <3>1. PICK i \in Bad : \A y \in Bad : i =< y
            <4>1. Bad \subseteq Nat
                BY <1>3
            <4> HIDE DEF Bad
            <4> QED
                BY <4>1, <2>1, LeastElement
        <3>2. i \in 1..Len(r) /\ ~(i <= m[i]) /\ m[i] \in 1..Len(q)
            BY <1>5
        <3>3. i # 1
            BY <3>2
        <3>4. i - 1 \in 1..Len(r) /\ i - 1 < i /\ ~(i =< i - 1)
            BY <3>2, <3>3, <1>3
        <3>5. i - 1 <= m[i - 1]
            <4>1. i - 1 \notin Bad
                <5> HIDE DEF Bad
                <5> QED
                    BY <3>1, <3>4
            <4> QED
                BY <4>1, <3>4
        <3>6. m[i - 1] < m[i] /\ m[i - 1] \in 1..Len(q)
            BY <3>2, <3>4, <1>4, <1>5
        <3> QED
            BY <3>2, <3>5, <3>6
    <2> QED
        BY <2>1
<1>7. Len(r) <= Len(q)
    <2>1. CASE Len(r) = 0
        BY <2>1, <1>3
    <2>2. CASE Len(r) # 0
        <3>1. Len(r) \in 1..Len(r)
            BY <2>2, <1>3
        <3>2. m[Len(r)] \in 1..Len(q) /\ Len(r) <= m[Len(r)]
            BY <3>1, <1>5, <1>6
        <3> QED
            BY <3>2, <1>3
    <2> QED
        BY <2>1, <2>2
<1>8. \A x : x \in Range(r) <=> \E k \in K : x = q[k]
    <2>1. ASSUME NEW x, x \in Range(r) PROVE \E k \in K : x = q[k]
        <3>1. PICK i \in 1..Len(r) : x = r[i]
            BY <1>3, <2>1 DEF Range
        <3>2. m[i] \in K /\ x = q[m[i]]
            BY <3>1, <1>4
        <3> QED
            BY <3>2
    <2>2. ASSUME NEW k \in K PROVE q[k] \in Range(r)
        <3>1. PICK i \in 1..Len(r) : m[i] = k
            BY <1>4
        <3>2. r[i] = q[k]
            BY <3>1, <1>4
        <3> QED
            BY <3>2, <1>3 DEF Range
    <2> QED
        BY <2>1, <2>2
<1> QED
    BY <1>1, <1>7, <1>8 DEF r, Elements

LEMMA SubSeqElements ==
    ASSUME NEW S, NEW q \in Seq(S), NEW i \in 1..(Len(q) + 1), NEW j \in 0..Len(q)
    PROVE  /\ SubSeq(q, i, j) \in Seq(S)
           /\ Len(SubSeq(q, i, j)) = IF i <= j THEN j - i + 1 ELSE 0
           /\ \A k \in 1..Len(SubSeq(q, i, j)) : SubSeq(q, i, j)[k] = q[i + k - 1]
<1>1. Len(q) \in Nat /\ DOMAIN q = 1..Len(q)
    BY LenProperties
<1>2. \A k \in i..j : q[k] \in S
    BY <1>1, ElementOfSeq
<1> QED
    BY <1>1, <1>2, SubSeqProperties
-----------------------------------------------------------------------------
(* The constants.                                                           *)
LEMMA Numbers ==
    /\ NCtx \in Nat /\ NBatch \in Nat \ {0} /\ LastChunk \in Nat \ {0}
    /\ NCacheReuse \in Nat /\ CkptFrom \in Nat /\ CkptGap \in Nat
    /\ LimitTokens \in Nat /\ LimitSize \in Nat
    BY PromptReuseAssumption

(* The constants are what PromptReuseAssumption says of them.               *)
LEMMA PromptTypes ==
    ASSUME NEW r \in Requests
    PROVE  /\ r.prompt \in Seq(Tokens) /\ r.prompt # <<>>
           /\ Len(r.prompt) \in Nat \ {0} /\ Len(r.prompt) < NCtx
<1>1. r.prompt \in Seq(Range(r.prompt)) /\ r.prompt # <<>> /\ Len(r.prompt) < NCtx
    BY PromptReuseAssumption
<1>2. Range(r.prompt) \subseteq Tokens
    BY DEF Range, Tokens
<1>3. r.prompt \in Seq(Tokens)
    BY <1>1, <1>2, SeqMonotonic
<1>4. Len(r.prompt) \in Nat \ {0}
    BY <1>1, <1>3, EmptySeq
<1> QED
    BY <1>1, <1>3, <1>4

LEMMA SetupTypes ==
    ASSUME setup \in Setups
    PROVE  /\ setup.slots \in Nat \ {0} /\ setup.window \in Nat /\ setup.maxCkpt \in Nat
           /\ setup.requests \in Nat /\ (setup.shiftable => setup.window = 0)
    BY PromptReuseAssumption

LEMMA StateTypes ==
    ASSUME NEW st \in PromptStates
    PROVE  /\ st.tokens \in Seq(Tokens) /\ Len(st.tokens) \in Nat /\ DOMAIN st.tokens = 1..Len(st.tokens)
           /\ st.ckpts \in Seq(Ckpts) /\ Len(st.ckpts) \in Nat
           /\ st.base \in CellMaps /\ st.swa \in CellMaps
<1>1. st.tokens \in Seq(Tokens) /\ st.ckpts \in Seq(Ckpts) /\ st.base \in CellMaps /\ st.swa \in CellMaps
    BY DEF PromptStates
<1> QED
    BY <1>1, LenProperties

-----------------------------------------------------------------------------
(* load() returns a state of the cache, or none.                            *)
IsBest(g, c, st, prompt, N) ==
    g = [i \in 0..N |-> IF i = 0
                        THEN [at |-> 0, lcp |-> CommonPrefix(st.tokens, prompt), len |-> Len(st.tokens)]
                        ELSE Better(g[i - 1], c, i, prompt)]
Bests(N) == [at : 0..N, lcp : Nat, len : Nat]

LEMMA BestStateInCache ==
    ASSUME NEW c \in Seq(PromptStates), NEW st \in PromptStates, NEW prompt \in Seq(Tokens)
    PROVE  BestState(c, st, prompt) \in 0..Len(c)
<1> DEFINE N == Len(c)
           V == Bests(N)
           first == [at |-> 0, lcp |-> CommonPrefix(st.tokens, prompt), len |-> Len(st.tokens)]
           step == [x \in (1..N) \X V |-> Better(x[2], c, x[1], prompt)]
           f == CHOOSE g : IsBest(g, c, st, prompt, N)
<1>1. N \in Nat
    BY LenProperties
<1>2. first \in V
    <2>1. st.tokens \in Seq(Tokens) /\ Len(st.tokens) \in Nat
        BY StateTypes
    <2>2. CommonPrefix(st.tokens, prompt) \in Nat
        BY <2>1, CommonPrefixBound
    <2>3. 0 \in 0..N
        BY <1>1
    <2> HIDE DEF N
    <2> QED
        BY <2>1, <2>2, <2>3 DEF Bests
<1>3. ASSUME NEW best \in V, NEW i \in 1..N PROVE Better(best, c, i, prompt) \in V
    <2>1. c[i] \in PromptStates
        BY <1>1, ElementOfSeq
    <2>2. Len(c[i].tokens) \in Nat /\ CommonPrefix(c[i].tokens, prompt) \in Nat
        BY <2>1, StateTypes, CommonPrefixBound
    <2>3. [at |-> i, lcp |-> CommonPrefix(c[i].tokens, prompt), len |-> Len(c[i].tokens)] \in V
        BY <1>1, <2>2 DEF Bests
    <2> HIDE DEF V
    <2> QED
        BY <2>3 DEF Better
<1> HIDE DEF V, N
<1>4. step \in [(1..N) \X V -> V]
    BY <1>3
<1>5. PICK g \in [0..N -> V] : Iterates(g, N, first, step)
    <2> HIDE DEF first, step
    <2> QED
        BY <1>1, <1>2, <1>4, IterExists
<1>6. ASSUME NEW i \in 0..N
      PROVE  g[i] = IF i = 0 THEN first ELSE Better(g[i - 1], c, i, prompt)
    <2>1. CASE i = 0
        BY <2>1, <1>5 DEF Iterates
    <2>2. CASE i # 0
        <3>1. i \in 1..N /\ i - 1 \in 0..N
            BY <2>2, <1>1
        <3>2. g[i] = step[<<i, g[i - 1]>>] /\ g[i - 1] \in V
            BY <3>1, <1>5 DEF Iterates
        <3>3. step[<<i, g[i - 1]>>] = Better(g[i - 1], c, i, prompt)
            BY <3>1, <3>2
        <3> QED
            BY <2>2, <3>2, <3>3
    <2> QED
        BY <2>1, <2>2
<1>7. IsBest(g, c, st, prompt, N)
    <2>1. g = [i \in 0..N |-> g[i]]
        BY <1>5
    <2> HIDE DEF first, step
    <2>2. g = [i \in 0..N |-> IF i = 0 THEN first ELSE Better(g[i - 1], c, i, prompt)]
        BY <2>1, <1>6
    <2> QED
        BY <2>2 DEF IsBest, first
<1>8. IsBest(f, c, st, prompt, N)
    BY <1>7
<1>9. BestState(c, st, prompt) = f[N].at
    BY DEF BestState, IsBest, N
<1> HIDE DEF f
<1>10. f[0] \in V
    <2>1. f[0] = first
        BY <1>1, <1>8 DEF IsBest
    <2> QED
        BY <1>2, <2>1
<1>11. \A n \in 1..N : f[n - 1] \in V => f[n] \in V
    <2> TAKE n \in 1..N
    <2>1. f[n] = Better(f[n - 1], c, n, prompt)
        BY <1>1, <1>8 DEF IsBest
    <2> QED
        BY <1>3, <2>1
<1>12. f[N] \in V
    <2>1. \A n \in 0..N : f[n] \in V
        BY <1>1, <1>10, <1>11, IterTypes
    <2> QED
        BY <1>1, <2>1
<1>13. f[N].at \in 0..N
    BY <1>12 DEF V, Bests
<1> QED
    BY <1>9, <1>13 DEF N

-----------------------------------------------------------------------------
(* The chunks: the cells before head_p and from head_c on are those of the  *)
(* tokens there, round after round.                                         *)
Along(N, M, cs, w) ==
    {at \in [st : PromptStates, hc : Nat, hp : Nat] :
        /\ Len(at.st.tokens) = N /\ at.hp <= at.hc /\ at.hc <= N /\ at.hp <= M
        /\ at.st.ckpts = cs /\ at.st.swa = w
        /\ \A p \in 0..(N - 1) : p < at.hp \/ p >= at.hc =>
              p \in DOMAIN at.st.base /\ at.st.base[p][1] = at.st.tokens[p + 1]}

LEMMA ReuseChunkKeeps ==
    ASSUME NEW p \in Seq(Tokens), NEW N \in Nat, NEW cs, NEW w, NEW at \in Along(N, Len(p), cs, w)
    PROVE  ReuseChunk(at, p) \in Along(N, Len(p), cs, w)
<1> DEFINE toks == at.st.tokens
           hc == at.hc
           hp == at.hp
           M == Len(p)
           n == NMatch(toks, p, hc, hp)
<1>1. /\ at.st \in PromptStates /\ hc \in Nat /\ hp \in Nat
      /\ Len(toks) = N /\ hp <= hc /\ hc <= N /\ hp <= M /\ at.st.ckpts = cs /\ at.st.swa = w
    BY DEF Along
<1>2. \A q \in 0..(N - 1) : q < hp \/ q >= hc => q \in DOMAIN at.st.base /\ at.st.base[q][1] = toks[q + 1]
    BY DEF Along
<1>3. M \in Nat
    BY LenProperties
<1>4. toks \in Seq(Tokens) /\ DOMAIN toks = 1..N /\ at.st.base \in CellMaps
    BY <1>1, StateTypes
<1>5. CASE hc >= N \/ hp >= M
    BY <1>1, <1>5 DEF ReuseChunk
<1>6. CASE ~(hc >= N \/ hp >= M) /\ n < NCacheReuse
    <2> DEFINE new == [at EXCEPT !.hc = @ + 1]
    <2>1. ReuseChunk(at, p) = new
        BY <1>1, <1>6 DEF ReuseChunk
    <2>2. /\ new.st = at.st /\ new.hp = hp /\ new.hc = hc + 1
          /\ new \in [st : PromptStates, hc : Nat, hp : Nat]
        BY <1>1 DEF Along
    <2> HIDE DEF new
    <2>3. \A q \in 0..(N - 1) : q < hp \/ q >= hc + 1 => q < hp \/ q >= hc
        BY <1>1
    <2>4. new \in Along(N, M, cs, w)
        BY <1>1, <1>2, <1>6, <2>2, <2>3 DEF Along
    <2> QED
        BY <2>1, <2>4
<1>7. CASE ~(hc >= N \/ hp >= M) /\ ~(n < NCacheReuse)
    <2> DEFINE without == Without(at.st.base, hp, hc)
               moved == Moved(without, hc, hc + n, hp)
               named == [i \in 1..N |-> IF hp < i /\ i <= hp + n THEN toks[i + hc - hp] ELSE toks[i]]
               newst == [at.st EXCEPT !.base = moved, !.tokens = named]
               new == [st |-> newst, hc |-> hc + n, hp |-> hp + n]
    <2>1. ReuseChunk(at, p) = new
        BY <1>1, <1>7 DEF ReuseChunk
    <2>2. n \in Nat /\ hc + n <= N /\ hp + n <= M
        <3>1. /\ SubSeq(toks, hc + 1, N) \in Seq(Tokens) /\ Len(SubSeq(toks, hc + 1, N)) = N - hc
              /\ SubSeq(p, hp + 1, M) \in Seq(Tokens) /\ Len(SubSeq(p, hp + 1, M)) = M - hp
            <4>1. hc + 1 \in 1..(Len(toks) + 1) /\ N \in 0..Len(toks) /\ hp + 1 \in 1..(M + 1) /\ M \in 0..M
                BY <1>1, <1>3
            <4> HIDE DEF toks, hc, hp
            <4>2. /\ SubSeq(toks, hc + 1, N) \in Seq(Tokens)
                  /\ Len(SubSeq(toks, hc + 1, N)) = IF hc + 1 <= N THEN N - (hc + 1) + 1 ELSE 0
                BY <1>4, <4>1, SubSeqElements
            <4>3. /\ SubSeq(p, hp + 1, M) \in Seq(Tokens)
                  /\ Len(SubSeq(p, hp + 1, M)) = IF hp + 1 <= M THEN M - (hp + 1) + 1 ELSE 0
                BY <4>1, SubSeqElements
            <4> QED
                BY <1>1, <1>3, <1>7, <4>2, <4>3
        <3>2. n = CommonPrefix(SubSeq(toks, hc + 1, N), SubSeq(p, hp + 1, M))
            BY <1>1 DEF NMatch
        <3>3. /\ n \in 0..Len(SubSeq(toks, hc + 1, N)) /\ n <= Len(SubSeq(p, hp + 1, M)) /\ n \in Nat
            <4> HIDE DEF n, toks, hc, hp
            <4> QED
                BY <3>1, <3>2, CommonPrefixBound
        <3> HIDE DEF n, toks, hc, hp, M
        <3> QED
            BY <1>1, <1>3, <3>1, <3>3
    <2> HIDE DEF n
    <2>3. Restricts(without, at.st.base, {q \in DOMAIN at.st.base : q < hp \/ q >= hc})
        BY <1>4, WithoutCells
    <2>4. without \in CellMaps /\ \A q \in DOMAIN without : q < hp \/ q >= hc
        BY <2>3 DEF Restricts
    <2>5. MovedTo(moved, without, hc, hc + n, hp)
        <3>1. \A q \in DOMAIN without : q \in Int
            BY <2>4, Numbers, CellMap DEF Positions
        <3>2. \A q \in DOMAIN without : q < hc => q < hp
            BY <2>4, <3>1, <1>1
        <3>3. hc \in Nat /\ hc + n \in Nat /\ hp \in Nat /\ hp <= hc /\ hc <= hc + n /\ NCtx \in Nat
            BY <1>1, <2>2, Numbers
        <3> HIDE DEF without, moved, hc, hp
        <3> QED
            BY <2>4, <3>2, <3>3, MovedCells DEF moved
    <2>6. named \in Seq(Tokens) /\ Len(named) = N
        <3>1. \A i \in 1..N : (hp < i /\ i <= hp + n) => i + hc - hp \in 1..N
            BY <1>1, <2>2
        <3>2. \A i \in 1..N : toks[i] \in Tokens
            BY <1>1, <1>4, ElementOfSeq
        <3> HIDE DEF toks, hc, hp
        <3>3. named \in [1..N -> Tokens]
            BY <3>1, <3>2
        <3>4. named \in Seq(Tokens)
            BY <3>3, SeqDef
        <3>5. DOMAIN named = 1..N
            OBVIOUS
        <3> HIDE DEF named
        <3> QED
            BY <3>4, <3>5, LenProperties
    <2>7. \A q \in 0..(N - 1) : q < hp + n \/ q >= hc + n => q \in DOMAIN moved /\ moved[q][1] = named[q + 1]
        <3> SUFFICES ASSUME NEW q \in 0..(N - 1), q < hp + n \/ q >= hc + n
                     PROVE  q \in DOMAIN moved /\ moved[q][1] = named[q + 1]
            OBVIOUS
        <3>1. /\ \A k \in DOMAIN without : k < hp \/ k >= hc + n => k \in DOMAIN moved /\ moved[k] = without[k]
              /\ \A k \in DOMAIN without : hc <= k /\ k < hc + n =>
                    k + hp - hc \in DOMAIN moved /\ moved[k + hp - hc] = without[k]
            BY <2>5 DEF MovedTo
        <3>2. \A k \in DOMAIN at.st.base : k < hp \/ k >= hc => k \in DOMAIN without /\ without[k] = at.st.base[k]
            BY <2>3 DEF Restricts
        <3> HIDE DEF moved, without
        <3>3. CASE q < hp \/ q >= hc + n
            <4>1. q \in DOMAIN at.st.base /\ at.st.base[q][1] = toks[q + 1] /\ (q < hp \/ q >= hc)
                BY <3>3, <1>1, <1>2, <2>2
            <4>2. q + 1 \in 1..N /\ ~(hp < q + 1 /\ q + 1 <= hp + n)
                BY <3>3, <1>1, <2>2
            <4>3. named[q + 1] = toks[q + 1]
                BY <4>2
            <4> QED
                BY <3>1, <3>2, <3>3, <4>1, <4>3
        <3>4. CASE hp <= q /\ q < hp + n
            <4>1. PICK k \in Int : k = q - hp + hc
                BY <1>1
            <4>2. k \in 0..(N - 1) /\ k >= hc /\ k < hc + n /\ k + hp - hc = q
                <5>1. hc \in Int /\ hp \in Int /\ n \in Int /\ q \in Int
                    BY <1>1, <2>2
                <5>2. 0 <= hc /\ hc + n <= N /\ hp <= q /\ q < hp + n
                    BY <3>4, <1>1, <2>2
                <5> HIDE DEF hc, hp, toks
                <5> QED
                    BY <4>1, <5>1, <5>2
            <4>3. k \in DOMAIN at.st.base /\ at.st.base[k][1] = toks[k + 1]
                BY <4>2, <1>2
            <4>4. k \in DOMAIN without /\ without[k] = at.st.base[k]
                BY <4>2, <4>3, <3>2
            <4>5. q \in DOMAIN moved /\ moved[q] = without[k]
                BY <4>2, <4>4, <3>1
            <4>6. q + 1 \in 1..N /\ hp < q + 1 /\ q + 1 <= hp + n /\ q + 1 + hc - hp = k + 1
                BY <3>4, <4>1, <1>1, <2>2
            <4>7. named[q + 1] = toks[k + 1]
                BY <4>6
            <4> QED
                BY <4>3, <4>4, <4>5, <4>7
        <3> QED
            BY <3>3, <3>4, <1>1, <2>2
    <2>8. /\ newst \in PromptStates /\ newst.tokens = named /\ newst.base = moved
          /\ newst.ckpts = cs /\ newst.swa = w
        <3>1. moved \in CellMaps
            BY <2>5 DEF MovedTo
        <3> HIDE DEF moved, named
        <3> QED
            BY <1>1, <2>6, <3>1 DEF PromptStates
    <2> HIDE DEF newst, named, moved
    <2>9. new \in Along(N, M, cs, w)
        BY <1>1, <2>2, <2>6, <2>7, <2>8 DEF Along
    <2> QED
        BY <2>1, <2>9
<1> QED
    BY <1>5, <1>6, <1>7

IsChunks(g, st, p, n, N) ==
    g = [k \in 0..N |-> IF k = 0 THEN [st |-> st, hc |-> n, hp |-> n] ELSE ReuseChunk(g[k - 1], p)]

LEMMA ReuseChunksKeeps ==
    ASSUME NEW st \in PromptStates, SameTokens(st.base, st.tokens, 0), NEW p \in Seq(Tokens),
           NEW n \in Nat, n <= Len(st.tokens), n <= Len(p)
    PROVE  ReuseChunks(st, p, n) \in Along(Len(st.tokens), Len(p), st.ckpts, st.swa)
<1> DEFINE N == Len(st.tokens)
           V == Along(N, Len(p), st.ckpts, st.swa)
           first == [st |-> st, hc |-> n, hp |-> n]
           step == [x \in (1..N) \X V |-> ReuseChunk(x[2], p)]
           f == CHOOSE g : IsChunks(g, st, p, n, N)
<1>1. N \in Nat
    BY StateTypes
<1>2. first \in V
    <2>1. \A q \in 0..(N - 1) : q \in DOMAIN st.base /\ st.base[q][1] = st.tokens[q + 1]
        BY DEF SameTokens
    <2> HIDE DEF N
    <2> QED
        BY <1>1, <2>1 DEF Along, N
<1> HIDE DEF N
<1>3. ASSUME NEW at \in V PROVE ReuseChunk(at, p) \in V
    BY <1>1, ReuseChunkKeeps
<1> HIDE DEF V
<1>4. step \in [(1..N) \X V -> V]
    BY <1>3
<1>5. PICK g \in [0..N -> V] : Iterates(g, N, first, step)
    <2> HIDE DEF first, step
    <2> QED
        BY <1>1, <1>2, <1>4, IterExists
<1>6. ASSUME NEW k \in 0..N
      PROVE  g[k] = IF k = 0 THEN first ELSE ReuseChunk(g[k - 1], p)
    <2>1. CASE k = 0
        BY <2>1, <1>5 DEF Iterates
    <2>2. CASE k # 0
        <3>1. k \in 1..N /\ k - 1 \in 0..N
            BY <2>2, <1>1
        <3>2. g[k] = step[<<k, g[k - 1]>>] /\ g[k - 1] \in V
            BY <3>1, <1>5 DEF Iterates
        <3>3. step[<<k, g[k - 1]>>] = ReuseChunk(g[k - 1], p)
            BY <3>1, <3>2
        <3> QED
            BY <2>2, <3>2, <3>3
    <2> QED
        BY <2>1, <2>2
<1>7. IsChunks(g, st, p, n, N)
    <2>1. g = [k \in 0..N |-> g[k]]
        BY <1>5
    <2> HIDE DEF first, step
    <2>2. g = [k \in 0..N |-> IF k = 0 THEN first ELSE ReuseChunk(g[k - 1], p)]
        BY <2>1, <1>6
    <2> QED
        BY <2>2 DEF IsChunks, first
<1>8. IsChunks(f, st, p, n, N)
    BY <1>7
<1>9. ReuseChunks(st, p, n) = f[N]
    BY DEF ReuseChunks, IsChunks, N
<1> HIDE DEF f
<1>10. f[0] \in V
    <2>1. f[0] = first
        BY <1>1, <1>8 DEF IsChunks
    <2> QED
        BY <1>2, <2>1
<1>11. \A k \in 1..N : f[k - 1] \in V => f[k] \in V
    <2> TAKE k \in 1..N
    <2>1. f[k] = ReuseChunk(f[k - 1], p)
        BY <1>1, <1>8 DEF IsChunks
    <2> QED
        BY <1>3, <2>1
<1>12. f[N] \in V
    <2>1. \A k \in 0..N : f[k] \in V
        BY <1>1, <1>10, <1>11, IterTypes
    <2> QED
        BY <1>1, <2>1
<1> QED
    BY <1>9, <1>12 DEF V, N

-----------------------------------------------------------------------------
(* What is right of every prompt that is kept.                              *)
Right(st) ==
    /\ Len(st.tokens) <= NCtx
    /\ Len(st.ckpts) <= setup.maxCkpt
    /\ SameTokens(st.base, st.tokens, 0)
    /\ setup.maxCkpt = 0 => WindowMatches(st)
    /\ setup.window = 0 => st.swa = None /\ st.ckpts = <<>>
RightStates == {st \in PromptStates : Right(st)}

(* An idle slot's prompt may lose its tokens, and all of its cells.         *)
Nameless(st) == [st EXCEPT !.tokens = <<>>]

LEMMA BlankRight ==
    ASSUME NEW st \in RightStates, setup \in Setups
    PROVE  Blank(st) \in RightStates /\ Nameless(st) \in RightStates
<1>1. st \in PromptStates /\ Right(st)
    BY DEF RightStates
<1>2. None \in CellMaps /\ DOMAIN None = {}
    BY NoneIsMap
<1>3. <<>> \in Seq(Tokens) /\ Len(<<>>) = 0
    BY EmptySeq
<1>4. /\ Blank(st) \in PromptStates /\ Blank(st).tokens = <<>> /\ Blank(st).ckpts = st.ckpts
      /\ Blank(st).base = None /\ Blank(st).swa = None
    BY <1>1, <1>2, <1>3 DEF Blank, PromptStates
<1>5. /\ Nameless(st) \in PromptStates /\ Nameless(st).tokens = <<>> /\ Nameless(st).ckpts = st.ckpts
      /\ Nameless(st).base = st.base /\ Nameless(st).swa = st.swa
    BY <1>1, <1>2, <1>3 DEF Nameless, PromptStates
<1>6. ASSUME NEW x \in PromptStates, x.tokens = <<>>, x.ckpts = st.ckpts, x.swa = None \/ x.swa = st.swa
      PROVE  Right(x)
    <2>1. \A p \in DOMAIN x.swa : ~(p < 0)
        <3>1. DOMAIN x.swa \subseteq Positions
            BY CellMap DEF PromptStates
        <3> QED
            BY <3>1, Numbers DEF Positions
    <2> QED
        BY <1>1, <1>3, <1>6, <2>1, Numbers DEF Right, SameTokens, WindowMatches
<1> QED
    BY <1>4, <1>5, <1>6 DEF RightStates

(* How far a slot's prompt is reused.                                       *)
Reuses(re, st, prompt) ==
    /\ re.st \in PromptStates /\ re.st.ckpts = st.ckpts /\ re.st.swa = st.swa
    /\ Len(re.st.tokens) = Len(st.tokens)
    /\ re.nPast \in Nat /\ re.nPast <= Len(prompt) /\ re.nPast <= Len(st.tokens)
    /\ \A p \in 0..(re.nPast - 1) : p \in DOMAIN re.st.base /\ re.st.base[p][1] = re.st.tokens[p + 1]
    /\ setup.window > 0 => re.st = st

LEMMA ReusedReuses ==
    ASSUME NEW s, SlotState(s) \in RightStates, task[s] \in Requests, setup \in Setups
    PROVE  Reuses(Reused(s), SlotState(s), task[s].prompt)
<1> DEFINE st == SlotState(s)
           p == task[s].prompt
           n == CommonPrefix(st.tokens, p)
           at == ReuseChunks(st, p, n)
<1>1. st \in PromptStates /\ SameTokens(st.base, st.tokens, 0)
    BY DEF RightStates, Right
<1>2. p \in Seq(Tokens) /\ Len(p) \in Nat
    BY PromptTypes
<1>3. st.tokens \in Seq(Tokens) /\ Len(st.tokens) \in Nat
    BY <1>1, StateTypes
<1> HIDE DEF st, p
<1>4. n \in Nat /\ n <= Len(st.tokens) /\ n <= Len(p)
    BY <1>2, <1>3, CommonPrefixBound
<1>5. \A q \in 0..(Len(st.tokens) - 1) : q \in DOMAIN st.base /\ st.base[q][1] = st.tokens[q + 1]
    BY <1>1 DEF SameTokens
<1> HIDE DEF n
<1>6. ASSUME NEW m \in Nat, m <= n, NEW re, re = [st |-> st, nPast |-> m]
      PROVE  Reuses(re, st, p)
    <2>1. re.st = st /\ re.nPast = m
        BY <1>6
    <2>2. m <= Len(st.tokens) /\ m <= Len(p)
        BY <1>2, <1>3, <1>4, <1>6
    <2>3. \A q \in 0..(m - 1) : q \in 0..(Len(st.tokens) - 1)
        BY <1>3, <2>2
    <2> QED
        BY <1>1, <1>5, <2>1, <2>2, <2>3 DEF Reuses
<1>7. CASE ~task[s].cachePrompt
    <2>1. Reused(s) = [st |-> st, nPast |-> 0]
        BY <1>7 DEF Reused, st
    <2>2. 0 \in Nat /\ 0 <= n
        BY <1>4
    <2> QED
        BY <1>6, <2>1, <2>2 DEF p, st
<1>8. CASE task[s].cachePrompt /\ ~(setup.shiftable /\ NCacheReuse > 0)
    <2>1. Reused(s) = [st |-> st, nPast |-> n]
        BY <1>8 DEF Reused, st, n, p
    <2>2. n \in Nat /\ n <= n
        BY <1>4
    <2> QED
        BY <1>6, <2>1, <2>2 DEF p, st
<1>9. CASE task[s].cachePrompt /\ setup.shiftable /\ NCacheReuse > 0
    <2>1. Reused(s) = [st |-> at.st, nPast |-> at.hp]
        BY <1>9 DEF Reused, st, n, p
    <2>2. at \in Along(Len(st.tokens), Len(p), st.ckpts, st.swa)
        BY <1>1, <1>2, <1>4, ReuseChunksKeeps
    <2> HIDE DEF at
    <2>3. /\ at.st \in PromptStates /\ at.st.ckpts = st.ckpts /\ at.st.swa = st.swa
          /\ Len(at.st.tokens) = Len(st.tokens)
          /\ at.hp \in Nat /\ at.hc \in Nat /\ at.hp <= Len(p) /\ at.hp <= at.hc /\ at.hc <= Len(st.tokens)
          /\ \A q \in 0..(Len(st.tokens) - 1) : q < at.hp \/ q >= at.hc =>
                q \in DOMAIN at.st.base /\ at.st.base[q][1] = at.st.tokens[q + 1]
        BY <2>2 DEF Along
    <2>4. \A q \in 0..(at.hp - 1) : q \in 0..(Len(st.tokens) - 1) /\ q < at.hp
        BY <1>3, <2>3
    <2>5. ~(setup.window > 0)
        BY <1>9, SetupTypes
    <2>6. at.hp <= Len(st.tokens)
        BY <1>3, <2>3
    <2>7. Reused(s).st = at.st /\ Reused(s).nPast = at.hp
        BY <2>1
    <2> QED
        BY <2>3, <2>4, <2>5, <2>6, <2>7 DEF Reuses, st, p
<1> QED
    BY <1>7, <1>8, <1>9

-----------------------------------------------------------------------------
(* The window in numbers; the ends of what a map holds.                     *)
LEMMA WindowNumbers ==
    ASSUME setup \in Setups
    PROVE  /\ Window \in Nat \ {0} /\ (setup.window > 0 => Window = setup.window)
           /\ \A n \in Int : Threshold(n) = IF n - Window >= 0 THEN n - Window ELSE 0
<1>1. setup.window \in Nat
    BY SetupTypes
<1>2. Window = IF 1 >= setup.window THEN 1 ELSE setup.window
    BY <1>1, MaxOfTwo DEF Window
<1>3. Window \in Nat \ {0} /\ (setup.window > 0 => Window = setup.window)
    BY <1>1, <1>2
<1>4. ASSUME NEW n \in Int PROVE Threshold(n) = IF n - Window >= 0 THEN n - Window ELSE 0
    <2>1. n - Window \in Int
        BY <1>3
    <2>2. Max({0, n - Window}) = IF 0 >= n - Window THEN 0 ELSE n - Window
        BY <2>1, MaxOfTwo
    <2> QED
        BY <2>1, <2>2 DEF Threshold
<1> QED
    BY <1>3, <1>4

LEMMA PosEnds ==
    ASSUME NEW cells \in CellMaps, cells # None
    PROVE  /\ PosMin(cells) \in DOMAIN cells /\ PosMax(cells) \in DOMAIN cells
           /\ \A p \in DOMAIN cells : PosMin(cells) <= p /\ p <= PosMax(cells)
           /\ PosMin(cells) \in Nat /\ PosMax(cells) \in Nat /\ PosMax(cells) < NCtx
<1> DEFINE D == DOMAIN cells
<1>1. D # {}
    BY MapWithCells
<1>2. D \subseteq Nat /\ \A p \in D : p <= NCtx /\ p < NCtx
    BY CellMap, Numbers DEF Positions
<1> HIDE DEF D
<1>3. Min(D) \in D /\ \A p \in D : Min(D) <= p
    BY <1>1, <1>2, MinIsElement
<1>4. Max(D) \in D /\ \A p \in D : p <= Max(D)
    BY <1>1, <1>2, Numbers, MaxIsElement
<1> QED
    BY <1>2, <1>3, <1>4 DEF PosMin, PosMax, D

(* What Restored leaves in the window, and how much it keeps.               *)
LEMMA RestoredRight ==
    ASSUME setup \in Setups, NEW st \in PromptStates, NEW n \in Nat, NEW x \in Restored(st, n)
    PROVE  /\ x[2] \in Nat /\ x[2] <= n
           /\ x[1] \in CellMaps
           /\ x[1] = st.swa \/ st.ckpts # <<>>
<1>1. st.swa \in CellMaps /\ st.ckpts \in Seq(Ckpts) /\ Len(st.ckpts) \in Nat
    BY StateTypes
<1>2. CASE x = <<st.swa, n>>
    BY <1>1, <1>2
<1>3. CASE x = <<st.swa, 0>>
    BY <1>1, <1>3
<1>4. CASE LacksWindow(st, n) /\ Usable(st, n) # {} /\ x # <<st.swa, 0>>
    <2> DEFINE i == Max(Usable(st, n))
               c == st.ckpts[i]
    <2>1. Usable(st, n) \subseteq Nat /\ \A k \in Usable(st, n) : k <= Len(st.ckpts)
        BY <1>1 DEF Usable
    <2>2. i \in Usable(st, n)
        BY <1>1, <1>4, <2>1, MaxIsElement
    <2>3. i \in 1..Len(st.ckpts)
        BY <2>2 DEF Usable
    <2>4. x = <<c, Min({n, Max({PosMin(c) + 1, PosMax(c)})})>>
        BY <1>4 DEF Restored
    <2> HIDE DEF i
    <2>5. c \in CellMaps /\ c # None
        BY <1>1, <2>3, ElementOfSeq DEF Ckpts
    <2>6. PosMin(c) \in Nat /\ PosMax(c) \in Nat
        BY <2>5, PosEnds
    <2> HIDE DEF c
    <2>7. PICK m \in Nat : m = Max({PosMin(c) + 1, PosMax(c)})
        <3>1. Max({PosMin(c) + 1, PosMax(c)}) = IF PosMin(c) + 1 >= PosMax(c) THEN PosMin(c) + 1 ELSE PosMax(c)
            BY <2>6, MaxOfTwo
        <3> QED
            BY <2>6, <3>1
    <2>8. Min({n, m}) = IF n <= m THEN n ELSE m
        BY MinOfTwo
    <2>9. x[1] = c /\ x[2] = Min({n, m})
        BY <2>4, <2>7
    <2>10. st.ckpts # <<>>
        BY <2>3, EmptySeq
    <2> QED
        BY <2>5, <2>8, <2>9, <2>10
<1> QED
    BY <1>2, <1>3, <1>4 DEF Restored

LEMMA EvaluatesOneBound ==
    ASSUME NEW n \in Nat, NEW r \in Requests, n <= Len(r.prompt)
    PROVE  /\ EvaluatesOne(n, r) \in Nat /\ EvaluatesOne(n, r) <= n
           /\ EvaluatesOne(n, r) < Len(r.prompt)
           /\ EvaluatesOne(n, r) # n => n = Len(r.prompt) /\ EvaluatesOne(n, r) = n - 1
    BY PromptTypes DEF EvaluatesOne

LEMMA ValidElements ==
    ASSUME NEW S, NEW st \in PromptStates, st.ckpts \in Seq(S), NEW n
    PROVE  /\ Valid(st, n) \in Seq(S) /\ Len(Valid(st, n)) <= Len(st.ckpts)
           /\ st.ckpts = <<>> => Valid(st, n) = <<>>
<1> DEFINE K == {i \in 1..Len(st.ckpts) : PosMin(st.ckpts[i]) <= Threshold(n)}
           v == KeepAt(st.ckpts, K)
<1>1. v = Valid(st, n)
    BY DEF Valid
<1>2. K \subseteq 1..Len(st.ckpts)
    OBVIOUS
<1> HIDE DEF K
<1>3. v \in Seq(S) /\ Len(v) <= Len(st.ckpts)
    BY <1>2, KeptElements
<1> HIDE DEF v
<1>4. st.ckpts = <<>> => v = <<>>
    <2> SUFFICES ASSUME st.ckpts = <<>> PROVE v = <<>>
        OBVIOUS
    <2>1. Len(v) <= 0
        BY <1>3, EmptySeq
    <2> QED
        BY <1>3, <2>1, EmptySeq
<1> QED
    BY <1>1, <1>3, <1>4

(* What a slot keeps is right, and shorter than its prompt.                 *)
KeptOf(kept, re, w, r) ==
    kept = [re.st EXCEPT !.swa = w[1],
                         !.ckpts = Valid(re.st, re.nPast),
                         !.tokens = SubSeq(@, 1, EvaluatesOne(w[2], r))]

LEMMA KeptFields ==
    ASSUME setup \in Setups, NEW st \in PromptStates, NEW r \in Requests, NEW re, Reuses(re, st, r.prompt),
           NEW w \in Restored(re.st, re.nPast), NEW kept, KeptOf(kept, re, w, r)
    PROVE  /\ kept \in PromptStates
           /\ kept.swa = w[1] /\ kept.ckpts = Valid(re.st, re.nPast) /\ kept.base = re.st.base
           /\ Len(kept.tokens) = EvaluatesOne(w[2], r)
           /\ \A p \in 1..Len(kept.tokens) : kept.tokens[p] = re.st.tokens[p]
           /\ w[2] \in Nat /\ w[2] <= re.nPast
           /\ EvaluatesOne(w[2], r) \in Nat /\ EvaluatesOne(w[2], r) < Len(r.prompt)
           /\ EvaluatesOne(w[2], r) <= w[2]
<1> DEFINE e == EvaluatesOne(w[2], r)
           toks == SubSeq(re.st.tokens, 1, e)
           v == Valid(re.st, re.nPast)
<1>1. /\ re.st \in PromptStates /\ re.nPast \in Nat /\ re.nPast <= Len(r.prompt)
      /\ re.nPast <= Len(re.st.tokens)
    BY DEF Reuses
<1>2. w[2] \in Nat /\ w[2] <= re.nPast /\ w[1] \in CellMaps
    BY <1>1, RestoredRight
<1>3. Len(re.st.tokens) \in Nat /\ re.st.tokens \in Seq(Tokens) /\ re.st.ckpts \in Seq(Ckpts)
    BY <1>1, StateTypes
<1>4. Len(r.prompt) \in Nat
    BY PromptTypes
<1>5. w[2] <= Len(r.prompt)
    BY <1>1, <1>2, <1>4
<1>6. e \in Nat /\ e <= w[2] /\ e < Len(r.prompt)
    BY <1>2, <1>5, EvaluatesOneBound
<1> HIDE DEF e
<1>7. e \in 0..Len(re.st.tokens) /\ 1 \in 1..(Len(re.st.tokens) + 1)
    BY <1>1, <1>2, <1>3, <1>6
<1>8. toks \in Seq(Tokens) /\ Len(toks) = e /\ \A p \in 1..Len(toks) : toks[p] = re.st.tokens[p]
    <2>1. /\ toks \in Seq(Tokens) /\ Len(toks) = IF 1 <= e THEN e - 1 + 1 ELSE 0
          /\ \A k \in 1..Len(toks) : toks[k] = re.st.tokens[1 + k - 1]
        BY <1>3, <1>7, SubSeqElements
    <2>2. Len(toks) = e
        BY <2>1, <1>6
    <2>3. \A k \in 1..Len(toks) : 1 + k - 1 = k
        BY <2>2, <1>6
    <2> HIDE DEF toks
    <2> QED
        BY <2>1, <2>2, <2>3
<1>9. v \in Seq(Ckpts)
    BY <1>1, <1>3, ValidElements
<1>10. kept = [re.st EXCEPT !.swa = w[1], !.ckpts = v, !.tokens = toks]
    BY DEF KeptOf, e
<1> HIDE DEF toks, v
<1>11. /\ kept \in PromptStates /\ kept.swa = w[1] /\ kept.ckpts = v /\ kept.base = re.st.base
       /\ kept.tokens = toks
    BY <1>1, <1>2, <1>8, <1>9, <1>10 DEF PromptStates
<1> QED
    BY <1>2, <1>6, <1>8, <1>11 DEF v, e

(* Whatever of a right prompt is kept for a request is a right prompt.      *)
LEMMA KeptRight ==
    ASSUME setup \in Setups, NEW s, SlotState(s) \in RightStates, task[s] \in Requests,
           NEW kept \in Kept(s)
    PROVE  /\ kept \in RightStates /\ Len(kept.tokens) < Len(task[s].prompt)
<1> DEFINE st == SlotState(s)
           r == task[s]
           re == Reused(s)
<1>1. st \in PromptStates /\ Right(st) /\ Reuses(re, st, r.prompt)
    BY ReusedReuses DEF RightStates
<1>2. PICK w \in Restored(re.st, re.nPast) : KeptOf(kept, re, w, r)
    BY DEF Kept, KeptOf
<1> DEFINE e == EvaluatesOne(w[2], r)
<1> HIDE DEF st, re, r
<1>3. r \in Requests
    BY DEF r
<1>4. /\ kept \in PromptStates
      /\ kept.swa = w[1] /\ kept.ckpts = Valid(re.st, re.nPast) /\ kept.base = re.st.base
      /\ Len(kept.tokens) = e
      /\ \A p \in 1..Len(kept.tokens) : kept.tokens[p] = re.st.tokens[p]
      /\ w[2] \in Nat /\ w[2] <= re.nPast
      /\ e \in Nat /\ e < Len(r.prompt) /\ e <= w[2]
    BY <1>1, <1>2, <1>3, KeptFields
<1> HIDE DEF e
<1>5. /\ re.st \in PromptStates /\ re.st.ckpts = st.ckpts /\ re.st.swa = st.swa
      /\ Len(re.st.tokens) = Len(st.tokens)
      /\ re.nPast \in Nat /\ re.nPast <= Len(st.tokens)
      /\ \A p \in 0..(re.nPast - 1) : p \in DOMAIN re.st.base /\ re.st.base[p][1] = re.st.tokens[p + 1]
      /\ setup.window > 0 => re.st = st
    BY <1>1 DEF Reuses
<1>6. /\ setup.window \in Nat /\ setup.maxCkpt \in Nat /\ NCtx \in Nat
      /\ Len(st.tokens) \in Nat /\ Len(st.ckpts) \in Nat /\ st.ckpts \in Seq(Ckpts)
    BY <1>1, SetupTypes, Numbers, StateTypes
<1>7. Len(kept.tokens) <= NCtx
    BY <1>1, <1>4, <1>5, <1>6 DEF Right
<1>8. Len(kept.ckpts) <= setup.maxCkpt /\ (st.ckpts = <<>> => kept.ckpts = <<>>)
    <2>1. /\ Valid(re.st, re.nPast) \in Seq(Ckpts) /\ Len(Valid(re.st, re.nPast)) <= Len(st.ckpts)
          /\ st.ckpts = <<>> => Valid(re.st, re.nPast) = <<>>
        BY <1>5, <1>6, ValidElements
    <2>2. Len(kept.ckpts) \in Nat
        BY <2>1, <1>4, LenProperties
    <2> QED
        BY <1>1, <1>4, <1>6, <2>1, <2>2 DEF Right
<1>9. SameTokens(kept.base, kept.tokens, 0)
    <2> SUFFICES ASSUME NEW p \in 0..(Len(kept.tokens) - 1)
                 PROVE  p \in DOMAIN kept.base /\ kept.base[p][1] = kept.tokens[p + 1]
        BY DEF SameTokens
    <2>1. p \in 0..(re.nPast - 1) /\ p + 1 \in 1..Len(kept.tokens)
        BY <1>4, <1>5
    <2> QED
        BY <2>1, <1>4, <1>5
<1>10. w[1] = st.swa \/ st.ckpts # <<>>
    BY <1>5, RestoredRight
<1>11. setup.maxCkpt = 0 => WindowMatches(kept)
    <2> SUFFICES ASSUME setup.maxCkpt = 0, NEW p \in DOMAIN kept.swa, p < Len(kept.tokens)
                 PROVE  kept.swa[p][1] = kept.tokens[p + 1]
        BY DEF WindowMatches
    <2>1. st.ckpts = <<>> /\ WindowMatches(st)
        <3>1. Len(st.ckpts) = 0
            BY <1>1, <1>6 DEF Right
        <3> QED
            BY <1>1, <1>6, <3>1, EmptySeq DEF Right
    <2>2. kept.swa = st.swa
        BY <1>4, <1>10, <2>1
    <2>3. CASE setup.window = 0
        <3>1. DOMAIN kept.swa = {}
            BY <1>1, <2>2, <2>3, NoneIsMap DEF Right
        <3> QED
            BY <3>1
    <2>4. CASE setup.window > 0
        <3>1. p \in Nat
            <4>1. DOMAIN kept.swa \subseteq Positions
                BY <1>4, CellMap DEF PromptStates
            <4> QED
                BY <4>1 DEF Positions
        <3>2. p < Len(st.tokens) /\ p + 1 \in 1..Len(kept.tokens)
            BY <1>4, <1>5, <1>6, <3>1
        <3> QED
            BY <1>4, <1>5, <2>1, <2>2, <2>4, <3>2 DEF WindowMatches
    <2> QED
        BY <1>6, <2>3, <2>4
<1>12. setup.window = 0 => kept.swa = None /\ kept.ckpts = <<>>
    BY <1>1, <1>4, <1>8, <1>10 DEF Right
<1>13. kept \in RightStates
    BY <1>4, <1>7, <1>8, <1>9, <1>11, <1>12 DEF RightStates, Right
<1> QED
    BY <1>4, <1>13 DEF r

-----------------------------------------------------------------------------
(* The cells behind the kept tokens go.                                     *)
Within(st) ==    \* no cell lies behind the tokens
    DOMAIN st.base \subseteq 0..(Len(st.tokens) - 1) /\ DOMAIN st.swa \subseteq 0..(Len(st.tokens) - 1)

CutFields(cut, st, p) ==
    /\ cut.ckpts = st.ckpts /\ cut.tokens = st.tokens
    /\ Restricts(cut.base, st.base, {q \in DOMAIN st.base : q < p})
    /\ Restricts(cut.swa, st.swa, {q \in DOMAIN st.swa : q < p})

LEMMA CutAtCuts ==
    ASSUME NEW st \in PromptStates, NEW p, NEW x \in CutAt(st, p)
    PROVE  x = Blank(st) \/ (x \in PromptStates /\ CutFields(x, st, p))
<1> DEFINE cut == [st EXCEPT !.base = Before(@, p), !.swa = Before(@, p)]
<1>1. /\ Restricts(Before(st.base, p), st.base, {q \in DOMAIN st.base : q < p})
      /\ Restricts(Before(st.swa, p), st.swa, {q \in DOMAIN st.swa : q < p})
    BY StateTypes, BeforeCells
<1>2. Before(st.base, p) \in CellMaps /\ Before(st.swa, p) \in CellMaps
    BY <1>1 DEF Restricts
<1>3. /\ cut \in PromptStates /\ cut.ckpts = st.ckpts /\ cut.tokens = st.tokens
      /\ cut.base = Before(st.base, p) /\ cut.swa = Before(st.swa, p)
    BY <1>2 DEF PromptStates
<1>4. CutAt(st, p) = IF cut = st THEN {st} ELSE {cut, Blank(st)}
    BY DEF CutAt
<1> HIDE DEF cut
<1>5. x = cut \/ x = Blank(st)
    BY <1>4
<1> QED
    BY <1>1, <1>3, <1>5 DEF CutFields

(* A prompt that was cut is right, and has no cell behind its tokens.       *)
LEMMA CutRight ==
    ASSUME setup \in Setups, NEW st \in RightStates, NEW x \in CutAt(st, Len(st.tokens))
    PROVE  x \in RightStates /\ Within(x) /\ Len(x.tokens) <= Len(st.tokens)
<1>1. st \in PromptStates /\ Right(st)
    BY DEF RightStates
<1>2. Len(st.tokens) \in Nat
    BY <1>1, StateTypes
<1>3. CASE x = Blank(st)
    <2>1. Blank(st) \in RightStates
        BY BlankRight
    <2>2. /\ Blank(st).tokens = <<>> /\ Blank(st).base = None /\ Blank(st).swa = None
        BY <1>1 DEF Blank, PromptStates
    <2>3. Within(Blank(st)) /\ Len(Blank(st).tokens) = 0
        BY <2>2, NoneIsMap, EmptySeq DEF Within
    <2> QED
        BY <1>2, <1>3, <2>1, <2>3
<1>4. CASE x \in PromptStates /\ CutFields(x, st, Len(st.tokens))
    <2>1. /\ x.ckpts = st.ckpts /\ x.tokens = st.tokens
          /\ DOMAIN x.base = {q \in DOMAIN st.base : q < Len(st.tokens)}
          /\ DOMAIN x.swa = {q \in DOMAIN st.swa : q < Len(st.tokens)}
          /\ \A q \in DOMAIN x.base : x.base[q] = st.base[q]
          /\ \A q \in DOMAIN x.swa : x.swa[q] = st.swa[q]
          /\ x.base \in CellMaps /\ x.swa \in CellMaps
        BY <1>4 DEF CutFields, Restricts
    <2>2. Within(x)
        <3>1. DOMAIN st.base \subseteq Nat /\ DOMAIN st.swa \subseteq Nat
            BY <1>1, CellMap DEF PromptStates, Positions
        <3> QED
            BY <2>1, <3>1, <1>2 DEF Within
    <2>3. SameTokens(x.base, x.tokens, 0)
        BY <1>1, <1>2, <2>1 DEF Right, SameTokens
    <2>4. setup.maxCkpt = 0 => WindowMatches(x)
        BY <1>1, <2>1 DEF Right, WindowMatches
    <2>5. setup.window = 0 => x.swa = None /\ x.ckpts = <<>>
        <3> SUFFICES ASSUME setup.window = 0 PROVE x.swa = None /\ x.ckpts = <<>>
            OBVIOUS
        <3>1. DOMAIN x.swa = {}
            BY <1>1, <2>1, NoneIsMap DEF Right
        <3>2. x.swa = None
            BY <2>1, <3>1, MapWithCells
        <3> QED
            BY <1>1, <2>1, <3>2 DEF Right
    <2>6. Right(x)
        BY <1>1, <2>1, <2>3, <2>4, <2>5 DEF Right
    <2> QED
        BY <1>2, <1>4, <2>1, <2>2, <2>6 DEF RightStates
<1> QED
    BY <1>1, <1>3, <1>4, CutAtCuts

(* A checkpoint, if one is taken, is a copy of the window.                  *)
LEMMA WithCkptFields ==
    ASSUME setup \in Setups, NEW S \in SUBSET Ckpts, NEW st \in PromptStates, st.ckpts \in Seq(S),
           Len(st.ckpts) <= setup.maxCkpt, TakesCkpt(st) => st.swa \in S
    PROVE  /\ WithCkpt(st) \in PromptStates /\ WithCkpt(st).ckpts \in Seq(S)
           /\ WithCkpt(st).tokens = st.tokens
           /\ WithCkpt(st).base = st.base /\ WithCkpt(st).swa = st.swa
           /\ Len(WithCkpt(st).ckpts) <= setup.maxCkpt
           /\ WithCkpt(st) # st => MakesCkpt
<1>1. CASE ~TakesCkpt(st)
    BY <1>1 DEF WithCkpt
<1>2. CASE TakesCkpt(st)
    <2> DEFINE n == Len(st.ckpts)
               i == Max({1, n - setup.maxCkpt + 2})
               kept == SubSeq(st.ckpts, i, n)
               new == Append(kept, st.swa)
    <2>1. n \in Nat /\ setup.maxCkpt \in Nat /\ n <= setup.maxCkpt /\ setup.maxCkpt > 0 /\ MakesCkpt
        BY <1>2, StateTypes, SetupTypes DEF TakesCkpt, MakesCkpt
    <2>2. i = IF 1 >= n - setup.maxCkpt + 2 THEN 1 ELSE n - setup.maxCkpt + 2
        <3>1. n - setup.maxCkpt + 2 \in Int
            BY <2>1
        <3> QED
            BY <3>1, MaxOfTwo
    <2> HIDE DEF i
    <2>3. (i \in Nat /\ i >= 1 /\ i >= n - setup.maxCkpt + 2 /\ i <= n + 1) \/ (i = 2 /\ n = 0)
        BY <2>1, <2>2
    <2>4. kept \in Seq(S) /\ Len(kept) = IF i <= n THEN n - i + 1 ELSE 0
        <3>1. i \in Int /\ n \in Int
            BY <2>1, <2>3
        <3>2. \A k \in i..n : st.ckpts[k] \in S
            <4>1. \A k \in i..n : k \in 1..n
                BY <2>1, <2>3
            <4> QED
                BY <4>1, ElementOfSeq
        <3> QED
            BY <3>1, <3>2, SubSeqProperties
    <2> HIDE DEF kept
    <2>5. new \in Seq(S) /\ Len(new) = Len(kept) + 1
        BY <1>2, <2>4, AppendProperties
    <2>6. Len(new) <= setup.maxCkpt
        BY <2>1, <2>2, <2>4, <2>5
    <2>7. new \in Seq(Ckpts)
        BY <2>5, SeqMonotonic
    <2>8. WithCkpt(st) = [st EXCEPT !.ckpts = new]
        BY <1>2 DEF WithCkpt, new, kept, i
    <2> HIDE DEF new
    <2>9. /\ WithCkpt(st) \in PromptStates /\ WithCkpt(st).ckpts = new /\ WithCkpt(st).tokens = st.tokens
          /\ WithCkpt(st).base = st.base /\ WithCkpt(st).swa = st.swa
        BY <2>7, <2>8 DEF PromptStates
    <2> QED
        BY <2>1, <2>5, <2>6, <2>9
<1> QED
    BY <1>1, <1>2

LEMMA WithCkptRight ==
    ASSUME setup \in Setups, NEW st \in RightStates
    PROVE  /\ WithCkpt(st) \in RightStates /\ WithCkpt(st).tokens = st.tokens
           /\ WithCkpt(st).base = st.base /\ WithCkpt(st).swa = st.swa
<1>1. st \in PromptStates /\ Right(st)
    BY DEF RightStates
<1>2. st.ckpts \in Seq(Ckpts) /\ st.swa \in CellMaps
    BY <1>1, StateTypes
<1>3. TakesCkpt(st) => st.swa \in Ckpts
    BY <1>2 DEF TakesCkpt, Ckpts
<1>4. /\ WithCkpt(st) \in PromptStates
      /\ WithCkpt(st).tokens = st.tokens
      /\ WithCkpt(st).base = st.base /\ WithCkpt(st).swa = st.swa
      /\ Len(WithCkpt(st).ckpts) <= setup.maxCkpt
      /\ WithCkpt(st) # st => MakesCkpt
    BY <1>1, <1>2, <1>3, WithCkptFields DEF Right
<1>5. setup.window = 0 => WithCkpt(st) = st
    BY <1>4 DEF MakesCkpt
<1>6. Right(WithCkpt(st))
    BY <1>1, <1>4, <1>5 DEF Right, WindowMatches
<1> QED
    BY <1>4, <1>6 DEF RightStates

(* How much is added to a batch.                                            *)
LEMMA FillToBound ==
    ASSUME setup \in Setups, NEW n \in Nat, NEW total \in Nat, n < total, NEW room \in Nat
    PROVE  FillTo(n, total, room) \in n..total /\ (room > 0 => FillTo(n, total, room) > n)
<1> DEFINE k == Min({NBatch, LastChunk})
           stop == total - k
           S == {total, n + room} \cup (IF MakesCkpt /\ n < stop THEN {stop} ELSE {})
<1>1. k = IF NBatch <= LastChunk THEN NBatch ELSE LastChunk
    BY Numbers, MinOfTwo
<1>2. k \in Nat
    BY <1>1, Numbers
<1> HIDE DEF k
<1>3. S \subseteq n..total \cup {n + room} /\ total \in S /\ S \subseteq Nat
    BY <1>2
<1>4. FillTo(n, total, room) = Min(S)
    BY DEF FillTo, k
<1> HIDE DEF S
<1>5. Min(S) \in S /\ \A y \in S : Min(S) =< y
    BY <1>3, MinIsElement
<1>6. PICK m \in S : m = Min(S)
    BY <1>5
<1>7. m =< total /\ m \in Nat /\ m >= n
    BY <1>3, <1>5, <1>6
<1>8. room > 0 => m > n
    <2>1. m \in {total, n + room} \/ m > n
        BY <1>6 DEF S
    <2> QED
        BY <2>1
<1> QED
    BY <1>4, <1>6, <1>7, <1>8

(* A decode: the cells of the tokens, on top of those there are.            *)
LEMMA ComputedCells ==
    ASSUME NEW s \in Slots, lora[s] \in Loras, NEW toks \in Seq(Tokens), NEW n \in Nat,
           n + Len(toks) <= NCtx
    PROVE  /\ Computed(s, n, toks) \in CellMaps
           /\ DOMAIN Computed(s, n, toks) = n..(n + Len(toks) - 1)
           /\ \A p \in n..(n + Len(toks) - 1) : Computed(s, n, toks)[p][1] = toks[p - n + 1]
<1> DEFINE c == Computed(s, n, toks)
<1>1. Len(toks) \in Nat /\ NCtx \in Nat
    BY LenProperties, Numbers
<1>2. DOMAIN c = n..(n + Len(toks) - 1) /\ c = [p \in DOMAIN c |-> c[p]]
    BY DEF Computed
<1>3. ASSUME NEW p \in n..(n + Len(toks) - 1)
      PROVE  /\ p \in Positions /\ c[p] \in Tokens \X Loras /\ c[p][1] = toks[p - n + 1]
    <2>1. p - n + 1 \in 1..Len(toks)
        BY <1>1
    <2>2. toks[p - n + 1] \in Tokens
        BY <2>1, ElementOfSeq
    <2>3. c[p] = <<toks[p - n + 1], lora[s]>>
        BY DEF Computed
    <2>4. p \in Positions
        BY <1>1 DEF Positions
    <2> QED
        BY <2>2, <2>3, <2>4
<1> HIDE DEF c
<1>4. c \in CellMaps
    BY <1>2, <1>3, CellMap
<1> QED
    BY <1>2, <1>3, <1>4 DEF c

LEMMA JoinedCells ==
    ASSUME NEW a \in CellMaps, NEW b \in CellMaps
    PROVE  /\ Joined(a, b) \in CellMaps /\ DOMAIN Joined(a, b) = DOMAIN a \cup DOMAIN b
           /\ \A p \in DOMAIN a : Joined(a, b)[p] = a[p]
           /\ \A p \in DOMAIN b : p \notin DOMAIN a => Joined(a, b)[p] = b[p]
<1> DEFINE c == Joined(a, b)
<1>1. /\ DOMAIN c = DOMAIN a \cup DOMAIN b /\ c = [p \in DOMAIN c |-> c[p]]
      /\ \A p \in DOMAIN a : c[p] = a[p]
      /\ \A p \in DOMAIN b : p \notin DOMAIN a => c[p] = b[p]
    BY DEF Joined
<1>2. /\ DOMAIN a \subseteq Positions /\ DOMAIN b \subseteq Positions
      /\ \A p \in DOMAIN a : a[p] \in Tokens \X Loras
      /\ \A p \in DOMAIN b : b[p] \in Tokens \X Loras
    BY CellMap
<1> HIDE DEF c
<1>3. \A p \in DOMAIN c : c[p] \in Tokens \X Loras
    BY <1>1, <1>2
<1>4. DOMAIN c \subseteq Positions
    BY <1>1, <1>2
<1>5. c \in CellMaps
    BY <1>1, <1>3, <1>4, CellMap
<1> QED
    BY <1>1, <1>5 DEF c

(* What a decode leaves.                                                    *)
Shortens(w, cells, k) == Restricts(w, cells, {q \in DOMAIN cells : q >= k})
DecodedFields(after, st, toks, new) ==
    /\ after \in PromptStates /\ after.tokens = st.tokens \o toks /\ after.ckpts = st.ckpts
    /\ after.base = Joined(st.base, new)
    /\ setup.window = 0 => after.swa = None
    /\ setup.window > 0 =>
          \/ after.swa = Joined(st.swa, new)
          \/ Shortens(after.swa, Joined(st.swa, new), Threshold(Len(st.tokens) + Len(toks)))

LEMMA DecodedHas ==
    ASSUME setup \in Setups, NEW s \in Slots, lora[s] \in Loras, NEW st \in PromptStates,
           NEW toks \in Seq(Tokens), Len(st.tokens) + Len(toks) <= NCtx,
           NEW after \in Decoded(s, st, toks)
    PROVE  DecodedFields(after, st, toks, Computed(s, Len(st.tokens), toks))
<1> DEFINE n == Len(st.tokens) + Len(toks)
           k == Threshold(n)
           new == Computed(s, Len(st.tokens), toks)
           window == Joined(st.swa, new)
           cut == From(window, k)
           joined == Joined(st.base, new)
           W == IF setup.window = 0 THEN {None} ELSE {window, cut}
           longer == st.tokens \o toks
<1>1. /\ Len(st.tokens) \in Nat /\ st.tokens \in Seq(Tokens) /\ st.base \in CellMaps /\ st.swa \in CellMaps
    BY StateTypes
<1>2. new \in CellMaps
    BY <1>1, ComputedCells
<1>3. after \in {[st EXCEPT !.tokens = longer, !.base = joined, !.swa = w] : w \in W}
    BY DEF Decoded
<1>4. longer \in Seq(Tokens)
    BY <1>1, ConcatProperties
<1> HIDE DEF new, k
<1>5. window \in CellMaps /\ joined \in CellMaps
    BY <1>1, <1>2, JoinedCells
<1>6. Restricts(cut, window, {q \in DOMAIN window : q >= k})
    <2> HIDE DEF window
    <2> QED
        BY <1>5, FromCells DEF cut
<1>7. cut \in CellMaps
    BY <1>6 DEF Restricts
<1>8. None \in CellMaps
    BY NoneIsMap
<1> HIDE DEF window, joined, cut, longer
<1>9. PICK w \in W : after = [st EXCEPT !.tokens = longer, !.base = joined, !.swa = w]
    BY <1>3
<1>10. w \in CellMaps
    BY <1>5, <1>7, <1>8
<1>11. /\ after \in PromptStates /\ after.tokens = longer /\ after.ckpts = st.ckpts
       /\ after.base = joined /\ after.swa = w
    BY <1>4, <1>5, <1>9, <1>10 DEF PromptStates
<1>12. setup.window = 0 => after.swa = None
    BY <1>11
<1>13. setup.window > 0 => after.swa = window \/ after.swa = cut
    <2>1. setup.window \in Nat
        BY SetupTypes
    <2> QED
        BY <1>11, <2>1
<1>14. setup.window > 0 =>
          \/ after.swa = window
          \/ Shortens(after.swa, window, k)
    BY <1>6, <1>13 DEF Shortens
<1>15. /\ after.tokens = st.tokens \o toks /\ after.base = Joined(st.base, new)
    BY <1>11 DEF joined, longer
<1>16. setup.window > 0 =>
          \/ after.swa = Joined(st.swa, new)
          \/ Shortens(after.swa, Joined(st.swa, new), Threshold(Len(st.tokens) + Len(toks)))
    BY <1>14 DEF window, k
<1>17. DecodedFields(after, st, toks, new)
    BY <1>11, <1>12, <1>15, <1>16 DEF DecodedFields
<1> QED
    BY <1>17 DEF new

(* A right prompt with tokens decoded behind it is a right prompt.          *)
LEMMA DecodedRight ==
    ASSUME setup \in Setups, NEW s \in Slots, lora[s] \in Loras, NEW st \in RightStates, Within(st),
           NEW toks \in Seq(Tokens), Len(st.tokens) + Len(toks) <= NCtx,
           NEW after \in Decoded(s, st, toks)
    PROVE  /\ after \in RightStates /\ Within(after)
           /\ Len(after.tokens) = Len(st.tokens) + Len(toks)
<1>1. st \in PromptStates /\ Right(st)
    BY DEF RightStates
<1>0. PICK n \in Nat, m \in Nat : n = Len(st.tokens) /\ m = Len(toks)
    BY <1>1, StateTypes, LenProperties
<1>00. PICK N \in Nat : N = n + m
    OBVIOUS
<1> DEFINE new == Computed(s, n, toks)
<1>2. /\ n \in Nat /\ st.tokens \in Seq(Tokens) /\ st.base \in CellMaps /\ st.swa \in CellMaps
      /\ m \in Nat /\ N \in Nat /\ N = n + m /\ n = Len(st.tokens) /\ m = Len(toks)
    BY <1>0, <1>00, <1>1, StateTypes
<1>3. DecodedFields(after, st, toks, new)
    BY <1>0, <1>1, DecodedHas
<1>4. /\ new \in CellMaps /\ DOMAIN new = n..(N - 1)
      /\ \A p \in n..(N - 1) : new[p][1] = toks[p - n + 1]
    <2>1. n + Len(toks) <= NCtx /\ n + Len(toks) - 1 = N - 1
        BY <1>0, <1>00
    <2>2. /\ new \in CellMaps /\ DOMAIN new = n..(n + Len(toks) - 1)
          /\ \A p \in n..(n + Len(toks) - 1) : new[p][1] = toks[p - n + 1]
        BY <1>2, <2>1, ComputedCells
    <2> HIDE DEF new
    <2> QED
        BY <2>1, <2>2
<1> HIDE DEF new
<1>5. /\ Len(after.tokens) = N
      /\ \A i \in 1..n : after.tokens[i] = st.tokens[i]
      /\ \A i \in (n + 1)..N : after.tokens[i] = toks[i - n]
    <2>1. Len(st.tokens \o toks) = N /\ \A i \in 1..N : (st.tokens \o toks)[i] = IF i <= n THEN st.tokens[i] ELSE toks[i - n]
        BY <1>2, ConcatProperties
    <2>2. after.tokens = st.tokens \o toks
        BY <1>3 DEF DecodedFields
    <2> QED
        BY <1>2, <2>1, <2>2
<1>6. ASSUME NEW cells \in CellMaps, DOMAIN cells \subseteq 0..(n - 1)
      PROVE  /\ Joined(cells, new) \in CellMaps
             /\ DOMAIN Joined(cells, new) = DOMAIN cells \cup n..(N - 1)
             /\ \A p \in DOMAIN cells : Joined(cells, new)[p] = cells[p]
             /\ \A p \in n..(N - 1) : Joined(cells, new)[p][1] = after.tokens[p + 1]
    <2>1. /\ Joined(cells, new) \in CellMaps /\ DOMAIN Joined(cells, new) = DOMAIN cells \cup DOMAIN new
          /\ \A p \in DOMAIN cells : Joined(cells, new)[p] = cells[p]
          /\ \A p \in DOMAIN new : p \notin DOMAIN cells => Joined(cells, new)[p] = new[p]
        BY <1>4, <1>6, JoinedCells
    <2>2. ASSUME NEW p \in n..(N - 1) PROVE Joined(cells, new)[p][1] = after.tokens[p + 1]
        <3>1. p \notin DOMAIN cells
            BY <1>2, <1>6
        <3>2. p + 1 \in (n + 1)..N /\ (p + 1) - n = p - n + 1
            BY <1>2
        <3>3. after.tokens[p + 1] = toks[p - n + 1]
            BY <1>5, <3>2
        <3> QED
            BY <1>4, <2>1, <3>1, <3>3
    <2> QED
        BY <1>4, <2>1, <2>2
<1>7. DOMAIN st.base \subseteq 0..(n - 1) /\ DOMAIN st.swa \subseteq 0..(n - 1)
    BY <1>0 DEF Within
<1>16. /\ DOMAIN Joined(st.base, new) = DOMAIN st.base \cup n..(N - 1)
       /\ \A p \in DOMAIN st.base : Joined(st.base, new)[p] = st.base[p]
       /\ \A p \in n..(N - 1) : Joined(st.base, new)[p][1] = after.tokens[p + 1]
    BY <1>2, <1>6, <1>7
<1>8. after \in PromptStates /\ after.ckpts = st.ckpts /\ after.base = Joined(st.base, new)
    BY <1>3 DEF DecodedFields
<1>9. SameTokens(after.base, after.tokens, 0)
    <2> SUFFICES ASSUME NEW p \in 0..(N - 1)
                 PROVE  p \in DOMAIN after.base /\ after.base[p][1] = after.tokens[p + 1]
        BY <1>5 DEF SameTokens
    <2>1. CASE p < n
        <3>1. p \in 0..(n - 1) /\ p + 1 \in 1..n
            BY <2>1, <1>2
        <3>2. p \in DOMAIN st.base /\ st.base[p][1] = st.tokens[p + 1]
            BY <1>0, <1>1, <3>1 DEF Right, SameTokens
        <3>3. after.tokens[p + 1] = st.tokens[p + 1]
            BY <1>5, <3>1
        <3> QED
            BY <1>8, <1>16, <3>2, <3>3
    <2>2. CASE p >= n
        <3>1. p \in n..(N - 1)
            BY <2>2, <1>2
        <3> QED
            BY <1>8, <1>16, <3>1
    <2> QED
        BY <2>1, <2>2, <1>2
<1>10. ASSUME setup.window > 0
       PROVE  \A p \in DOMAIN after.swa : p \in DOMAIN Joined(st.swa, new) /\ after.swa[p] = Joined(st.swa, new)[p]
    BY <1>3, <1>10 DEF DecodedFields, Shortens, Restricts
<1>11. setup.window \in Nat
    BY SetupTypes
<1>12. Within(after)
    <2>1. DOMAIN after.base \subseteq 0..(N - 1)
        <3>1. n..(N - 1) \subseteq 0..(N - 1) /\ 0..(n - 1) \subseteq 0..(N - 1)
            BY <1>2
        <3> QED
            BY <1>7, <1>8, <1>16, <3>1
    <2>2. DOMAIN after.swa \subseteq 0..(N - 1)
        <3>1. n..(N - 1) \subseteq 0..(N - 1) /\ 0..(n - 1) \subseteq 0..(N - 1)
            BY <1>2
        <3>2. CASE setup.window = 0
            BY <1>3, <3>2, NoneIsMap DEF DecodedFields
        <3>3. CASE setup.window > 0
            <4>1. DOMAIN Joined(st.swa, new) = DOMAIN st.swa \cup n..(N - 1)
                <5> QED
                    BY <1>2, <1>6, <1>7
            <4> QED
                BY <1>7, <1>10, <3>1, <3>3, <4>1
        <3> QED
            BY <3>2, <3>3, <1>11
    <2> QED
        BY <1>5, <2>1, <2>2 DEF Within
<1>13. setup.maxCkpt = 0 => WindowMatches(after)
    <2> SUFFICES ASSUME setup.maxCkpt = 0, NEW p \in DOMAIN after.swa, p < Len(after.tokens)
                 PROVE  after.swa[p][1] = after.tokens[p + 1]
        BY DEF WindowMatches
    <2>1. CASE setup.window = 0
        BY <1>3, <2>1, NoneIsMap DEF DecodedFields
    <2>2. CASE setup.window > 0
        <3>1. p \in DOMAIN Joined(st.swa, new) /\ after.swa[p] = Joined(st.swa, new)[p]
            BY <1>10, <2>2
        <3>2. /\ DOMAIN Joined(st.swa, new) = DOMAIN st.swa \cup n..(N - 1)
              /\ \A q \in DOMAIN st.swa : Joined(st.swa, new)[q] = st.swa[q]
              /\ \A q \in n..(N - 1) : Joined(st.swa, new)[q][1] = after.tokens[q + 1]
            <4> QED
                BY <1>2, <1>6, <1>7
        <3>3. CASE p \in DOMAIN st.swa
            <4>1. p \in 0..(n - 1) /\ p < Len(st.tokens) /\ p + 1 \in 1..n
                BY <3>3, <1>2, <1>7
            <4>2. st.swa[p][1] = st.tokens[p + 1]
                BY <1>1, <3>3, <4>1 DEF Right, WindowMatches
            <4> QED
                BY <1>5, <3>1, <3>2, <3>3, <4>1, <4>2
        <3>4. CASE p \in n..(N - 1)
            <4> QED
                BY <3>1, <3>2, <3>4
        <3> QED
            BY <3>1, <3>2, <3>3, <3>4
    <2> QED
        BY <2>1, <2>2, <1>11
<1>14. setup.window = 0 => after.swa = None /\ after.ckpts = <<>>
    BY <1>1, <1>3 DEF DecodedFields, Right
<1>15. Right(after)
    BY <1>0, <1>00, <1>1, <1>5, <1>8, <1>9, <1>13, <1>14 DEF Right
<1> QED
    BY <1>0, <1>00, <1>5, <1>8, <1>12, <1>15 DEF RightStates

-----------------------------------------------------------------------------
(* One slot gets a prompt, the others keep theirs.                          *)
Shapes ==
    DOMAIN tokens = Slots /\ DOMAIN ckpts = Slots /\ DOMAIN base = Slots /\ DOMAIN swa = Slots

LEMMA SlotSet ==
    ASSUME Shapes, NEW s \in Slots, NEW x \in PromptStates, SetSlot(s, x), setup' = setup
    PROVE  /\ Shapes' /\ SlotState(s)' = x
           /\ \A t \in Slots : t # s => SlotState(t)' = SlotState(t)
<1>1. Slots' = Slots
    BY DEF Slots
<1>2. /\ tokens' = [tokens EXCEPT ![s] = x.tokens] /\ ckpts' = [ckpts EXCEPT ![s] = x.ckpts]
      /\ base' = [base EXCEPT ![s] = x.base] /\ swa' = [swa EXCEPT ![s] = x.swa]
    BY DEF SetSlot
<1>3. s \in DOMAIN tokens /\ s \in DOMAIN ckpts /\ s \in DOMAIN base /\ s \in DOMAIN swa
    BY DEF Shapes
<1>4. Shapes'
    BY <1>1, <1>2 DEF Shapes
<1>5. SlotState(s)' = x
    <2>1. tokens'[s] = x.tokens /\ ckpts'[s] = x.ckpts /\ base'[s] = x.base /\ swa'[s] = x.swa
        BY <1>2, <1>3
    <2> QED
        BY <2>1 DEF SlotState, PromptStates
<1>6. ASSUME NEW t \in Slots, t # s PROVE SlotState(t)' = SlotState(t)
    <2>1. tokens'[t] = tokens[t] /\ ckpts'[t] = ckpts[t] /\ base'[t] = base[t] /\ swa'[t] = swa[t]
        BY <1>2, <1>6 DEF Shapes
    <2> QED
        BY <2>1 DEF SlotState
<1> QED
    BY <1>4, <1>5, <1>6

(* A pass over a slot: cut, fill, checkpoint, decode.                       *)
HasRoom(room) == setup.slots <= NBatch => room > 0
PassOf(s, kept, cut, to, st, after) ==
    LET prompt == task[s].prompt
    IN  /\ cut \in CutAt(kept, Len(kept.tokens))
        /\ \E room \in Nat : HasRoom(room) /\ to = FillTo(Len(cut.tokens), Len(prompt), room)
        /\ st = IF to = Len(prompt) THEN WithCkpt(cut) ELSE cut
        /\ after \in Decoded(s, st, SubSeq(prompt, Len(cut.tokens) + 1, to))
        /\ SetSlot(s, after)
        /\ state' = [state EXCEPT ![s] = IF to = Len(prompt) THEN "generating" ELSE "prompt"]
        /\ thin' = (thin \/ TakesThin(cut, to, to = Len(prompt)))

LEMMA PassSteps ==
    ASSUME setup \in Setups, NEW s, NEW kept, Pass(s, kept)
    PROVE  /\ \E cut, to, st, after : PassOf(s, kept, cut, to, st, after)
           /\ UNCHANGED <<setup, task, lora, lastUsed, cacheVars, file, count>>
<1>1. \A n \in Room(s) : n \in Nat /\ HasRoom(n)
    BY Numbers, SetupTypes DEF Room, HasRoom
<1>2. PICK cut \in CutAt(kept, Len(kept.tokens)), room \in Room(s) :
        LET prompt == task[s].prompt
            n    == Len(cut.tokens)
            to   == FillTo(n, Len(prompt), room)
            last == to = Len(prompt)
            st   == IF last THEN WithCkpt(cut) ELSE cut
        IN  /\ \E after \in Decoded(s, st, SubSeq(prompt, n + 1, to)) : SetSlot(s, after)
            /\ state' = [state EXCEPT ![s] = IF last THEN "generating" ELSE "prompt"]
            /\ thin' = (thin \/ TakesThin(cut, to, last))
    BY DEF Pass
<1>3. PICK to : to = FillTo(Len(cut.tokens), Len(task[s].prompt), room)
    OBVIOUS
<1>4. PICK st : st = IF to = Len(task[s].prompt) THEN WithCkpt(cut) ELSE cut
    OBVIOUS
<1>5. PICK after \in Decoded(s, st, SubSeq(task[s].prompt, Len(cut.tokens) + 1, to)) : SetSlot(s, after)
    BY <1>2, <1>3, <1>4
<1>6. state' = [state EXCEPT ![s] = IF to = Len(task[s].prompt) THEN "generating" ELSE "prompt"]
    BY <1>2, <1>3
<1>7. thin' = (thin \/ TakesThin(cut, to, to = Len(task[s].prompt)))
    BY <1>2, <1>3
<1>8. PassOf(s, kept, cut, to, st, after)
    BY <1>1, <1>3, <1>4, <1>5, <1>6, <1>7, Zenon DEF PassOf
<1> QED
    BY <1>8 DEF Pass

(* After a pass what the slot holds is right, and the prompt is at its end  *)
(* or not.                                                                  *)
LEMMA PassRight ==
    ASSUME setup \in Setups, NEW s \in Slots, lora[s] \in Loras, task[s] \in Requests,
           NEW kept \in RightStates, Len(kept.tokens) < Len(task[s].prompt),
           NEW cut, NEW to, NEW st, NEW after, PassOf(s, kept, cut, to, st, after)
    PROVE  /\ cut \in RightStates /\ Within(cut)
           /\ Len(cut.tokens) \in Nat /\ to \in Len(cut.tokens)..Len(task[s].prompt)
           /\ setup.slots <= NBatch => to > Len(cut.tokens)
           /\ st \in RightStates /\ Within(st) /\ st.tokens = cut.tokens
           /\ after \in RightStates /\ Within(after) /\ Len(after.tokens) = to
           /\ SubSeq(task[s].prompt, Len(cut.tokens) + 1, to) \in Seq(Tokens)
           /\ Len(SubSeq(task[s].prompt, Len(cut.tokens) + 1, to)) = to - Len(cut.tokens)
<1> DEFINE prompt == task[s].prompt
           toks == SubSeq(prompt, Len(cut.tokens) + 1, to)
<1>1. prompt \in Seq(Tokens) /\ Len(prompt) \in Nat /\ Len(prompt) < NCtx
    BY PromptTypes
<1>2. cut \in RightStates /\ Within(cut) /\ Len(cut.tokens) <= Len(kept.tokens)
    BY CutRight DEF PassOf
<1>3. Len(cut.tokens) \in Nat /\ Len(kept.tokens) \in Nat
    BY <1>2, StateTypes DEF RightStates
<1>4. to \in Len(cut.tokens)..Len(prompt) /\ (setup.slots <= NBatch => to > Len(cut.tokens))
    <2>1. PICK room \in Nat : HasRoom(room) /\ to = FillTo(Len(cut.tokens), Len(prompt), room)
        BY DEF PassOf
    <2>2. Len(cut.tokens) < Len(prompt)
        BY <1>1, <1>2, <1>3
    <2> HIDE DEF prompt
    <2> QED
        BY <1>1, <1>3, <2>1, <2>2, FillToBound DEF HasRoom
<1>5. toks \in Seq(Tokens) /\ Len(toks) = to - Len(cut.tokens)
    <2>1. Len(cut.tokens) + 1 \in 1..(Len(prompt) + 1) /\ to \in 0..Len(prompt)
        BY <1>1, <1>3, <1>4
    <2> HIDE DEF prompt
    <2>2. /\ toks \in Seq(Tokens)
          /\ Len(toks) = IF Len(cut.tokens) + 1 <= to THEN to - (Len(cut.tokens) + 1) + 1 ELSE 0
        BY <1>1, <2>1, SubSeqElements
    <2>3. PICK a \in Nat, b \in Nat : a = Len(cut.tokens) /\ b = to /\ a <= b
        BY <1>1, <1>3, <1>4
    <2>5. Len(toks) = (IF a + 1 <= b THEN b - (a + 1) + 1 ELSE 0)
        BY <2>2, <2>3
    <2>4. Len(toks) = b - a
        <3>1. a <= b
            BY <2>3
        <3> HIDE DEF toks
        <3> QED
            BY <2>5, <3>1
    <2>6. Len(toks) = to - Len(cut.tokens)
        BY <2>3, <2>4
    <2> HIDE DEF toks
    <2> QED
        BY <2>2, <2>6
<1>6. st \in RightStates /\ Within(st) /\ st.tokens = cut.tokens
    <2>1. /\ WithCkpt(cut) \in RightStates /\ WithCkpt(cut).tokens = cut.tokens
          /\ WithCkpt(cut).base = cut.base /\ WithCkpt(cut).swa = cut.swa
        BY <1>2, WithCkptRight
    <2>2. Within(WithCkpt(cut))
        BY <1>2, <2>1 DEF Within
    <2>3. st = WithCkpt(cut) \/ st = cut
        BY DEF PassOf
    <2> QED
        BY <1>2, <2>1, <2>2, <2>3
<1>7. after \in Decoded(s, st, toks)
    BY DEF PassOf
<1> HIDE DEF toks
<1>8. Len(st.tokens) + Len(toks) = to /\ Len(st.tokens) + Len(toks) <= NCtx
    BY <1>1, <1>3, <1>4, <1>5, <1>6, Numbers
<1>9. after \in RightStates /\ Within(after) /\ Len(after.tokens) = to
    BY <1>5, <1>6, <1>7, <1>8, DecodedRight
<1> QED
    BY <1>2, <1>3, <1>4, <1>5, <1>6, <1>9 DEF toks

-----------------------------------------------------------------------------
(* Sizes are numbers.                                                       *)
IsTotal(g, f, N) == g = [i \in 0..N |-> IF i = 0 THEN 0 ELSE g[i - 1] + f[i]]

LEMMA TotalExists ==
    ASSUME NEW f \in Seq(Nat)
    PROVE  \E g \in [0..Len(f) -> Nat] : IsTotal(g, f, Len(f)) /\ Total(f) = g[Len(f)]
<1> DEFINE N == Len(f)
           step == [x \in (1..N) \X Nat |-> x[2] + f[x[1]]]
           t == CHOOSE g : IsTotal(g, f, N)
<1>1. N \in Nat /\ \A i \in 1..N : f[i] \in Nat
    BY LenProperties, ElementOfSeq
<1> HIDE DEF N
<1>2. step \in [(1..N) \X Nat -> Nat]
    BY <1>1
<1>3. PICK g \in [0..N -> Nat] : Iterates(g, N, 0, step)
    <2> HIDE DEF step
    <2> QED
        BY <1>1, <1>2, IterExists
<1>4. ASSUME NEW i \in 0..N PROVE g[i] = IF i = 0 THEN 0 ELSE g[i - 1] + f[i]
    <2>1. CASE i = 0
        BY <2>1, <1>3 DEF Iterates
    <2>2. CASE i # 0
        <3>1. i \in 1..N /\ i - 1 \in 0..N
            BY <2>2, <1>1
        <3>2. g[i] = step[<<i, g[i - 1]>>] /\ g[i - 1] \in Nat
            BY <3>1, <1>3 DEF Iterates
        <3>3. step[<<i, g[i - 1]>>] = g[i - 1] + f[i]
            BY <3>1, <3>2
        <3> QED
            BY <2>2, <3>2, <3>3
    <2> QED
        BY <2>1, <2>2
<1> HIDE DEF step
<1>5. IsTotal(g, f, N)
    <2>1. g = [i \in 0..N |-> g[i]]
        BY <1>3
    <2>2. g = [i \in 0..N |-> IF i = 0 THEN 0 ELSE g[i - 1] + f[i]]
        BY <2>1, <1>4
    <2> QED
        BY <2>2 DEF IsTotal
<1>6. IsTotal(t, f, N)
    BY <1>5
<1>7. Total(f) = t[N]
    BY DEF Total, IsTotal, N
<1> HIDE DEF t
<1>8. \A i \in 0..N : t[i] \in Nat
    <2>1. t[0] \in Nat
        BY <1>1, <1>6 DEF IsTotal
    <2>2. \A i \in 1..N : t[i - 1] \in Nat => t[i] \in Nat
        <3> TAKE i \in 1..N
        <3>1. t[i] = t[i - 1] + f[i]
            BY <1>1, <1>6 DEF IsTotal
        <3> QED
            BY <1>1, <3>1
    <2> QED
        BY <1>1, <2>1, <2>2, IterTypes
<1>9. t \in [0..N -> Nat]
    <2>1. t = [i \in 0..N |-> t[i]]
        BY <1>6 DEF IsTotal
    <2> QED
        BY <1>8, <2>1
<1> QED
    BY <1>6, <1>7, <1>9 DEF N

LEMMA TotalTypes ==
    ASSUME NEW f \in Seq(Nat)
    PROVE  Total(f) \in Nat
<1>1. PICK g \in [0..Len(f) -> Nat] : IsTotal(g, f, Len(f)) /\ Total(f) = g[Len(f)]
    BY TotalExists
<1>2. Len(f) \in 0..Len(f)
    BY LenProperties
<1> QED
    BY <1>1, <1>2

LEMMA Numbered ==    \* a sequence written by its elements
    ASSUME NEW S, NEW N \in Nat, NEW f \in [1..N -> S]
    PROVE  f \in Seq(S) /\ Len(f) = N
<1>1. f \in Seq(S)
    BY SeqDef
<1> QED
    BY <1>1, LenProperties

LEMMA CellsTypes ==
    ASSUME NEW cells \in CellMaps
    PROVE  Cells(cells) \in Nat
<1>1. DOMAIN cells \subseteq 0..(NCtx - 1)
    BY CellMap DEF Positions
<1>2. IsFiniteSet(0..(NCtx - 1))
    BY Numbers, FS_Interval
<1> QED
    BY <1>1, <1>2, FS_Subset, FS_CardinalityType DEF Cells

LEMMA SizeTypes ==
    ASSUME NEW c \in Seq(PromptStates)
    PROVE  /\ CacheSize(c) \in Nat /\ CacheTokens(c) \in Nat
           /\ \A i \in 1..Len(c) : StateSize(c[i]) \in Nat /\ Len(c[i].tokens) \in Nat
           /\ [i \in 1..Len(c) |-> StateSize(c[i])] \in Seq(Nat)
           /\ [i \in 1..Len(c) |-> Len(c[i].tokens)] \in Seq(Nat)
<1>1. ASSUME NEW st \in PromptStates PROVE StateSize(st) \in Nat
    <2> DEFINE f == [i \in 1..Len(st.ckpts) |-> Cells(st.ckpts[i])]
    <2>1. st.ckpts \in Seq(Ckpts) /\ Len(st.ckpts) \in Nat
        BY StateTypes
    <2>2. \A i \in 1..Len(st.ckpts) : Cells(st.ckpts[i]) \in Nat
        BY <2>1, ElementOfSeq, CellsTypes DEF Ckpts
    <2>3. f \in [1..Len(st.ckpts) -> Nat]
        BY <2>2
    <2>4. Total(f) \in Nat
        <3> HIDE DEF f
        <3> QED
            BY <2>1, <2>3, Numbered, TotalTypes
    <2>5. Cells(st.base) \in Nat /\ Cells(st.swa) \in Nat
        BY StateTypes, CellsTypes
    <2>6. StateSize(st) = Cells(st.base) + Cells(st.swa) + Total(f)
        BY DEF StateSize
    <2> HIDE DEF f
    <2> QED
        BY <2>4, <2>5, <2>6
<1> DEFINE a == [i \in 1..Len(c) |-> StateSize(c[i])]
           b == [i \in 1..Len(c) |-> Len(c[i].tokens)]
<1>2. Len(c) \in Nat /\ \A i \in 1..Len(c) : c[i] \in PromptStates
    BY LenProperties, ElementOfSeq
<1>3. \A i \in 1..Len(c) : StateSize(c[i]) \in Nat /\ Len(c[i].tokens) \in Nat
    BY <1>1, <1>2, StateTypes
<1>4. a \in [1..Len(c) -> Nat] /\ b \in [1..Len(c) -> Nat]
    BY <1>3
<1>5. CacheSize(c) = Total(a) /\ CacheTokens(c) = Total(b)
    BY DEF CacheSize, CacheTokens
<1> HIDE DEF a, b
<1>6. a \in Seq(Nat) /\ b \in Seq(Nat)
    BY <1>2, <1>4, Numbered
<1>7. Total(a) \in Nat /\ Total(b) \in Nat
    BY <1>6, TotalTypes
<1> QED
    BY <1>3, <1>5, <1>6, <1>7 DEF a, b

-----------------------------------------------------------------------------
(* The cache: what update() leaves is an end of what there was.             *)
LEMMA DropOldestSuffix ==
    ASSUME NEW S, NEW c \in Seq(S), NEW fitting, fitting \subseteq 0..Len(c)
    PROVE  \E n \in 0..Len(c) :
              /\ DropOldest(c, fitting) = Suffix(c, n)
              /\ Len(c) - n <= 1 \/ n \in fitting
<1> DEFINE N == {n \in 0..Len(c) : Len(c) - n <= 1} \cup fitting
<1>1. Len(c) \in Nat
    BY LenProperties
<1>2. Len(c) \in N
    BY <1>1
<1>3. N \subseteq Nat
    <2>1. 0..Len(c) \subseteq Nat /\ {n \in 0..Len(c) : Len(c) - n <= 1} \subseteq 0..Len(c)
        BY <1>1
    <2> QED
        BY <2>1
<1>4. Min(N) \in N
    <2> HIDE DEF N
    <2> QED
        BY <1>2, <1>3, MinIsElement
<1>5. PICK n \in N : n = Min(N)
    BY <1>4
<1>6. n \in 0..Len(c) /\ (Len(c) - n <= 1 \/ n \in fitting)
    OBVIOUS
<1>7. DropOldest(c, fitting) = Suffix(c, n)
    BY <1>5 DEF DropOldest
<1> HIDE DEF N
<1> QED
    BY <1>6, <1>7

LEMMA SuffixElements ==
    ASSUME NEW S, NEW c \in Seq(S), NEW n \in 0..Len(c)
    PROVE  /\ Suffix(c, n) \in Seq(S) /\ Len(Suffix(c, n)) = Len(c) - n
           /\ \A k \in 1..(Len(c) - n) : Suffix(c, n)[k] = c[n + k]
<1>1. PICK L \in Nat : L = Len(c)
    BY LenProperties
<1>2. n + 1 \in 1..(Len(c) + 1) /\ Len(c) \in 0..Len(c)
    BY <1>1
<1> DEFINE r == SubSeq(c, n + 1, Len(c))
<1>3. /\ r \in Seq(S) /\ Len(r) = IF n + 1 <= Len(c) THEN Len(c) - (n + 1) + 1 ELSE 0
      /\ \A k \in 1..Len(r) : r[k] = c[n + 1 + k - 1]
    BY <1>2, SubSeqElements
<1>4. r = Suffix(c, n)
    BY DEF Suffix
<1> HIDE DEF r
<1>5. Len(r) = L - n
    BY <1>1, <1>3
<1>6. \A k \in 1..(L - n) : n + 1 + k - 1 = n + k
    BY <1>1
<1> QED
    BY <1>1, <1>3, <1>4, <1>5, <1>6

LEMMA UpdateSuffix ==
    ASSUME NEW S, NEW c \in Seq(S), NEW limit
    PROVE  /\ \E n \in 0..Len(c) : Update(c, limit) = Suffix(c, n)
           /\ Update(c, limit) \in Seq(S)
<1> DEFINE fit1 == {n \in 0..Len(c) : limit > 0 => CacheSize(Suffix(c, n)) <= limit}
           bySize == DropOldest(c, fit1)
           fit2 == {n \in 0..Len(bySize) : LimitTokens > 0 =>
                               CacheTokens(Suffix(bySize, n)) <= TokenLimit(bySize, limit)}
<1>1. fit1 \subseteq 0..Len(c) /\ fit2 \subseteq 0..Len(bySize)
    OBVIOUS
<1>2. Update(c, limit) = DropOldest(bySize, fit2)
    BY DEF Update
<1> HIDE DEF fit1, fit2
<1>3. PICK n \in 0..Len(c) : bySize = Suffix(c, n)
    BY <1>1, DropOldestSuffix
<1> HIDE DEF bySize
<1>4. /\ bySize \in Seq(S) /\ Len(bySize) = Len(c) - n
      /\ \A k \in 1..(Len(c) - n) : bySize[k] = c[n + k]
    BY <1>3, SuffixElements
<1>5. PICK m \in 0..Len(bySize) : DropOldest(bySize, fit2) = Suffix(bySize, m)
    BY <1>1, <1>4, DropOldestSuffix
<1>6. PICK L \in Nat : L = Len(c)
    BY LenProperties
<1>7. n + m \in 0..Len(c) /\ Len(c) - (n + m) = Len(bySize) - m /\ n + m \in Nat
    BY <1>4, <1>6
<1>8. Suffix(bySize, m) = Suffix(c, n + m)
    <2> DEFINE a == Suffix(bySize, m)
               b == Suffix(c, n + m)
    <2>1. /\ a \in Seq(S) /\ Len(a) = Len(bySize) - m
          /\ \A k \in 1..(Len(bySize) - m) : a[k] = bySize[m + k]
        BY <1>4, SuffixElements
    <2>2. /\ b \in Seq(S) /\ Len(b) = Len(c) - (n + m)
          /\ \A k \in 1..(Len(c) - (n + m)) : b[k] = c[n + m + k]
        BY <1>7, SuffixElements
    <2> HIDE DEF a, b
    <2>3. \A k \in 1..(Len(bySize) - m) : m + k \in 1..(Len(c) - n) /\ n + (m + k) = n + m + k
        BY <1>4, <1>6
    <2>4. Len(a) = Len(b) /\ \A k \in 1..Len(a) : a[k] = b[k]
        BY <1>4, <1>7, <2>1, <2>2, <2>3
    <2>5. a = b
        BY <2>1, <2>2, <2>4, SeqEqual
    <2> QED
        BY <2>5 DEF a, b
<1>9. Suffix(c, n + m) \in Seq(S)
    BY <1>7, SuffixElements
<1> QED
    BY <1>2, <1>5, <1>7, <1>8, <1>9

LEMMA SavedTypes ==
    ASSUME NEW S, S \subseteq PromptStates, cache \in Seq(S), limitSize \in Nat, NEW st \in S,
           NEW saved \in Saved(st, limitSize)
    PROVE  saved[1] \in Seq(S) /\ saved[2] \in Nat
<1> DEFINE others == NotObsolete(cache, st)
<1>1. others \in Seq(S)
    <2> DEFINE K == {i \in 1..Len(cache) : CommonPrefix(cache[i].tokens, st.tokens) # Len(cache[i].tokens)}
    <2>1. K \subseteq 1..Len(cache)
        OBVIOUS
    <2>2. others = KeepAt(cache, K)
        BY DEF NotObsolete
    <2> HIDE DEF K
    <2> QED
        BY <2>1, <2>2, KeptElements
<1> HIDE DEF others
<1>2. Append(others, st) \in Seq(S)
    BY <1>1, AppendProperties
<1>3. ReduceTo(others) \in Nat
    <2>1. others \in Seq(PromptStates)
        BY <1>1, SeqMonotonic
    <2>2. CacheSize(others) \in Nat
        BY <2>1, SizeTypes
    <2>3. (4 * CacheSize(others)) \div 10 \in Nat
        BY <2>2
    <2>4. PICK k \in Nat : k = (4 * CacheSize(others)) \div 10
        BY <2>3
    <2>5. Max({1, k}) = IF 1 >= k THEN 1 ELSE k
        BY MaxOfTwo
    <2>6. Max({1, k}) \in Nat
        BY <2>5
    <2> QED
        BY <2>4, <2>6 DEF ReduceTo
<1>4. Update(others, ReduceTo(others)) \in Seq(S)
    BY <1>1, UpdateSuffix
<1>5. \/ saved = <<cache, limitSize>>
      \/ saved = <<Append(others, st), limitSize>>
      \/ saved = <<Update(others, ReduceTo(others)), ReduceTo(others)>>
    BY DEF Saved, others
<1>6. CASE saved = <<cache, limitSize>>
    BY <1>6
<1>7. CASE saved = <<Append(others, st), limitSize>>
    BY <1>2, <1>7
<1>8. CASE saved = <<Update(others, ReduceTo(others)), ReduceTo(others)>>
    BY <1>3, <1>4, <1>8
<1> QED
    BY <1>5, <1>6, <1>7, <1>8

LEMMA LoadedTypes ==
    ASSUME NEW S, S \subseteq PromptStates, NEW c \in Seq(S), NEW st \in S, Blank(st) \in S,
           NEW r \in Requests, NEW loaded \in Loaded(st, c, r)
    PROVE  loaded[1] \in S /\ loaded[2] \in Seq(S)
<1> DEFINE best == BestState(c, st, r.prompt)
<1>1. best \in 0..Len(c)
    BY SeqMonotonic, PromptTypes, BestStateInCache
<1> HIDE DEF best
<1>2. Len(c) \in Nat
    BY LenProperties
<1>3. CASE best = 0
    BY <1>3 DEF Loaded, best
<1>4. CASE best # 0
    <2>1. best \in 1..Len(c)
        BY <1>1, <1>2, <1>4
    <2>2. c[best] \in S
        BY <2>1, ElementOfSeq
    <2>3. RemoveAt(c, best) \in Seq(S)
        BY <2>1, RemoveAtProperties
    <2>4. loaded = <<c[best], RemoveAt(c, best)>> \/ loaded = <<Blank(st), c>>
        BY <1>4 DEF Loaded, best
    <2> QED
        BY <2>2, <2>3, <2>4
<1> QED
    BY <1>3, <1>4

-----------------------------------------------------------------------------
(* All the prompts that are kept: in the slots, the cache and the file.     *)
FileState(f) == [tokens |-> f.tokens, ckpts |-> <<>>, base |-> f.base, swa |-> f.swa]
AllIn(S) ==
    /\ \A s \in Slots : SlotState(s) \in S
    /\ cache \in Seq(S)
    /\ \A f \in file : FileState(f) \in S
Clears(S) == \A x \in S : Blank(x) \in S /\ Nameless(x) \in S

Types ==
    /\ setup \in Setups /\ Shapes
    /\ state \in [Slots -> {"idle", "started", "prompt", "generating"}]
    /\ task \in [Slots -> Requests \cup {NoTask}]
    /\ lora \in [Slots -> Loras]
    /\ lastUsed \in Seq(Slots) /\ Range(lastUsed) = Slots
    /\ limitSize \in Nat /\ count \in 0..setup.requests /\ thin \in BOOLEAN

(* What a working slot has: a request, and memory for its tokens only once  *)
(* a pass over the prompt has begun.                                        *)
Works(s) ==
    /\ state[s] # "idle" => task[s] \in Requests
    /\ state[s] = "prompt" => Len(tokens[s]) < Len(task[s].prompt)
    /\ state[s] \in {"prompt", "generating"} => Within(SlotState(s))

LEMMA SetIn ==
    ASSUME Shapes, setup' = setup, NEW S, S \subseteq PromptStates, AllIn(S),
           NEW s \in Slots, NEW x \in S, SetSlot(s, x), cache' = cache, file' = file
    PROVE  AllIn(S)'
<1>1. /\ SlotState(s)' = x /\ \A t \in Slots : t # s => SlotState(t)' = SlotState(t)
    BY SlotSet
<1>2. Slots' = Slots
    BY DEF Slots
<1>3. \A t \in Slots : SlotState(t)' \in S
    BY <1>1 DEF AllIn
<1>4. \A f \in file : FileState(f) \in S
    BY DEF AllIn
<1>5. cache \in Seq(S)
    BY DEF AllIn
<1> QED
    BY <1>2, <1>3, <1>4, <1>5 DEF AllIn, FileState

LEMMA SameAllIn ==
    ASSUME setup' = setup, NEW S, AllIn(S), UNCHANGED promptVars, cache' = cache, file' = file
    PROVE  AllIn(S)'
<1>1. Slots' = Slots
    BY DEF Slots
<1>2. \A t \in Slots : SlotState(t)' = SlotState(t)
    BY DEF SlotState, promptVars
<1> QED
    BY <1>1, <1>2 DEF AllIn, FileState

LEMMA SameRight ==
    ASSUME setup' = setup
    PROVE  RightStates' = RightStates /\ Slots' = Slots
    BY DEF RightStates, Right, WindowMatches, Slots

LEMMA SameWorks ==
    ASSUME NEW t \in Slots, Works(t), state'[t] = state[t], task'[t] = task[t],
           SlotState(t)' = SlotState(t)
    PROVE  Works(t)'
<1>1. tokens'[t] = tokens[t] /\ base'[t] = base[t] /\ swa'[t] = swa[t]
    BY DEF SlotState
<1> QED
    BY <1>1 DEF Works, Within, SlotState

-----------------------------------------------------------------------------
(* A free slot is chosen.                                                   *)
LEMMA AvailableIdle ==
    ASSUME Types, AllIn(PromptStates), NEW r \in Requests, Idle # {}
    PROVE  AvailableSlot(r) \in Idle
<1>1. Slots \subseteq Nat /\ Idle \subseteq Slots
    BY SetupTypes DEF Types, Slots, Idle
<1>2. ASSUME NEW s \in Slots PROVE Lcp(s, r) \in Nat /\ Lcp(s, r) <= Len(r.prompt)
    <2>1. SlotState(s) \in PromptStates
        BY DEF AllIn
    <2>2. tokens[s] \in Seq(Tokens)
        BY <2>1, StateTypes DEF SlotState
    <2>3. r.prompt \in Seq(Tokens)
        BY PromptTypes
    <2> QED
        BY <2>2, <2>3, CommonPrefixBound DEF Lcp
<1>3. CASE Similar(r) # {}
    <2> DEFINE L == {Lcp(s, r) : s \in Similar(r)}
               B == {s \in Similar(r) : \A t \in Similar(r) : Lcp(t, r) <= Lcp(s, r)}
    <2>1. Similar(r) \subseteq Idle
        BY DEF Similar
    <2>2. L \subseteq Nat /\ L # {} /\ \A x \in L : x <= Len(r.prompt)
        BY <1>1, <1>2, <1>3, <2>1
    <2>3. Max(L) \in L /\ \A y \in L : y <= Max(L)
        <3>1. Len(r.prompt) \in Nat
            BY PromptTypes
        <3> HIDE DEF L
        <3> QED
            BY <2>2, <3>1, MaxIsElement
    <2>4. PICK s \in Similar(r) : Lcp(s, r) = Max(L)
        BY <2>3
    <2>5. s \in B
        BY <2>3, <2>4
    <2>6. B \subseteq Nat /\ B \subseteq Idle
        BY <1>1, <2>1
    <2>7. Min(B) \in B
        <3> HIDE DEF B
        <3> QED
            BY <2>5, <2>6, MinIsElement
    <2>8. AvailableSlot(r) = Min(B)
        BY <1>3 DEF AvailableSlot, MostSimilar
    <2> HIDE DEF B
    <2> QED
        BY <2>6, <2>7, <2>8
<1>4. CASE Similar(r) = {}
    <2> DEFINE I == {i \in 1..Len(lastUsed) : lastUsed[i] \in Idle}
    <2>1. I \subseteq Nat
        OBVIOUS
    <2>2. I # {}
        <3>1. PICK s \in Idle : TRUE
            OBVIOUS
        <3>2. s \in Range(lastUsed) /\ DOMAIN lastUsed = 1..Len(lastUsed)
            BY <1>1, <3>1, LenProperties DEF Types
        <3>3. PICK i \in 1..Len(lastUsed) : lastUsed[i] = s
            BY <3>2 DEF Range
        <3> QED
            BY <3>3
    <2>3. Min(I) \in I
        <3> HIDE DEF I
        <3> QED
            BY <2>1, <2>2, MinIsElement
    <2>4. AvailableSlot(r) = lastUsed[Min(I)]
        BY <1>4 DEF AvailableSlot, OldestIdle
    <2> QED
        BY <2>3, <2>4
<1> QED
    BY <1>3, <1>4

(* A launch, whatever the prompts that are kept have in common.             *)
LEMMA LaunchIn ==
    ASSUME Types, NEW S, S \subseteq PromptStates, Clears(S), AllIn(S), NEW r \in Requests, Launch(r)
    PROVE  /\ AllIn(S)' /\ limitSize' \in Nat /\ Shapes'
           /\ \E s \in Slots : /\ state' = [state EXCEPT ![s] = "started"]
                               /\ task' = [task EXCEPT ![s] = r]
                               /\ lora' = [lora EXCEPT ![s] = AdaptersOf(r)]
                               /\ \A t \in Slots : t # s => SlotState(t)' = SlotState(t)
<1>1. AllIn(PromptStates)
    BY SeqMonotonic DEF AllIn
<1>2. PICK s \in Idle : s = AvailableSlot(r)
    BY <1>1, AvailableIdle DEF Launch
<1>3. s \in Slots
    BY DEF Idle
<1>4. /\ IF SavesPrompt(s, r)
         THEN SwapPrompt(s, r)
         ELSE SetSlot(s, Entering(s, r, SlotState(s))) /\ UNCHANGED cacheVars
      /\ state' = [state EXCEPT ![s] = "started"]
      /\ task' = [task EXCEPT ![s] = r]
      /\ lora' = [lora EXCEPT ![s] = AdaptersOf(r)]
      /\ setup' = setup /\ file' = file
    BY <1>2 DEF Launch
<1>5. Shapes /\ limitSize \in Nat
    BY DEF Types
<1>6. SlotState(s) \in S /\ cache \in Seq(S)
    BY <1>3 DEF AllIn
<1>7. ASSUME NEW x \in S PROVE Entering(s, r, x) \in S
    BY DEF Entering, Clears, Nameless
<1>8. ASSUME NEW x \in S, SetSlot(s, Entering(s, r, x)), cache' \in Seq(S)
      PROVE  AllIn(S)' /\ Shapes' /\ \A t \in Slots : t # s => SlotState(t)' = SlotState(t)
    <2>1. PICK y \in S : y = Entering(s, r, x)
        BY <1>7, <1>8
    <2>2. y \in PromptStates /\ SetSlot(s, y)
        BY <1>8, <2>1
    <2>3. Shapes' /\ SlotState(s)' = y /\ \A t \in Slots : t # s => SlotState(t)' = SlotState(t)
        BY <1>3, <1>4, <1>5, <2>2, SlotSet
    <2>4. Slots' = Slots
        BY <1>4 DEF Slots
    <2>5. \A t \in Slots : SlotState(t)' \in S
        BY <2>1, <2>3 DEF AllIn
    <2>6. \A f \in file : FileState(f) \in S
        BY DEF AllIn
    <2>7. AllIn(S)'
        BY <1>4, <1>8, <2>4, <2>5, <2>6 DEF AllIn, FileState
    <2> QED
        BY <2>3, <2>7
<1>9. CASE SavesPrompt(s, r)
    <2>1. PICK saved \in Saved(SlotState(s), limitSize) :
            \E loaded \in Loaded(SlotState(s), saved[1], r) :
                /\ SetSlot(s, Entering(s, r, loaded[1]))
                /\ limitSize' = saved[2]
                /\ cache' = Update(loaded[2], limitSize')
        BY <1>4, <1>9 DEF SwapPrompt
    <2>2. saved[1] \in Seq(S) /\ saved[2] \in Nat
        BY <1>5, <1>6, SavedTypes
    <2>3. PICK loaded \in Loaded(SlotState(s), saved[1], r) :
                /\ SetSlot(s, Entering(s, r, loaded[1]))
                /\ limitSize' = saved[2]
                /\ cache' = Update(loaded[2], limitSize')
        BY <2>1
    <2>4. Blank(SlotState(s)) \in S
        BY <1>6 DEF Clears
    <2>5. loaded[1] \in S /\ loaded[2] \in Seq(S)
        BY <1>6, <2>2, <2>4, LoadedTypes
    <2>6. cache' \in Seq(S)
        BY <2>3, <2>5, UpdateSuffix
    <2> QED
        BY <1>3, <1>4, <1>8, <2>2, <2>3, <2>5, <2>6
<1>10. CASE ~SavesPrompt(s, r)
    <2>1. SetSlot(s, Entering(s, r, SlotState(s))) /\ cache' = cache /\ limitSize' = limitSize
        BY <1>4, <1>10 DEF cacheVars
    <2> QED
        BY <1>3, <1>4, <1>5, <1>6, <1>8, <2>1
<1> QED
    BY <1>9, <1>10

-----------------------------------------------------------------------------
(* The context shift: the second half of the tokens, and their cells.       *)
Shifted(st, n, d) ==
    [st EXCEPT !.tokens = SubSeq(@, d + 1, n), !.base = Moved(Without(@, 0, d), d, n, 0)]

LEMMA ShiftRight ==
    ASSUME setup \in Setups, setup.window = 0, NEW st \in RightStates, Within(st),
           NEW n \in Nat, n = Len(st.tokens), NEW d \in Nat, d <= n
    PROVE  Shifted(st, n, d) \in RightStates /\ Within(Shifted(st, n, d))
<1> DEFINE toks == SubSeq(st.tokens, d + 1, n)
           without == Without(st.base, 0, d)
           moved == Moved(without, d, n, 0)
           new == Shifted(st, n, d)
<1>1. st \in PromptStates /\ Right(st) /\ n <= NCtx /\ NCtx \in Nat
    BY Numbers DEF RightStates, Right
<1>2. st.tokens \in Seq(Tokens) /\ st.base \in CellMaps
    BY <1>1, StateTypes
<1>3. toks \in Seq(Tokens) /\ Len(toks) = n - d /\ \A k \in 1..(n - d) : toks[k] = st.tokens[d + k]
    <2>1. d + 1 \in 1..(Len(st.tokens) + 1) /\ n \in 0..Len(st.tokens)
        OBVIOUS
    <2>2. /\ toks \in Seq(Tokens) /\ Len(toks) = IF d + 1 <= n THEN n - (d + 1) + 1 ELSE 0
          /\ \A k \in 1..Len(toks) : toks[k] = st.tokens[d + 1 + k - 1]
        BY <1>2, <2>1, SubSeqElements
    <2> HIDE DEF toks
    <2>3. Len(toks) = n - d
        BY <2>2
    <2>4. \A k \in 1..(n - d) : d + 1 + k - 1 = d + k
        OBVIOUS
    <2> QED
        BY <2>2, <2>3, <2>4
<1>4. Restricts(without, st.base, {q \in DOMAIN st.base : q < 0 \/ q >= d})
    BY <1>2, WithoutCells
<1>5. /\ without \in CellMaps
      /\ \A q \in DOMAIN without : q \in DOMAIN st.base /\ q \in 0..(n - 1) /\ q >= d /\ without[q] = st.base[q]
      /\ \A q \in DOMAIN st.base : q >= d => q \in DOMAIN without
    <2>1. DOMAIN st.base \subseteq 0..(n - 1)
        BY DEF Within
    <2> QED
        BY <1>4, <2>1 DEF Restricts
<1> HIDE DEF without
<1>6. MovedTo(moved, without, d, n, 0)
    <2>1. \A q \in DOMAIN without : q < d => q < 0
        BY <1>5
    <2>2. 0 \in Nat /\ 0 <= d
        OBVIOUS
    <2> HIDE DEF toks, new, moved
    <2> QED
        BY <1>1, <1>5, <2>1, <2>2, MovedCells DEF moved
<1>7. /\ moved \in CellMaps
      /\ \A q \in DOMAIN without : q + 0 - d \in DOMAIN moved /\ moved[q + 0 - d] = without[q]
      /\ \A q \in DOMAIN moved : 0 <= q /\ q < 0 + n - d
    BY <1>5, <1>6 DEF MovedTo
<1> HIDE DEF moved, toks
<1>8. /\ new \in PromptStates /\ new.tokens = toks /\ new.base = moved
      /\ new.ckpts = st.ckpts /\ new.swa = st.swa
    BY <1>1, <1>3, <1>7 DEF PromptStates, Shifted, toks, moved, without
<1> HIDE DEF new
<1>9. SameTokens(new.base, new.tokens, 0)
    <2> SUFFICES ASSUME NEW p \in 0..(n - d - 1)
                 PROVE  p \in DOMAIN moved /\ moved[p][1] = toks[p + 1]
        BY <1>3, <1>8 DEF SameTokens
    <2>1. PICK q \in Nat : q = p + d
        OBVIOUS
    <2>2. q \in 0..(n - 1) /\ q >= d /\ q + 0 - d = p /\ p + 1 \in 1..(n - d) /\ d + (p + 1) = q + 1
        BY <2>1
    <2>3. q \in DOMAIN st.base /\ st.base[q][1] = st.tokens[q + 1]
        BY <1>1, <2>2 DEF Right, SameTokens
    <2>4. q \in DOMAIN without /\ without[q] = st.base[q]
        BY <1>5, <2>2, <2>3
    <2>5. p \in DOMAIN moved /\ moved[p] = without[q]
        BY <1>7, <2>2, <2>4
    <2>6. toks[p + 1] = st.tokens[q + 1]
        BY <1>3, <2>2
    <2> QED
        BY <2>3, <2>4, <2>5, <2>6
<1>10. new.swa = None /\ new.ckpts = <<>>
    BY <1>1, <1>8 DEF Right
<1>11. Right(new)
    <2>1. WindowMatches(new)
        BY <1>10, NoneIsMap DEF WindowMatches
    <2> QED
        BY <1>1, <1>3, <1>8, <1>9, <1>10, <2>1 DEF Right
<1>12. Within(new)
    <2>1. \A q \in DOMAIN moved : q \in Nat
        BY <1>7, CellMap DEF Positions
    <2>2. DOMAIN new.base \subseteq 0..(n - d - 1)
        BY <1>7, <1>8, <2>1
    <2> QED
        BY <1>3, <1>8, <1>10, <2>2, NoneIsMap DEF Within
<1> QED
    BY <1>8, <1>11, <1>12 DEF RightStates, new

-----------------------------------------------------------------------------
(* The order of use: every slot stays in it.                                *)
LEMMA ConcatRange ==
    ASSUME NEW S, NEW a \in Seq(S), NEW b \in Seq(S)
    PROVE  a \o b \in Seq(S) /\ Range(a \o b) = Range(a) \cup Range(b)
<1> DEFINE r == a \o b
<1>1. /\ r \in Seq(S) /\ Len(r) = Len(a) + Len(b)
      /\ \A i \in 1..(Len(a) + Len(b)) : r[i] = IF i <= Len(a) THEN a[i] ELSE b[i - Len(a)]
    BY ConcatProperties
<1>2. PICK m \in Nat, n \in Nat : m = Len(a) /\ n = Len(b)
    BY LenProperties
<1> HIDE DEF r
<1>3. DOMAIN a = 1..m /\ DOMAIN b = 1..n /\ DOMAIN r = 1..(m + n)
    BY <1>1, <1>2, LenProperties
<1>4. \A i \in 1..m : i \in 1..(m + n) /\ r[i] = a[i]
    BY <1>1, <1>2
<1>5. ASSUME NEW i \in 1..n PROVE i + m \in 1..(m + n) /\ r[i + m] = b[i]
    <2>1. i + m \in 1..(m + n) /\ ~(i + m <= m) /\ (i + m) - m = i
        OBVIOUS
    <2> QED
        BY <1>1, <1>2, <2>1
<1>6. ASSUME NEW x, x \in Range(r) PROVE x \in Range(a) \cup Range(b)
    <2>1. PICK i \in 1..(m + n) : x = r[i]
        BY <1>3, <1>6 DEF Range
    <2>2. CASE i <= m
        <3>1. i \in 1..m
            BY <2>2
        <3> QED
            BY <2>1, <3>1, <1>3, <1>4 DEF Range
    <2>3. CASE ~(i <= m)
        <3>1. PICK k \in 1..n : i = k + m
            <4>1. i - m \in 1..n /\ i = (i - m) + m
                BY <2>3
            <4> QED
                BY <4>1
        <3> QED
            BY <2>1, <3>1, <1>3, <1>5 DEF Range
    <2> QED
        BY <2>2, <2>3
<1>7. ASSUME NEW x, x \in Range(a) \cup Range(b) PROVE x \in Range(r)
    BY <1>3, <1>4, <1>5, <1>7 DEF Range
<1>8. Range(r) = Range(a) \cup Range(b)
    BY <1>6, <1>7
<1> QED
    BY <1>1, <1>8 DEF r

OthersIn(q, W) == {i \in 1..Len(q) : q[i] \notin W}

LEMMA UsedLast ==
    ASSUME NEW S, NEW q \in Seq(S), Range(q) = S, NEW W, W \subseteq S, NEW b \in Seq(S), Range(b) = W,
           NEW K, K = OthersIn(q, W)
    PROVE  KeepAt(q, K) \o b \in Seq(S) /\ Range(KeepAt(q, K) \o b) = S
<1> DEFINE r == KeepAt(q, K)
<1>0. K = {i \in 1..Len(q) : q[i] \notin W}
    BY DEF OthersIn
<1>1. r \in Seq(S) /\ \A x : x \in Range(r) <=> \E k \in K : x = q[k]
    BY <1>0, KeptElements DEF Elements
<1> HIDE DEF r
<1>2. DOMAIN q = 1..Len(q)
    BY LenProperties
<1>3. ASSUME NEW x \in S, x \notin W PROVE x \in Range(r)
    <2>1. PICK i \in 1..Len(q) : q[i] = x
        BY <1>2 DEF Range
    <2>2. i \in K
        BY <1>0, <1>3, <2>1
    <2> QED
        BY <1>1, <2>1, <2>2
<1>4. \A x \in Range(r) : x \in S
    <2>1. \A k \in K : q[k] \in S
        BY <1>0, ElementOfSeq
    <2> QED
        BY <1>1, <2>1
<1>5. Range(r) \cup Range(b) = S
    BY <1>3, <1>4
<1>6. r \o b \in Seq(S) /\ Range(r \o b) = Range(r) \cup Range(b)
    BY <1>1, ConcatRange
<1> QED
    BY <1>5, <1>6 DEF r

-----------------------------------------------------------------------------
(* The invariant: types, the prompts that are kept are right, and so is     *)
(* what the working slots have.                                             *)
Reusable == Types /\ AllIn(RightStates) /\ \A s \in Slots : Works(s)

(* The slots begin with nothing.                                            *)
LEMMA InitReusable == Init => Reusable
<1> SUFFICES ASSUME Init PROVE Reusable
    OBVIOUS
<1>1. setup \in Setups /\ setup.slots \in Nat \ {0} /\ setup.maxCkpt \in Nat /\ setup.requests \in Nat
    BY SetupTypes DEF Init
<1> DEFINE used == [i \in 1..setup.slots |-> setup.slots - i]
<1>2. used \in Seq(Slots) /\ Range(used) = Slots
    <2>1. \A i \in 1..setup.slots : setup.slots - i \in Slots
        BY <1>1 DEF Slots
    <2>2. used \in [1..setup.slots -> Slots]
        BY <2>1
    <2>3. used \in Seq(Slots) /\ DOMAIN used = 1..setup.slots
        <3> HIDE DEF used
        <3> QED
            BY <1>1, <2>2, Numbered, LenProperties
    <2>4. ASSUME NEW s \in Slots PROVE s \in Range(used)
        <3>1. setup.slots - s \in 1..setup.slots /\ setup.slots - (setup.slots - s) = s
            BY <1>1 DEF Slots
        <3>2. used[setup.slots - s] = s
            BY <3>1
        <3> QED
            BY <3>1, <3>2 DEF Range
    <2>5. Range(used) \subseteq Slots
        BY <2>1 DEF Range
    <2> QED
        BY <2>3, <2>4, <2>5
<1>3. lastUsed = used
    BY DEF Init
<1> HIDE DEF used
<1>4. Types
    <2>1. /\ Shapes /\ state \in [Slots -> {"idle", "started", "prompt", "generating"}]
          /\ task \in [Slots -> Requests \cup {NoTask}] /\ lora \in [Slots -> Loras]
        BY DEF Init, Shapes, Loras
    <2>2. limitSize \in Nat /\ count \in 0..setup.requests /\ thin \in BOOLEAN
        <3>1. limitSize \in Nat
            BY Numbers DEF Init
        <3>2. count \in 0..setup.requests
            BY <1>1 DEF Init
        <3>3. thin \in BOOLEAN
            BY Zenon DEF Init
        <3> QED
            BY <3>1, <3>2, <3>3
    <2> QED
        BY <1>1, <1>2, <1>3, <2>1, <2>2 DEF Types
<1>5. ASSUME NEW s \in Slots PROVE SlotState(s) \in RightStates
    <2>1. SlotState(s) = [tokens |-> <<>>, ckpts |-> <<>>, base |-> None, swa |-> None]
        BY DEF Init, SlotState
    <2>2. PICK st : st = [tokens |-> <<>>, ckpts |-> <<>>, base |-> None, swa |-> None]
        OBVIOUS
    <2>3. st \in PromptStates
        BY <2>2, NoneIsMap, EmptySeq DEF PromptStates
    <2>4. Len(st.tokens) = 0 /\ Len(st.ckpts) = 0 /\ st.swa = None /\ st.ckpts = <<>>
        BY <2>2, EmptySeq
    <2>5. Right(st)
        BY <1>1, <2>4, Numbers, NoneIsMap DEF Right, SameTokens, WindowMatches
    <2> QED
        BY <2>1, <2>2, <2>3, <2>5 DEF RightStates
<1>6. cache \in Seq(RightStates)
    BY EmptySeq DEF Init
<1>7. file = {} /\ \A s \in Slots : state[s] = "idle"
    BY DEF Init
<1>8. \A s \in Slots : Works(s)
    BY <1>7 DEF Works
<1>9. AllIn(RightStates)
    BY <1>5, <1>6, <1>7 DEF AllIn
<1> QED
    BY <1>4, <1>8, <1>9 DEF Reusable

LEMMA ReusableFacts ==
    ASSUME Reusable
    PROVE  /\ setup \in Setups /\ Shapes
           /\ \A s \in Slots : /\ SlotState(s) \in RightStates /\ SlotState(s) \in PromptStates
                               /\ Right(SlotState(s)) /\ Works(s) /\ lora[s] \in Loras
           /\ RightStates \subseteq PromptStates /\ Clears(RightStates)
<1>1. setup \in Setups /\ Shapes
    BY DEF Reusable, Types
<1>2. \A s \in Slots : SlotState(s) \in RightStates
    BY DEF Reusable, AllIn
<1>3. \A x \in RightStates : Blank(x) \in RightStates /\ Nameless(x) \in RightStates
    BY <1>1, BlankRight
<1>4. \A x \in RightStates : x \in PromptStates /\ Right(x)
    BY DEF RightStates
<1>5. \A s \in Slots : lora[s] \in Loras /\ Works(s)
    BY DEF Reusable, Types
<1> QED
    BY <1>1, <1>2, <1>3, <1>4, <1>5 DEF Clears

(* A step that gives one slot another prompt, right and as it works with it.*)
LEMMA OneSlotReusable ==
    ASSUME Reusable, NEW s \in Slots, NEW x \in RightStates, SetSlot(s, x),
           setup' = setup, cache' = cache, file' = file, limitSize' = limitSize, lora' = lora,
           task' = task, lastUsed' = lastUsed,
           count' \in 0..setup.requests, thin' \in BOOLEAN,
           state' \in [Slots -> {"idle", "started", "prompt", "generating"}],
           \A t \in Slots : t # s => state'[t] = state[t],
           Works(s)'
    PROVE  Reusable'
<1>1. PICK S : S = RightStates
    OBVIOUS
<1>2. S \subseteq PromptStates /\ x \in S /\ AllIn(S) /\ Shapes
    BY <1>1, ReusableFacts DEF Reusable
<1>3. AllIn(S)'
    BY <1>2, SetIn
<1>4. RightStates' = S /\ Slots' = Slots
    BY <1>1, SameRight
<1>5. AllIn(RightStates)'
    BY <1>3, <1>4 DEF AllIn
<1>6. x \in PromptStates
    BY <1>2
<1>7. Shapes' /\ \A t \in Slots : t # s => SlotState(t)' = SlotState(t)
    BY <1>2, <1>6, SlotSet
<1>8. \A t \in Slots : Works(t)'
    <2> SUFFICES ASSUME NEW t \in Slots, t # s PROVE Works(t)'
        OBVIOUS
    <2>1. Works(t) /\ state'[t] = state[t] /\ task'[t] = task[t] /\ SlotState(t)' = SlotState(t)
        BY <1>7, ReusableFacts
    <2> QED
        BY <2>1, SameWorks
<1>9. Types'
    BY <1>4, <1>7 DEF Reusable, Types
<1> QED
    BY <1>4, <1>5, <1>8, <1>9 DEF Reusable

-----------------------------------------------------------------------------
(* Every step keeps it.                                                     *)
LEMMA LaunchReusable ==
    ASSUME Reusable, NEW r \in Requests, Launch(r)
    PROVE  Reusable'
<1>1. PICK S : S = RightStates
    OBVIOUS
<1>2. S \subseteq PromptStates /\ Clears(S) /\ AllIn(S) /\ Types
    BY <1>1, ReusableFacts DEF Reusable
<1>3. PICK s \in Slots : /\ state' = [state EXCEPT ![s] = "started"]
                         /\ task' = [task EXCEPT ![s] = r]
                         /\ lora' = [lora EXCEPT ![s] = AdaptersOf(r)]
                         /\ \A t \in Slots : t # s => SlotState(t)' = SlotState(t)
    BY <1>2, LaunchIn
<1>4. AllIn(S)' /\ limitSize' \in Nat /\ Shapes'
    BY <1>2, LaunchIn
<1>5. setup' = setup /\ lastUsed' = lastUsed /\ count' = count + 1 /\ count < setup.requests /\ thin' = thin
    BY DEF Launch
<1>6. RightStates' = S /\ Slots' = Slots
    BY <1>1, <1>5, SameRight
<1>7. AllIn(RightStates)'
    BY <1>4, <1>6 DEF AllIn
<1>8. Types'
    <2>1. AdaptersOf(r) \in Loras
        BY DEF AdaptersOf, Loras
    <2>2. count' \in 0..setup.requests
        BY <1>2, <1>5, SetupTypes DEF Types
    <2>3. /\ state' \in [Slots -> {"idle", "started", "prompt", "generating"}]
          /\ task' \in [Slots -> Requests \cup {NoTask}] /\ lora' \in [Slots -> Loras]
        BY <1>2, <1>3, <2>1 DEF Types
    <2> QED
        BY <1>2, <1>4, <1>5, <1>6, <2>2, <2>3 DEF Types
<1>9. ASSUME NEW t \in Slots PROVE Works(t)'
    <2>1. CASE t = s
        <3>1. state'[t] = "started" /\ task'[t] = r
            BY <1>2, <1>3, <2>1 DEF Types
        <3> QED
            BY <3>1 DEF Works
    <2>2. CASE t # s
        <3>1. Works(t) /\ state'[t] = state[t] /\ task'[t] = task[t] /\ SlotState(t)' = SlotState(t)
            BY <1>2, <1>3, <2>2, ReusableFacts DEF Types
        <3> QED
            BY <3>1, SameWorks
    <2> QED
        BY <2>1, <2>2
<1> QED
    BY <1>6, <1>7, <1>8, <1>9 DEF Reusable

LEMMA PassReusable ==
    ASSUME Reusable, NEW s \in Slots, state[s] # "idle", NEW kept \in RightStates,
           Len(kept.tokens) < Len(task[s].prompt), Pass(s, kept)
    PROVE  Reusable'
<1>1. UNCHANGED <<setup, task, lora, lastUsed, cacheVars, file, count>>
    BY PassSteps, ReusableFacts
<1>2. PICK cut, to, st, after : PassOf(s, kept, cut, to, st, after)
    BY PassSteps, ReusableFacts
<1>3. setup \in Setups /\ lora[s] \in Loras /\ task[s] \in Requests /\ Shapes /\ Types
    BY ReusableFacts DEF Works, Reusable
<1>4. /\ after \in RightStates /\ Within(after) /\ Len(after.tokens) = to
      /\ Len(cut.tokens) \in Nat /\ to \in Len(cut.tokens)..Len(task[s].prompt)
    BY <1>2, <1>3, PassRight
<1>5. SetSlot(s, after) /\ state' = [state EXCEPT ![s] = IF to = Len(task[s].prompt) THEN "generating" ELSE "prompt"]
    BY <1>2 DEF PassOf
<1>6. thin' \in BOOLEAN
    <2>1. thin' = (thin \/ TakesThin(cut, to, to = Len(task[s].prompt)))
        BY <1>2 DEF PassOf
    <2> QED
        BY <2>1, Zenon
<1>7. after \in PromptStates
    BY <1>4 DEF RightStates
<1>8. SlotState(s)' = after
    BY <1>1, <1>3, <1>5, <1>7, SlotSet
<1>9. Works(s)'
    <2>1. tokens'[s] = after.tokens
        BY <1>8 DEF SlotState
    <2>2. state'[s] = IF to = Len(task[s].prompt) THEN "generating" ELSE "prompt"
        BY <1>3, <1>5 DEF Types
    <2>3. task'[s] = task[s]
        BY <1>1
    <2>4. Within(SlotState(s))'
        BY <1>4, <1>8 DEF Within
    <2>5. to # Len(task[s].prompt) => Len(tokens'[s]) < Len(task[s].prompt)
        <3>1. Len(task[s].prompt) \in Nat
            BY <1>3, PromptTypes
        <3> QED
            BY <1>4, <2>1, <3>1
    <2> QED
        BY <1>3, <2>2, <2>3, <2>4, <2>5 DEF Works
<1>10. /\ state' \in [Slots -> {"idle", "started", "prompt", "generating"}]
       /\ \A t \in Slots : t # s => state'[t] = state[t]
    BY <1>3, <1>5 DEF Types
<1> QED
    BY <1>1, <1>3, <1>4, <1>5, <1>6, <1>9, <1>10, OneSlotReusable DEF cacheVars, Types

LEMMA StartPromptReusable ==
    ASSUME Reusable, NEW s \in Slots, StartPrompt(s)
    PROVE  Reusable'
<1>1. state[s] = "started"
    BY DEF StartPrompt
<1>2. PICK kept \in Kept(s) : Pass(s, kept)
    BY DEF StartPrompt
<1>3. setup \in Setups /\ SlotState(s) \in RightStates /\ task[s] \in Requests
    BY <1>1, ReusableFacts DEF Works
<1>4. kept \in RightStates /\ Len(kept.tokens) < Len(task[s].prompt)
    BY <1>3, KeptRight
<1> QED
    BY <1>1, <1>2, <1>4, PassReusable

LEMMA FillPromptReusable ==
    ASSUME Reusable, NEW s \in Slots, FillPrompt(s)
    PROVE  Reusable'
<1>1. state[s] = "prompt" /\ Pass(s, SlotState(s))
    BY DEF FillPrompt
<1>2. SlotState(s) \in RightStates /\ Len(tokens[s]) < Len(task[s].prompt)
    BY <1>1, ReusableFacts DEF Works
<1>3. PICK st \in RightStates : st = SlotState(s)
    BY <1>2
<1>4. st.tokens = tokens[s] /\ Pass(s, st)
    BY <1>1, <1>3 DEF SlotState
<1> QED
    BY <1>1, <1>2, <1>4, PassReusable

(* A step of a working slot that goes on generating.                        *)
LEMMA GeneratingReusable ==
    ASSUME Reusable, NEW s \in Slots, state[s] = "generating",
           NEW x \in RightStates, Within(x), SetSlot(s, x),
           UNCHANGED <<setup, state, task, lora, lastUsed, cacheVars, file, count, thin>>
    PROVE  Reusable'
<1>1. Shapes /\ Types /\ Works(s) /\ x \in PromptStates
    BY ReusableFacts DEF Reusable
<1>2. SlotState(s)' = x
    BY <1>1, SlotSet
<1>3. Within(SlotState(s))'
    BY <1>2 DEF Within
<1>4. Works(s)'
    BY <1>1, <1>3 DEF Works
<1> QED
    BY <1>1, <1>4, OneSlotReusable DEF cacheVars, Types

LEMMA GenerateReusable ==
    ASSUME Reusable, NEW s \in Slots, NEW t \in Sampled, Generate(s, t)
    PROVE  Reusable'
<1>1. /\ state[s] = "generating" /\ Len(tokens[s]) + 1 < NCtx
      /\ UNCHANGED <<setup, state, task, lora, lastUsed, cacheVars, file, count, thin>>
    BY DEF Generate
<1>2. PICK after \in Decoded(s, SlotState(s), <<t>>) : SetSlot(s, after)
    BY DEF Generate
<1>3. PICK st \in RightStates : st = SlotState(s)
    BY ReusableFacts
<1>4. Within(st) /\ setup \in Setups /\ lora[s] \in Loras /\ st.tokens = tokens[s]
    BY <1>1, <1>3, ReusableFacts DEF Works, SlotState
<1>5. <<t>> \in Seq(Tokens) /\ Len(<<t>>) = 1
    <2>1. t \in Tokens
        BY DEF Tokens
    <2> QED
        BY <2>1
<1>6. Len(st.tokens) + Len(<<t>>) <= NCtx
    <2>1. Len(st.tokens) \in Nat
        BY StateTypes DEF RightStates
    <2> QED
        BY <1>1, <1>4, <1>5, <2>1, Numbers
<1>7. after \in RightStates /\ Within(after)
    BY <1>2, <1>3, <1>4, <1>5, <1>6, DecodedRight
<1> QED
    BY <1>1, <1>2, <1>7, GeneratingReusable

LEMMA ShiftContextReusable ==
    ASSUME Reusable, NEW s \in Slots, ShiftContext(s)
    PROVE  Reusable'
<1>1. /\ state[s] = "generating" /\ setup.shiftable
      /\ UNCHANGED <<setup, state, task, lora, lastUsed, cacheVars, file, count, thin>>
    BY DEF ShiftContext
<1>2. PICK st \in RightStates : st = SlotState(s)
    BY ReusableFacts
<1>3. Within(st) /\ setup \in Setups /\ setup.window = 0 /\ st.tokens = tokens[s]
    BY <1>1, <1>2, ReusableFacts, SetupTypes DEF Works, SlotState
<1>4. PICK n \in Nat : n = Len(st.tokens)
    BY StateTypes DEF RightStates
<1>5. PICK d \in Nat : d = n \div 2 /\ d <= n
    OBVIOUS
<1>6. SetSlot(s, Shifted(st, n, d))
    BY <1>2, <1>3, <1>4, <1>5 DEF ShiftContext, Shifted
<1>7. Shifted(st, n, d) \in RightStates /\ Within(Shifted(st, n, d))
    BY <1>3, <1>4, <1>5, ShiftRight
<1> QED
    BY <1>1, <1>6, <1>7, GeneratingReusable

LEMMA ReleaseReusable ==
    ASSUME Reusable, NEW s \in Slots, Release(s)
    PROVE  Reusable'
<1>1. /\ state' = [state EXCEPT ![s] = "idle"] /\ task' = [task EXCEPT ![s] = NoTask]
      /\ lastUsed' = Append(KeepAt(lastUsed, {i \in 1..Len(lastUsed) : lastUsed[i] # s}), s)
      /\ UNCHANGED <<setup, lora, promptVars, cacheVars, file, count, thin>>
    BY DEF Release
<1>2. Types /\ AllIn(RightStates)
    BY DEF Reusable
<1>3. RightStates' = RightStates /\ Slots' = Slots
    BY <1>1, SameRight
<1>4. lastUsed' \in Seq(Slots) /\ Range(lastUsed') = Slots
    <2> DEFINE K == {i \in 1..Len(lastUsed) : lastUsed[i] # s}
               b == <<s>>
    <2>1. K = OthersIn(lastUsed, {s})
        BY DEF OthersIn
    <2>2. b \in Seq(Slots) /\ Range(b) = {s}
        BY DEF Range
    <2>3. K \subseteq 1..Len(lastUsed) /\ lastUsed \in Seq(Slots) /\ Range(lastUsed) = Slots
        BY <1>2 DEF Types
    <2>4. KeepAt(lastUsed, K) \o b \in Seq(Slots) /\ Range(KeepAt(lastUsed, K) \o b) = Slots
        <3>1. PICK W : W = {s}
            OBVIOUS
        <3>2. PICK N : N = Slots
            OBVIOUS
        <3>3. PICK k : k = K
            OBVIOUS
        <3>4. lastUsed \in Seq(N) /\ Range(lastUsed) = N /\ W \subseteq N /\ b \in Seq(N) /\ Range(b) = W
            BY <2>2, <2>3, <3>1, <3>2
        <3>5. k = OthersIn(lastUsed, W)
            BY <2>1, <3>1, <3>3
        <3> HIDE DEF K, b
        <3> QED
            BY <3>2, <3>3, <3>4, <3>5, UsedLast
    <2>5. KeepAt(lastUsed, K) \in Seq(Slots)
        <3> HIDE DEF K
        <3> QED
            BY <2>3, KeptElements
    <2>6. Append(KeepAt(lastUsed, K), s) = KeepAt(lastUsed, K) \o b
        <3> HIDE DEF K
        <3> QED
            BY <2>5, AppendIsConcat
    <2>7. lastUsed' = Append(KeepAt(lastUsed, K), s)
        BY <1>1
    <2> HIDE DEF K
    <2> QED
        BY <2>4, <2>6, <2>7
<1>5. Shapes'
    BY <1>1, <1>2, <1>3 DEF promptVars, Shapes, Types
<1>6. Types'
    <2>1. /\ state' \in [Slots -> {"idle", "started", "prompt", "generating"}]
          /\ task' \in [Slots -> Requests \cup {NoTask}]
        BY <1>1, <1>2 DEF Types
    <2> QED
        BY <1>1, <1>2, <1>3, <1>4, <1>5, <2>1 DEF cacheVars, Types
<1>7. AllIn(RightStates)'
    <2>1. PICK S : S = RightStates
        OBVIOUS
    <2>2. AllIn(S)'
        BY <1>1, <1>2, <2>1, SameAllIn DEF cacheVars
    <2> QED
        BY <1>3, <2>1, <2>2 DEF AllIn
<1>8. ASSUME NEW t \in Slots PROVE Works(t)'
    <2>1. CASE t = s
        <3>1. state'[t] = "idle"
            BY <1>1, <1>2, <2>1 DEF Types
        <3> QED
            BY <3>1 DEF Works
    <2>2. CASE t # s
        <3>1. state'[t] = state[t] /\ task'[t] = task[t]
            BY <1>1, <1>2, <2>2 DEF Types
        <3>2. SlotState(t)' = SlotState(t)
            BY <1>1 DEF promptVars, SlotState
        <3> QED
            BY <3>1, <3>2, ReusableFacts, SameWorks
    <2> QED
        BY <2>1, <2>2
<1> QED
    BY <1>3, <1>6, <1>7, <1>8 DEF Reusable

LEMMA FailedIn ==    \* the working slots are cleared, whatever the prompts have in common
    ASSUME Shapes, NEW S, S \subseteq PromptStates, Clears(S), AllIn(S), FailBatch
    PROVE  AllIn(S)'
<1>1. /\ tokens' = [s \in Slots |-> IF s \in Slots \ Idle THEN <<>> ELSE tokens[s]]
      /\ base' = [s \in Slots |-> IF s \in Slots \ Idle THEN None ELSE base[s]]
      /\ swa' = [s \in Slots |-> IF s \in Slots \ Idle THEN None ELSE swa[s]]
      /\ ckpts' = ckpts /\ setup' = setup /\ cache' = cache /\ file' = file
    BY DEF FailBatch, cacheVars
<1>2. Slots' = Slots
    BY <1>1 DEF Slots
<1>3. ASSUME NEW s \in Slots PROVE SlotState(s)' \in S
    <2>1. SlotState(s) \in S /\ SlotState(s) \in PromptStates
        BY DEF AllIn
    <2>2. CASE s \in Idle
        <3>1. SlotState(s)' = SlotState(s)
            BY <1>1, <2>2 DEF SlotState
        <3> QED
            BY <2>1, <3>1
    <2>3. CASE s \notin Idle
        <3>1. tokens'[s] = <<>> /\ base'[s] = None /\ swa'[s] = None /\ ckpts'[s] = ckpts[s]
            BY <1>1, <2>3
        <3>3. PICK st \in S : st = SlotState(s)
            BY <2>1
        <3>4. st \in PromptStates /\ st.ckpts = ckpts[s] /\ None \in CellMaps /\ <<>> \in Seq(Tokens)
            BY <3>3, NoneIsMap, EmptySeq DEF SlotState
        <3>5. PICK y \in S : y = Blank(st)
            BY DEF Clears
        <3>6. y \in PromptStates /\ y.tokens = <<>> /\ y.ckpts = ckpts[s] /\ y.base = None /\ y.swa = None
            BY <3>4, <3>5 DEF Blank, PromptStates
        <3>7. SlotState(s)' = y
            BY <3>1, <3>6 DEF SlotState, PromptStates
        <3> QED
            BY <3>7
    <2> QED
        BY <2>2, <2>3
<1>4. \A f \in file : FileState(f) \in S
    BY DEF AllIn
<1> QED
    BY <1>1, <1>2, <1>3, <1>4 DEF AllIn, FileState

LEMMA FailBatchReusable ==
    ASSUME Reusable, FailBatch
    PROVE  Reusable'
<1> DEFINE W == Slots \ Idle
<1>1. /\ state' = [s \in Slots |-> "idle"] /\ task' = [s \in Slots |-> NoTask]
      /\ lastUsed' = KeepAt(lastUsed, {i \in 1..Len(lastUsed) : lastUsed[i] \notin W})
                     \o KeepAt([i \in 1..setup.slots |-> i - 1], {s + 1 : s \in W})
      /\ setup' = setup /\ lora' = lora /\ limitSize' = limitSize /\ count' = count /\ thin' = thin
    BY DEF FailBatch, cacheVars
<1>2. Types /\ setup.slots \in Nat \ {0} /\ Shapes
    BY SetupTypes DEF Reusable, Types
<1>3. RightStates' = RightStates /\ Slots' = Slots
    BY <1>1, SameRight
<1>4. lastUsed' \in Seq(Slots) /\ Range(lastUsed') = Slots
    <2> DEFINE q == [i \in 1..setup.slots |-> i - 1]
               J == {s + 1 : s \in W}
               b == KeepAt(q, J)
               K == {i \in 1..Len(lastUsed) : lastUsed[i] \notin W}
    <2>1. \A i \in 1..setup.slots : i - 1 \in Slots
        BY <1>2 DEF Slots
    <2>2. q \in [1..setup.slots -> Slots]
        BY <2>1
    <2>3. q \in Seq(Slots) /\ Len(q) = setup.slots
        <3> HIDE DEF q
        <3> QED
            BY <1>2, <2>2, Numbered
    <2>4. \A s \in W : s \in Nat /\ s + 1 \in 1..setup.slots
        BY <1>2 DEF Slots
    <2>5. J \subseteq 1..Len(q)
        BY <2>3, <2>4
    <2>6. b \in Seq(Slots) /\ Elements(b, q, J)
        <3> HIDE DEF q, J
        <3> QED
            BY <2>3, <2>5, KeptElements
    <2>7. \A s \in W : q[s + 1] = s
        BY <2>4
    <2>8. \A k \in J : \E s \in W : k = s + 1
        OBVIOUS
    <2>9. \A s \in W : s + 1 \in J
        OBVIOUS
    <2> HIDE DEF q, J, b
    <2>10. Range(b) = W
        BY <2>6, <2>7, <2>8, <2>9 DEF Elements
    <2>11. KeepAt(lastUsed, K) \o b \in Seq(Slots) /\ Range(KeepAt(lastUsed, K) \o b) = Slots
        <3>1. PICK V : V = W
            OBVIOUS
        <3>2. PICK N : N = Slots
            OBVIOUS
        <3>3. PICK k : k = K
            OBVIOUS
        <3>4. lastUsed \in Seq(N) /\ Range(lastUsed) = N /\ V \subseteq N /\ b \in Seq(N) /\ Range(b) = V
            BY <1>2, <2>6, <2>10, <3>1, <3>2 DEF Types
        <3>5. k = OthersIn(lastUsed, V)
            BY <3>1, <3>3 DEF OthersIn
        <3> HIDE DEF K, W
        <3> QED
            BY <3>2, <3>3, <3>4, <3>5, UsedLast
    <2>12. lastUsed' = KeepAt(lastUsed, K) \o b
        BY <1>1 DEF b, q, J
    <2> HIDE DEF K
    <2> QED
        BY <2>11, <2>12
<1>5. Shapes'
    BY <1>2, <1>3 DEF FailBatch, Shapes
<1>6. Types'
    BY <1>1, <1>2, <1>3, <1>4, <1>5 DEF Types
<1>7. AllIn(RightStates)'
    <2>1. PICK S : S = RightStates
        OBVIOUS
    <2>2. S \subseteq PromptStates /\ Clears(S) /\ AllIn(S)
        BY <2>1, ReusableFacts DEF Reusable
    <2>3. AllIn(S)'
        BY <1>2, <2>2, FailedIn
    <2> QED
        BY <1>3, <2>1, <2>3 DEF AllIn
<1>8. \A t \in Slots : Works(t)'
    BY <1>1 DEF Works
<1> QED
    BY <1>3, <1>6, <1>7, <1>8 DEF Reusable

(* A step of an idle slot.                                                  *)
LEMMA IdleReusable ==
    ASSUME Reusable, NEW s \in Slots, state[s] = "idle", NEW x \in RightStates, SetSlot(s, x),
           UNCHANGED <<setup, state, task, lora, lastUsed, cacheVars, file, thin>>,
           count' \in 0..setup.requests
    PROVE  Reusable'
<1>1. Works(s)'
    BY DEF Works
<1>2. Types
    BY DEF Reusable
<1> QED
    BY <1>1, <1>2, OneSlotReusable DEF cacheVars, Types

LEMMA PurgeReusable ==
    ASSUME Reusable, Purge
    PROVE  Reusable'
<1> DEFINE full == {s \in Idle : tokens[s] # <<>>}
<1>1. /\ full # {} /\ SetSlot(Min(full), Blank(SlotState(Min(full))))
      /\ UNCHANGED <<setup, state, task, lora, lastUsed, cacheVars, file, count, thin>>
    BY DEF Purge
<1>2. full \subseteq Idle /\ full \subseteq Slots /\ full \subseteq Nat
    BY SetupTypes, ReusableFacts DEF Slots, Idle
<1> HIDE DEF full
<1>3. PICK s \in full : s = Min(full)
    BY <1>1, <1>2, MinIsElement
<1>4. s \in Slots /\ state[s] = "idle"
    BY <1>2 DEF Idle
<1>5. Blank(SlotState(s)) \in RightStates
    BY <1>4, ReusableFacts DEF Clears
<1>6. SetSlot(s, Blank(SlotState(s)))
    BY <1>1, <1>3
<1>7. count' \in 0..setup.requests
    BY <1>1 DEF Reusable, Types
<1> QED
    BY <1>1, <1>4, <1>5, <1>6, <1>7, IdleReusable

LEMMA ActionFacts ==
    ASSUME Reusable, NEW s \in Slots, SlotAction(s)
    PROVE  /\ state[s] = "idle" /\ count' \in 0..setup.requests
           /\ UNCHANGED <<setup, state, task, lora, lastUsed, cacheVars, thin>>
<1>1. count \in 0..setup.requests /\ setup.requests \in Nat
    BY SetupTypes DEF Reusable, Types
<1>2. count' = count + 1 /\ count < setup.requests
    BY DEF SlotAction
<1> QED
    BY <1>1, <1>2 DEF SlotAction

LEMMA FiledRight ==    \* a file keeps a right prompt, without its checkpoints
    ASSUME setup \in Setups, NEW st \in RightStates, NEW x,
           x = [tokens |-> st.tokens, ckpts |-> <<>>, base |-> st.base, swa |-> st.swa]
    PROVE  x \in RightStates
<1>1. st \in PromptStates /\ Right(st)
    BY DEF RightStates
<1>2. x \in PromptStates
    BY <1>1, EmptySeq DEF PromptStates
<1>3. x.tokens = st.tokens /\ x.base = st.base /\ x.swa = st.swa /\ x.ckpts = <<>>
    BY DEF PromptStates
<1>4. Len(x.ckpts) = 0 /\ setup.maxCkpt \in Nat
    BY <1>3, EmptySeq, SetupTypes
<1>5. Right(x)
    BY <1>1, <1>3, <1>4 DEF Right, WindowMatches
<1> QED
    BY <1>2, <1>5 DEF RightStates

LEMMA SaveSlotReusable ==
    ASSUME Reusable, NEW s \in Slots, SaveSlot(s)
    PROVE  Reusable'
<1>1. /\ state[s] = "idle" /\ count' \in 0..setup.requests
      /\ UNCHANGED <<setup, state, task, lora, lastUsed, cacheVars, thin>>
    BY ActionFacts DEF SaveSlot
<1>2. file' = {[tokens |-> tokens[s], base |-> base[s], swa |-> swa[s]]} /\ UNCHANGED promptVars
    BY DEF SaveSlot
<1>3. RightStates' = RightStates /\ Slots' = Slots
    BY <1>1, SameRight
<1>4. Types /\ AllIn(RightStates)
    BY DEF Reusable
<1>5. ASSUME NEW f \in file' PROVE FileState(f) \in RightStates
    <2>1. FileState(f) = [tokens |-> SlotState(s).tokens, ckpts |-> <<>>,
                          base |-> SlotState(s).base, swa |-> SlotState(s).swa]
        BY <1>2 DEF FileState, SlotState
    <2>2. SlotState(s) \in RightStates /\ setup \in Setups
        BY ReusableFacts
    <2> QED
        BY <2>1, <2>2, FiledRight
<1>6. \A t \in Slots : SlotState(t)' = SlotState(t)
    BY <1>2 DEF promptVars, SlotState
<1>7. AllIn(RightStates)'
    BY <1>1, <1>3, <1>4, <1>5, <1>6 DEF cacheVars, AllIn, FileState
<1>8. Types'
    BY <1>1, <1>2, <1>3, <1>4 DEF Types, Shapes, promptVars, cacheVars
<1>9. \A t \in Slots : Works(t)'
    BY <1>1, <1>6, ReusableFacts, SameWorks
<1> QED
    BY <1>3, <1>7, <1>8, <1>9 DEF Reusable

LEMMA RestoredSlotRight ==    \* a file's prompt and cells with a slot's checkpoints
    ASSUME setup \in Setups, NEW st \in RightStates, NEW y \in RightStates, NEW x,
           x = [st EXCEPT !.tokens = y.tokens, !.base = y.base, !.swa = y.swa]
    PROVE  x \in RightStates
<1>1. st \in PromptStates /\ Right(st) /\ y \in PromptStates /\ Right(y)
    BY DEF RightStates
<1>2. /\ x \in PromptStates /\ x.tokens = y.tokens /\ x.base = y.base /\ x.swa = y.swa
      /\ x.ckpts = st.ckpts
    BY <1>1 DEF PromptStates
<1>3. Right(x)
    BY <1>1, <1>2 DEF Right, WindowMatches
<1> QED
    BY <1>2, <1>3 DEF RightStates

LEMMA RestoreSlotReusable ==
    ASSUME Reusable, NEW s \in Slots, RestoreSlot(s)
    PROVE  Reusable'
<1>1. /\ state[s] = "idle" /\ count' \in 0..setup.requests
      /\ UNCHANGED <<setup, state, task, lora, lastUsed, cacheVars, thin, file>>
    BY ActionFacts DEF RestoreSlot
<1>2. PICK st \in RightStates : st = SlotState(s)
    BY ReusableFacts
<1>3. ASSUME NEW x \in RightStates, SetSlot(s, x) PROVE Reusable'
    BY <1>1, <1>3, IdleReusable
<1>4. Blank(st) \in RightStates /\ Nameless(st) \in RightStates
    BY ReusableFacts DEF Clears
<1>5. ASSUME NEW saved \in file,
             SetSlot(s, [st EXCEPT !.tokens = saved.tokens, !.base = saved.base, !.swa = saved.swa])
      PROVE  Reusable'
    <2>1. FileState(saved) \in RightStates
        BY DEF Reusable, AllIn
    <2>2. PICK y \in RightStates : y = FileState(saved)
        BY <2>1
    <2>3. saved.tokens = y.tokens /\ saved.base = y.base /\ saved.swa = y.swa
        BY <2>2 DEF FileState
    <2>4. PICK x : x = [st EXCEPT !.tokens = y.tokens, !.base = y.base, !.swa = y.swa]
        OBVIOUS
    <2>5. x \in RightStates
        BY <2>4, RestoredSlotRight, ReusableFacts
    <2>6. SetSlot(s, x)
        BY <1>5, <2>3, <2>4
    <2> QED
        BY <1>3, <2>5, <2>6
<1>6. \/ \E saved \in file :
             SetSlot(s, [st EXCEPT !.tokens = saved.tokens, !.base = saved.base, !.swa = saved.swa])
      \/ SetSlot(s, Nameless(st))
      \/ SetSlot(s, Blank(st))
    BY <1>2 DEF RestoreSlot, Nameless
<1> QED
    BY <1>3, <1>4, <1>5, <1>6

LEMMA EraseSlotReusable ==
    ASSUME Reusable, NEW s \in Slots, EraseSlot(s)
    PROVE  Reusable'
<1>1. /\ state[s] = "idle" /\ count' \in 0..setup.requests
      /\ UNCHANGED <<setup, state, task, lora, lastUsed, cacheVars, thin, file>>
    BY ActionFacts DEF EraseSlot
<1>2. Blank(SlotState(s)) \in RightStates
    BY ReusableFacts DEF Clears
<1>3. SetSlot(s, Blank(SlotState(s)))
    BY DEF EraseSlot
<1> QED
    BY <1>1, <1>2, <1>3, IdleReusable

LEMMA StutterReusable ==
    ASSUME Reusable, UNCHANGED vars
    PROVE  Reusable'
<1>1. UNCHANGED <<setup, state, task, lora, promptVars, lastUsed, cacheVars, file, count, thin>>
    BY DEF vars
<1>2. RightStates' = RightStates /\ Slots' = Slots
    BY <1>1, SameRight
<1>3. \A t \in Slots : SlotState(t)' = SlotState(t)
    BY <1>1 DEF promptVars, SlotState
<1>4. Types'
    BY <1>1, <1>2 DEF Reusable, Types, Shapes, promptVars, cacheVars
<1>5. AllIn(RightStates)'
    BY <1>1, <1>2, <1>3 DEF Reusable, AllIn, FileState, cacheVars
<1>6. \A t \in Slots : Works(t)'
    BY <1>1, <1>3, ReusableFacts, SameWorks
<1> QED
    BY <1>2, <1>4, <1>5, <1>6 DEF Reusable

(* The inductive step.                                                      *)
LEMMA NextReusable ==
    ASSUME Reusable, [Next]_vars
    PROVE  Reusable'
<1>1. CASE \E r \in Requests : Launch(r)
    BY <1>1, LaunchReusable
<1>2. CASE \E s \in Slots : StartPrompt(s) \/ FillPrompt(s) \/ ShiftContext(s) \/ Release(s)
    BY <1>2, StartPromptReusable, FillPromptReusable, ShiftContextReusable, ReleaseReusable
<1>3. CASE \E s \in Slots, t \in Sampled : Generate(s, t)
    BY <1>3, GenerateReusable
<1>4. CASE FailBatch \/ Purge
    BY <1>4, FailBatchReusable, PurgeReusable
<1>5. CASE \E s \in Slots : SaveSlot(s) \/ RestoreSlot(s) \/ EraseSlot(s)
    BY <1>5, SaveSlotReusable, RestoreSlotReusable, EraseSlotReusable
<1>6. CASE UNCHANGED vars
    BY <1>6, StutterReusable
<1> QED
    BY <1>1, <1>2, <1>3, <1>4, <1>5, <1>6 DEF Next

LEMMA AlwaysReusable == Spec => []Reusable
<1>1. Init => Reusable
    BY InitReusable
<1>2. Reusable /\ [Next]_vars => Reusable'
    BY NextReusable
<1> QED
    BY <1>1, <1>2, PTL DEF Spec

LEMMA ReusableTyped == Reusable => TypeOK
<1> SUFFICES ASSUME Reusable PROVE TypeOK
    OBVIOUS
<1>1. ASSUME NEW cells \in CellMaps PROVE IsCells(cells)
    BY CellMap DEF IsCells, Positions, Loras
<1>2. ASSUME NEW st \in RightStates PROVE IsState(st)
    <2>1. st \in PromptStates /\ Right(st)
        BY DEF RightStates
    <2>2. /\ st.tokens \in Seq(Tokens) /\ DOMAIN st.tokens = 1..Len(st.tokens)
          /\ st.ckpts \in Seq(Ckpts) /\ DOMAIN st.ckpts = 1..Len(st.ckpts)
          /\ st.base \in CellMaps /\ st.swa \in CellMaps
        BY <2>1, StateTypes, LenProperties
    <2>3. \A i \in DOMAIN st.tokens : st.tokens[i] \in Tokens
        BY <2>2, ElementOfSeq
    <2>4. \A i \in DOMAIN st.ckpts : st.ckpts[i] \in CellMaps /\ st.ckpts[i] # None
        BY <2>2, ElementOfSeq DEF Ckpts
    <2> QED
        BY <1>1, <2>1, <2>2, <2>3, <2>4 DEF IsState, Right
<1>3. cache \in Seq(RightStates)
    BY DEF Reusable, AllIn
<1>4. DOMAIN cache = 1..Len(cache)
    BY <1>3, LenProperties
<1>5. \A i \in DOMAIN cache : cache[i] \in RightStates
    BY <1>3, <1>4, ElementOfSeq
<1>6. \A s \in Slots : SlotState(s) \in RightStates
    BY ReusableFacts
<1>7. \A s \in Slots : /\ state[s] \in {"idle", "started", "prompt", "generating"}
                       /\ task[s] \in Requests \cup {NoTask}
    BY DEF Reusable, Types
<1>8. Range(lastUsed) = Slots /\ limitSize \in Nat /\ count \in 0..setup.requests
    BY DEF Reusable, Types
<1> QED
    BY <1>2, <1>5, <1>6, <1>7, <1>8 DEF TypeOK

LEMMA ReusableMatches == Reusable => CellsMatch
<1> SUFFICES ASSUME Reusable PROVE CellsMatch
    OBVIOUS
<1>1. cache \in Seq(RightStates)
    BY DEF Reusable, AllIn
<1>2. \A st \in Range(cache) : st \in RightStates
    <2>1. DOMAIN cache = 1..Len(cache)
        BY <1>1, LenProperties
    <2> QED
        BY <1>1, <2>1, ElementOfSeq DEF Range
<1>3. \A s \in Slots : SlotState(s) \in RightStates
    BY ReusableFacts
<1>4. \A st \in States : st \in RightStates
    BY <1>2, <1>3 DEF States
<1> QED
    BY <1>4 DEF CellsMatch, RightStates, Right

(* The types, and no slot or saved state with more checkpoints than         *)
(* n_ctx_checkpoints or with an empty one, whatever is launched, restored,  *)
(* erased or purged.                                                        *)
THEOREM TypeCorrect == Spec => []TypeOK
<1>1. Reusable => TypeOK
    BY ReusableTyped
<1> QED
    BY <1>1, AlwaysReusable, PTL

(* Every prompt that is kept, in a slot or in the cache, names the tokens its *)
(* cells of full attention were computed from, after reuse of a prefix,     *)
(* shifted chunks, context shifts, a swap with the cache, a slot file or a  *)
(* failed batch; the window cells too if no checkpoints are used.           *)
THEOREM KeptPromptsMatchTheirCells == Spec => []CellsMatch
<1>1. Reusable => CellsMatch
    BY ReusableMatches
<1> QED
    BY <1>1, AlwaysReusable, PTL

-----------------------------------------------------------------------------
(* What clearing a prompt keeps, and taking the checkpoints of another one, *)
(* every step keeps but those of working slots, which have to be looked at. *)
Mixed(x, c) == [tokens |-> x.tokens, ckpts |-> c, base |-> x.base, swa |-> x.swa]
Mixes(S) == \A x \in S : Mixed(x, <<>>) \in S /\ \A y \in S : Mixed(x, y.ckpts) \in S

WorkStep(s) ==
    StartPrompt(s) \/ FillPrompt(s) \/ ShiftContext(s) \/ \E t \in Sampled : Generate(s, t)

LEMMA WorkStepSame ==
    ASSUME setup \in Setups, NEW s, WorkStep(s)
    PROVE  /\ setup' = setup /\ cache' = cache /\ file' = file
           /\ state[s] \in {"started", "prompt", "generating"}
<1>1. CASE StartPrompt(s) \/ FillPrompt(s)
    BY <1>1, PassSteps DEF StartPrompt, FillPrompt, cacheVars
<1>2. CASE ShiftContext(s) \/ \E t \in Sampled : Generate(s, t)
    BY <1>2 DEF ShiftContext, Generate, cacheVars
<1> QED
    BY <1>1, <1>2 DEF WorkStep

LEMMA ClearIn ==
    ASSUME Shapes, setup' = setup, NEW S, S \subseteq PromptStates, AllIn(S), Clears(S), NEW s \in Slots,
           SetSlot(s, Blank(SlotState(s))) \/ SetSlot(s, Nameless(SlotState(s))),
           cache' = cache, file' = file
    PROVE  AllIn(S)'
<1>1. Blank(SlotState(s)) \in S /\ Nameless(SlotState(s)) \in S
    BY DEF AllIn, Clears
<1> QED
    BY <1>1, SetIn

LEMMA PurgeIn ==
    ASSUME Reusable, NEW S, S \subseteq PromptStates, AllIn(S), Clears(S), Purge
    PROVE  AllIn(S)'
<1> DEFINE full == {s \in Idle : tokens[s] # <<>>}
<1>1. /\ full # {} /\ SetSlot(Min(full), Blank(SlotState(Min(full))))
      /\ setup' = setup /\ cache' = cache /\ file' = file
    BY DEF Purge, cacheVars
<1>2. full \subseteq Slots /\ full \subseteq Nat
    BY SetupTypes, ReusableFacts DEF Slots, Idle
<1> HIDE DEF full
<1>3. PICK s \in full : s = Min(full)
    BY <1>1, <1>2, MinIsElement
<1>4. s \in Slots /\ SetSlot(s, Blank(SlotState(s)))
    BY <1>1, <1>2, <1>3
<1> QED
    BY <1>1, <1>4, ReusableFacts, ClearIn

LEMMA SaveSlotIn ==
    ASSUME Reusable, NEW S, S \subseteq PromptStates, AllIn(S), Mixes(S), NEW s \in Slots, SaveSlot(s)
    PROVE  AllIn(S)'
<1>1. /\ setup' = setup /\ cache' = cache /\ UNCHANGED promptVars
      /\ file' = {[tokens |-> tokens[s], base |-> base[s], swa |-> swa[s]]}
    BY DEF SaveSlot, SlotAction, cacheVars
<1>2. Slots' = Slots
    BY <1>1 DEF Slots
<1>3. \A t \in Slots : SlotState(t)' = SlotState(t)
    BY <1>1 DEF promptVars, SlotState
<1>4. ASSUME NEW f \in file' PROVE FileState(f) \in S
    <2>1. PICK st \in S : st = SlotState(s)
        BY DEF AllIn
    <2>2. FileState(f) = Mixed(st, <<>>)
        BY <1>1, <2>1 DEF FileState, SlotState, Mixed
    <2> QED
        BY <2>2 DEF Mixes
<1> QED
    BY <1>1, <1>2, <1>3, <1>4 DEF AllIn, FileState

LEMMA RestoreSlotIn ==
    ASSUME Reusable, NEW S, S \subseteq PromptStates, AllIn(S), Clears(S), Mixes(S),
           NEW s \in Slots, RestoreSlot(s)
    PROVE  AllIn(S)'
<1>1. setup' = setup /\ cache' = cache /\ file' = file
    BY DEF RestoreSlot, SlotAction, cacheVars
<1>2. PICK st \in S : st = SlotState(s)
    BY DEF AllIn
<1>3. ASSUME NEW saved \in file,
             SetSlot(s, [st EXCEPT !.tokens = saved.tokens, !.base = saved.base, !.swa = saved.swa])
      PROVE  AllIn(S)'
    <2>1. PICK y \in S : y = FileState(saved)
        BY DEF AllIn
    <2>2. saved.tokens = y.tokens /\ saved.base = y.base /\ saved.swa = y.swa
        BY <2>1 DEF FileState
    <2>3. PICK x : x = [st EXCEPT !.tokens = saved.tokens, !.base = saved.base, !.swa = saved.swa]
        OBVIOUS
    <2>4. st \in PromptStates
        OBVIOUS
    <2>5. x = Mixed(y, st.ckpts)
        BY <2>2, <2>3, <2>4 DEF Mixed, PromptStates
    <2>6. x \in S
        BY <2>5 DEF Mixes
    <2> QED
        BY <1>1, <1>3, <2>3, <2>6, ReusableFacts, SetIn
<1>4. \/ \E saved \in file :
             SetSlot(s, [st EXCEPT !.tokens = saved.tokens, !.base = saved.base, !.swa = saved.swa])
      \/ SetSlot(s, Nameless(SlotState(s)))
      \/ SetSlot(s, Blank(SlotState(s)))
    BY <1>2 DEF RestoreSlot, Nameless
<1> QED
    BY <1>1, <1>3, <1>4, ReusableFacts, ClearIn

LEMMA StepIn ==
    ASSUME Reusable, [Next]_vars, NEW S, S \subseteq PromptStates, Clears(S), Mixes(S), AllIn(S),
           \A s \in Slots : WorkStep(s) => \E x \in S : SetSlot(s, x)
    PROVE  AllIn(S)'
<1>1. CASE \E r \in Requests : Launch(r)
    BY <1>1, LaunchIn DEF Reusable
<1>2. CASE \E s \in Slots : WorkStep(s)
    <2>1. PICK s \in Slots : WorkStep(s)
        BY <1>2
    <2>2. PICK x \in S : SetSlot(s, x)
        BY <2>1
    <2> QED
        BY <2>1, <2>2, WorkStepSame, ReusableFacts, SetIn
<1>3. CASE \E s \in Slots : Release(s)
    BY <1>3, SameAllIn DEF Release, cacheVars
<1>4. CASE FailBatch \/ Purge
    BY <1>4, FailedIn, PurgeIn, ReusableFacts
<1>5. CASE \E s \in Slots : SaveSlot(s) \/ RestoreSlot(s)
    BY <1>5, SaveSlotIn, RestoreSlotIn
<1>6. CASE \E s \in Slots : EraseSlot(s)
    BY <1>6, ClearIn, ReusableFacts DEF EraseSlot, SlotAction, cacheVars
<1>7. CASE UNCHANGED vars
    BY <1>7, SameAllIn DEF vars, cacheVars
<1> QED
    BY <1>1, <1>2, <1>3, <1>4, <1>5, <1>6, <1>7 DEF Next, WorkStep

-----------------------------------------------------------------------------
(* The window of the attention.  What a slot holds has no gaps and reaches  *)
(* back a whole window; a checkpoint does so at its end.                    *)
Gapless(cells, n) == \A q \in DOMAIN cells : \A p \in q..(n - 1) : p \in DOMAIN cells
Reaches(cells, n) == Gapless(cells, n) /\ Whole(cells, n)
Reaching(c) == c \in Ckpts /\ Reaches(c, PosMax(c) + 1)
ReachCkpts == {c \in Ckpts : Reaching(c)}
ReachStates == {st \in PromptStates :
                  setup.window > 0 => Reaches(st.swa, Len(st.tokens)) /\ st.ckpts \in Seq(ReachCkpts)}

LEMMA SameReach ==
    ASSUME setup' = setup
    PROVE  ReachStates' = ReachStates
<1>1. ReachCkpts' = ReachCkpts
    BY DEF ReachCkpts, Reaching, Reaches, Whole, Threshold, Window
<1>2. \A cells, n : Reaches(cells, n)' <=> Reaches(cells, n)
    BY DEF Reaches, Whole, Threshold, Window
<1> QED
    BY <1>1, <1>2 DEF ReachStates

(* Nothing is asked of a window without tokens.                             *)
LEMMA ReachNothing ==
    ASSUME setup \in Setups, NEW cells \in CellMaps
    PROVE  Reaches(cells, 0) /\ Gapless(cells, 0) /\ (setup.window > 0 => Sees(cells, 0))
<1>1. DOMAIN cells \subseteq Nat
    BY CellMap DEF Positions
<1>2. Gapless(cells, 0)
    BY <1>1 DEF Gapless
<1>3. Threshold(0) \in Nat
    BY WindowNumbers
<1>4. Whole(cells, 0)
    BY <1>3 DEF Whole
<1>5. setup.window > 0 => Sees(cells, 0)
    <2> SUFFICES ASSUME setup.window > 0 PROVE Sees(cells, 0)
        OBVIOUS
    <2>1. PICK w \in Nat : w = setup.window /\ w > 0
        BY SetupTypes
    <2>2. Max({0, 0 - w + 1}) = IF 0 >= 0 - w + 1 THEN 0 ELSE 0 - w + 1
        BY MaxOfTwo
    <2>3. Max({0, 0 - w + 1}) = 0
        BY <2>1, <2>2
    <2>4. Max({0, 0 - setup.window + 1}) = 0
        BY <2>1, <2>3
    <2> QED
        BY <2>4 DEF Sees
<1> QED
    BY <1>2, <1>4, <1>5 DEF Reaches

LEMMA ReachClears ==
    ASSUME setup \in Setups
    PROVE  ReachStates \subseteq PromptStates /\ Clears(ReachStates)
<1>1. ASSUME NEW st \in ReachStates PROVE Blank(st) \in ReachStates /\ Nameless(st) \in ReachStates
    <2>1. st \in PromptStates /\ (setup.window > 0 => st.ckpts \in Seq(ReachCkpts))
        BY DEF ReachStates
    <2>2. None \in CellMaps /\ <<>> \in Seq(Tokens) /\ Len(<<>>) = 0
        BY NoneIsMap, EmptySeq
    <2>3. /\ Blank(st) \in PromptStates /\ Blank(st).tokens = <<>> /\ Blank(st).ckpts = st.ckpts
          /\ Blank(st).swa = None
        BY <2>1, <2>2 DEF Blank, PromptStates
    <2>4. /\ Nameless(st) \in PromptStates /\ Nameless(st).tokens = <<>> /\ Nameless(st).ckpts = st.ckpts
          /\ Nameless(st).swa = st.swa
        BY <2>1, <2>2 DEF Nameless, PromptStates
    <2>5. Reaches(None, 0) /\ Reaches(st.swa, 0)
        BY <2>1, <2>2, ReachNothing, StateTypes
    <2> QED
        BY <2>1, <2>2, <2>3, <2>4, <2>5 DEF ReachStates
<1> QED
    BY <1>1 DEF Clears, ReachStates

(* The window in numbers: what Sees and Whole ask for.                      *)
Has(cells, i, j) == \A p \in Int : i <= p /\ p < j /\ 0 <= p => p \in DOMAIN cells

LEMMA WindowParts ==
    ASSUME setup \in Setups, setup.window > 0, NEW n \in Int, NEW cells
    PROVE  /\ Whole(cells, n) <=> Has(cells, n - setup.window, n)
           /\ Sees(cells, n) <=> Has(cells, n - setup.window + 1, n)
<1>1. PICK w \in Nat : w = setup.window /\ Window = w
    BY SetupTypes, WindowNumbers
<1>2. PICK t \in Int : t = Threshold(n) /\ t = IF n - w >= 0 THEN n - w ELSE 0
    BY <1>1, WindowNumbers
<1>3. PICK v \in Int : v = Max({0, n - w + 1}) /\ v = IF 0 >= n - w + 1 THEN 0 ELSE n - w + 1
    BY MaxOfTwo
<1>4. \A p \in Int : p \in t..(n - 1) <=> n - w <= p /\ p < n /\ 0 <= p
    BY <1>2
<1>5. \A p \in Int : p \in v..(n - 1) <=> n - w + 1 <= p /\ p < n /\ 0 <= p
    BY <1>3
<1>6. Whole(cells, n) <=> \A p \in t..(n - 1) : p \in DOMAIN cells
    BY <1>2 DEF Whole
<1>7. Sees(cells, n) <=> \A p \in v..(n - 1) : p \in DOMAIN cells
    BY <1>1, <1>3 DEF Sees
<1> QED
    BY <1>1, <1>4, <1>5, <1>6, <1>7 DEF Has

LEMMA ReachSees ==
    ASSUME setup \in Setups, setup.window > 0, NEW n \in Int, NEW cells, Whole(cells, n)
    PROVE  Sees(cells, n)
<1>1. PICK w \in Nat : w = setup.window
    BY SetupTypes
<1>2. Has(cells, n - w, n)
    BY <1>1, WindowParts
<1>3. Has(cells, n - w + 1, n)
    BY <1>2 DEF Has
<1> QED
    BY <1>1, <1>3, WindowParts

(* A decode of a token or more makes the window whole.                      *)
LEMMA DecodedReaches ==
    ASSUME setup \in Setups, setup.window > 0, NEW s \in Slots, lora[s] \in Loras, NEW st \in PromptStates,
           NEW toks \in Seq(Tokens), Len(st.tokens) + Len(toks) <= NCtx,
           NEW after \in Decoded(s, st, toks),
           Gapless(st.swa, Len(st.tokens)), Sees(st.swa, Len(st.tokens)),
           Len(toks) > 0 \/ Whole(st.swa, Len(st.tokens))
    PROVE  Reaches(after.swa, Len(st.tokens) + Len(toks)) /\ after.ckpts = st.ckpts
<1>1. PICK n \in Nat, m \in Nat, w \in Nat : n = Len(st.tokens) /\ m = Len(toks) /\ w = setup.window
    BY StateTypes, LenProperties, SetupTypes
<1>2. PICK new : new = Computed(s, n, toks)
    OBVIOUS
<1>3. DecodedFields(after, st, toks, new)
    BY <1>1, <1>2, DecodedHas
<1>4. new \in CellMaps /\ DOMAIN new = n..(n + m - 1) /\ st.swa \in CellMaps
    <2>1. n + Len(toks) <= NCtx
        BY <1>1
    <2>2. new \in CellMaps /\ DOMAIN new = n..(n + Len(toks) - 1)
        BY <1>2, <2>1, ComputedCells
    <2> QED
        BY <1>1, <2>2, StateTypes
<1>5. PICK joined : joined = Joined(st.swa, new)
    OBVIOUS
<1>6. joined \in CellMaps /\ DOMAIN joined = DOMAIN st.swa \cup n..(n + m - 1)
    BY <1>4, <1>5, JoinedCells
<1>7. DOMAIN st.swa \subseteq Nat
    BY <1>4, CellMap DEF Positions
<1>8. Has(st.swa, n - w + 1, n) /\ (m > 0 \/ Has(st.swa, n - w, n))
    BY <1>1, WindowParts
<1>9. Has(joined, n + m - w, n + m)
    <2>1. ASSUME NEW p \in Int, n + m - w <= p, p < n + m, 0 <= p PROVE p \in DOMAIN joined
        <3>1. CASE p < n
            <4>1. CASE m > 0
                <5>1. n - w + 1 <= p
                    BY <2>1, <4>1
                <5> QED
                    BY <1>6, <1>8, <2>1, <3>1, <5>1 DEF Has
            <4>2. CASE ~(m > 0)
                <5>1. n - w <= p
                    BY <2>1, <4>2
                <5> QED
                    BY <1>6, <1>8, <2>1, <3>1, <4>2, <5>1 DEF Has
            <4> QED
                BY <4>1, <4>2
        <3>2. CASE p >= n
            <4>1. p \in n..(n + m - 1)
                BY <2>1, <3>2
            <4> QED
                BY <1>6, <4>1
        <3> QED
            BY <3>1, <3>2
    <2> QED
        BY <2>1 DEF Has
<1>10. Gapless(joined, n + m)
    <2> SUFFICES ASSUME NEW q \in DOMAIN joined, NEW p \in q..(n + m - 1) PROVE p \in DOMAIN joined
        BY DEF Gapless
    <2>1. q \in Nat /\ p \in Nat
        BY <1>6, <1>7
    <2>2. CASE p >= n
        <3>1. p \in n..(n + m - 1)
            BY <2>1, <2>2
        <3> QED
            BY <1>6, <3>1
    <2>3. CASE p < n
        <3>1. q \in DOMAIN st.swa /\ p \in q..(n - 1)
            BY <1>6, <2>1, <2>3
        <3>2. p \in DOMAIN st.swa
            BY <1>1, <3>1 DEF Gapless
        <3> QED
            BY <1>6, <3>2
    <2> QED
        BY <2>1, <2>2, <2>3
<1>11. Whole(joined, n + m)
    <2>1. PICK N \in Int : N = n + m
        OBVIOUS
    <2>2. N - w = n + m - w
        BY <2>1
    <2>3. Has(joined, N - setup.window, N)
        BY <1>1, <1>9, <2>1, <2>2
    <2> QED
        BY <2>1, <2>3, WindowParts
<1>12. PICK t : t = Threshold(n + m)
    OBVIOUS
<1>13. after.swa = joined \/ Shortens(after.swa, joined, t)
    BY <1>1, <1>3, <1>5, <1>12 DEF DecodedFields
<1>14. CASE Shortens(after.swa, joined, t)
    <2>1. t \in Int
        BY <1>12, WindowNumbers
    <2>2. DOMAIN after.swa = {q \in DOMAIN joined : q >= t}
        BY <1>14 DEF Shortens, Restricts
    <2>3. Whole(after.swa, n + m)
        <3>1. \A p \in t..(n + m - 1) : p \in DOMAIN joined
            BY <1>11, <1>12 DEF Whole
        <3>2. \A p \in t..(n + m - 1) : p >= t
            BY <2>1
        <3>3. \A p \in t..(n + m - 1) : p \in DOMAIN after.swa
            BY <2>2, <3>1, <3>2
        <3> QED
            BY <1>12, <3>3 DEF Whole
    <2>4. Gapless(after.swa, n + m)
        <3> SUFFICES ASSUME NEW q \in DOMAIN after.swa, NEW p \in q..(n + m - 1) PROVE p \in DOMAIN after.swa
            BY DEF Gapless
        <3>1. q \in DOMAIN joined /\ q >= t /\ q \in Nat
            BY <1>6, <1>7, <2>2
        <3>2. p \in DOMAIN joined
            BY <1>10, <3>1 DEF Gapless
        <3>3. p >= t
            BY <2>1, <3>1
        <3> QED
            BY <2>2, <3>2, <3>3
    <2> QED
        BY <1>1, <1>3, <2>3, <2>4 DEF DecodedFields, Reaches
<1> QED
    BY <1>1, <1>3, <1>10, <1>11, <1>13, <1>14 DEF DecodedFields, Reaches

-----------------------------------------------------------------------------
(* What a slot keeps sees its window: the prefix that is kept, the prefix   *)
(* without its last token, and a checkpoint.                                *)
LEMMA PrefixSees ==    \* the window reaches back from n, and n tokens are kept or one less
    ASSUME setup \in Setups, setup.window > 0, NEW cells \in CellMaps, NEW n \in Nat,
           Has(cells, n - setup.window, n), NEW k \in Nat, k = n \/ k = n - 1
    PROVE  Sees(cells, k)
<1>1. PICK w \in Nat : w = setup.window
    BY SetupTypes
<1>2. Has(cells, k - w + 1, k)
    <2> SUFFICES ASSUME NEW p \in Int, k - w + 1 <= p, p < k, 0 <= p PROVE p \in DOMAIN cells
        BY DEF Has
    <2>1. n - w <= p /\ p < n
        OBVIOUS
    <2> QED
        BY <1>1, <2>1 DEF Has
<1> QED
    BY <1>1, <1>2, WindowParts

LEMMA GaplessPrefix ==
    ASSUME NEW cells \in CellMaps, NEW n \in Int, Gapless(cells, n), NEW k \in Int, k <= n
    PROVE  Gapless(cells, k)
<1>1. \A q \in DOMAIN cells : q \in Int
    BY CellMap DEF Positions
<1>2. \A q \in DOMAIN cells : \A p \in q..(k - 1) : p \in q..(n - 1)
    BY <1>1
<1> QED
    BY <1>2 DEF Gapless

LEMMA UnrestoredSees ==
    ASSUME setup \in Setups, setup.window > 0, NEW st \in PromptStates, Reaches(st.swa, Len(st.tokens)),
           NEW n \in Nat, n <= Len(st.tokens), ~LacksWindow(st, n), n > 0
    PROVE  Has(st.swa, n - setup.window, n)
<1>1. PICK L \in Nat, w \in Nat : L = Len(st.tokens) /\ w = setup.window /\ w = Window
    BY StateTypes, SetupTypes, WindowNumbers
<1>2. Has(st.swa, L - w, L) /\ Gapless(st.swa, L) /\ st.swa \in CellMaps
    BY <1>1, WindowParts, StateTypes DEF Reaches
<1>3. CASE n = L
    BY <1>1, <1>2, <1>3
<1>4. CASE n < L
    <2> DEFINE a == PosMin(st.swa)
    <2>1. a <= Threshold(n)
        <3>1. SeqCells(st.base, st.swa) = st.swa
            BY DEF SeqCells
        <3>2. ~(a > Threshold(n))
            BY <1>1, <1>4, <3>1 DEF LacksWindow
        <3>3. st.swa # None
            <4>1. L - 1 \in Int /\ L - w <= L - 1 /\ L - 1 < L /\ 0 <= L - 1
                BY <1>1, <1>4
            <4>2. L - 1 \in DOMAIN st.swa
                BY <1>2, <4>1 DEF Has
            <4> QED
                BY <4>2, NoneIsMap
        <3>4. a \in Nat /\ Threshold(n) \in Int
            <4>1. a \in Nat
                BY <1>2, <3>3, PosEnds
            <4>2. Threshold(n) \in Int
                BY <1>1, WindowNumbers
            <4> QED
                BY <4>1, <4>2
        <3> HIDE DEF a
        <3> QED
            BY <3>2, <3>4
    <2>2. st.swa # None
        <3>1. L - 1 \in Int /\ L - w <= L - 1 /\ L - 1 < L /\ 0 <= L - 1
            BY <1>1, <1>4
        <3>2. L - 1 \in DOMAIN st.swa
            BY <1>2, <3>1 DEF Has
        <3> QED
            BY <3>2, NoneIsMap
    <2>3. a \in DOMAIN st.swa /\ a \in Nat
        BY <1>2, <2>2, PosEnds
    <2> HIDE DEF a
    <2>4. Threshold(n) = IF n - w >= 0 THEN n - w ELSE 0
        BY <1>1, WindowNumbers
    <2> SUFFICES ASSUME NEW p \in Int, n - w <= p, p < n, 0 <= p PROVE p \in DOMAIN st.swa
        BY <1>1 DEF Has
    <2>5. p \in a..(L - 1)
        BY <1>1, <1>4, <2>1, <2>3, <2>4
    <2> QED
        BY <1>2, <2>3, <2>5 DEF Gapless
<1> QED
    BY <1>1, <1>3, <1>4

(* A checkpoint that was restored, and so many tokens with it.              *)
LEMMA RestoredSees ==
    ASSUME setup \in Setups, setup.window > 0, NEW c, Reaching(c), NEW n \in Nat,
           PosMin(c) < Threshold(n),
           NEW m, m = Min({n, Max({PosMin(c) + 1, PosMax(c)})}), NEW k \in Nat,
           k = m \/ (k = m - 1 /\ m = n)
    PROVE  Gapless(c, k) /\ Sees(c, k)
<1>1. PICK w \in Nat : w = setup.window /\ Window = w /\ w > 0
    BY SetupTypes, WindowNumbers
<1>2. c \in CellMaps /\ c # None /\ Reaches(c, PosMax(c) + 1)
    BY DEF Reaching, Ckpts
<1>3. PICK a \in Nat, b \in Nat : a = PosMin(c) /\ b = PosMax(c) /\ a <= b /\ a \in DOMAIN c
    BY <1>2, PosEnds
<1>4. Threshold(n) = IF n - w >= 0 THEN n - w ELSE 0
    BY <1>1, WindowNumbers
<1>5. a < n - w
    BY <1>3, <1>4
<1>6. PICK x \in Nat : x = Max({a + 1, b}) /\ x = IF a + 1 >= b THEN a + 1 ELSE b
    <2>1. Max({a + 1, b}) = IF a + 1 >= b THEN a + 1 ELSE b
        BY MaxOfTwo
    <2> QED
        BY <2>1
<1>7. m = IF n <= x THEN n ELSE x
    <2>1. PICK y : y = Max({PosMin(c) + 1, PosMax(c)})
        OBVIOUS
    <2>2. y = x
        BY <1>3, <1>6, <2>1
    <2>3. m = Min({n, x})
        BY <2>1, <2>2
    <2> QED
        BY <2>3, MinOfTwo
<1>8. Gapless(c, b + 1) /\ Whole(c, b + 1)
    BY <1>2, <1>3 DEF Reaches
<1>9. k <= b + 1
    BY <1>1, <1>3, <1>5, <1>6, <1>7
<1>10. Gapless(c, k)
    BY <1>2, <1>8, <1>9, GaplessPrefix
<1>11. Has(c, b + 1 - w, b + 1)
    <2>1. PICK e \in Int : e = b + 1
        OBVIOUS
    <2>2. Has(c, e - w, e)
        BY <1>1, <1>8, <2>1, WindowParts
    <2> QED
        BY <2>1, <2>2
<1>12. Has(c, k - w + 1, k)
    <2> SUFFICES ASSUME NEW p \in Int, k - w + 1 <= p, p < k, 0 <= p PROVE p \in DOMAIN c
        BY DEF Has
    <2>1. CASE m = n
        <3>1. p \in a..(b + 1 - 1)
            BY <1>3, <1>5, <1>6, <1>7, <1>9, <2>1
        <3> QED
            BY <1>3, <1>8, <3>1 DEF Gapless
    <2>2. CASE m # n
        <3>1. k = x /\ k = m
            BY <1>7, <2>2
        <3>2. k >= b /\ k <= b + 1
            BY <1>3, <1>6, <1>9, <3>1
        <3>3. b + 1 - w <= p /\ p < b + 1
            BY <3>2
        <3> QED
            BY <1>11, <3>3 DEF Has
    <2> QED
        BY <2>1, <2>2
<1> QED
    BY <1>1, <1>10, <1>12, WindowParts

LEMMA KeptSees ==
    ASSUME setup \in Setups, setup.window > 0, NEW s, SlotState(s) \in RightStates,
           SlotState(s) \in ReachStates, task[s] \in Requests, NEW kept \in Kept(s)
    PROVE  /\ kept \in PromptStates /\ kept.ckpts \in Seq(ReachCkpts)
           /\ Gapless(kept.swa, Len(kept.tokens)) /\ Sees(kept.swa, Len(kept.tokens))
<1>1. PICK st : st = SlotState(s)
    OBVIOUS
<1>2. PICK r \in Requests : r = task[s]
    OBVIOUS
<1>3. PICK re : re = Reused(s)
    OBVIOUS
<1>4. st \in PromptStates /\ Reuses(re, st, r.prompt)
    BY <1>1, <1>2, <1>3, ReusedReuses DEF RightStates
<1>5. PICK w \in Restored(re.st, re.nPast) : KeptOf(kept, re, w, r)
    BY <1>2, <1>3 DEF Kept, KeptOf
<1>6. PICK n : n = re.nPast
    OBVIOUS
<1>7. re.st = st /\ n \in Nat /\ n <= Len(st.tokens) /\ n <= Len(r.prompt)
    BY <1>4, <1>6 DEF Reuses
<1>8. /\ kept \in PromptStates
      /\ kept.swa = w[1] /\ kept.ckpts = Valid(st, n)
      /\ Len(kept.tokens) = EvaluatesOne(w[2], r)
      /\ w[2] \in Nat /\ w[2] <= n /\ EvaluatesOne(w[2], r) \in Nat
    BY <1>4, <1>5, <1>6, <1>7, KeptFields
<1>9. Reaches(st.swa, Len(st.tokens)) /\ st.ckpts \in Seq(ReachCkpts) /\ st.swa \in CellMaps
    BY <1>1, StateTypes DEF ReachStates
<1>10. kept.ckpts \in Seq(ReachCkpts)
    BY <1>4, <1>8, <1>9, ValidElements
<1>11. PICK k \in Nat : k = EvaluatesOne(w[2], r)
    BY <1>8
<1>12. k <= w[2] /\ (k # w[2] => w[2] = Len(r.prompt) /\ k = w[2] - 1)
    <2>1. w[2] <= Len(r.prompt)
        <3>1. Len(r.prompt) \in Nat
            BY PromptTypes
        <3> QED
            BY <1>7, <1>8, <3>1
    <2> QED
        BY <1>8, <1>11, <2>1, EvaluatesOneBound
<1>13. CASE w[2] = 0 /\ w[1] = st.swa
    <2>1. k = 0
        BY <1>12, <1>13
    <2>2. Gapless(st.swa, 0) /\ Sees(st.swa, 0)
        BY <1>9, ReachNothing
    <2> QED
        BY <1>8, <1>10, <1>11, <1>13, <2>1, <2>2
<1>14. CASE ~LacksWindow(st, n) /\ w[2] = n /\ w[1] = st.swa /\ n > 0
    <2>1. Has(st.swa, n - setup.window, n)
        BY <1>4, <1>7, <1>9, <1>14, UnrestoredSees
    <2>2. k = n \/ k = n - 1
        BY <1>12, <1>14
    <2>3. Sees(st.swa, k)
        BY <1>7, <1>9, <2>1, <2>2, PrefixSees
    <2>4. Gapless(st.swa, k)
        <3>1. Len(st.tokens) \in Int /\ k <= Len(st.tokens)
            BY <1>4, <1>7, <2>2, StateTypes
        <3> QED
            BY <1>9, <3>1, GaplessPrefix DEF Reaches
    <2> QED
        BY <1>8, <1>10, <1>11, <1>14, <2>3, <2>4
<1>15. CASE LacksWindow(st, n) /\ Usable(st, n) # {} /\ w # <<st.swa, 0>>
    <2>1. PICK i : i = Max(Usable(st, n))
        OBVIOUS
    <2>2. PICK c : c = st.ckpts[i]
        OBVIOUS
    <2>3. w = <<c, Min({n, Max({PosMin(c) + 1, PosMax(c)})})>>
        BY <1>6, <1>7, <1>15, <2>1, <2>2 DEF Restored
    <2>4. i \in Usable(st, n)
        <3>1. Len(st.ckpts) \in Nat /\ Usable(st, n) \subseteq Nat /\ \A j \in Usable(st, n) : j <= Len(st.ckpts)
            BY <1>4, StateTypes DEF Usable
        <3> QED
            BY <1>15, <2>1, <3>1, MaxIsElement
    <2>5. i \in 1..Len(st.ckpts) /\ PosMin(c) < Threshold(n)
        BY <2>2, <2>4 DEF Usable
    <2>6. Reaching(c)
        BY <1>9, <2>2, <2>5, ElementOfSeq DEF ReachCkpts
    <2>7. PICK m \in Nat : m = w[2] /\ m = Min({n, Max({PosMin(c) + 1, PosMax(c)})})
        BY <1>8, <2>3
    <2>8. k = m \/ (k = m - 1 /\ m = n)
        <3>1. Len(r.prompt) \in Nat
            BY PromptTypes
        <3> QED
            BY <1>7, <1>8, <1>12, <2>7, <3>1
    <2>9. Gapless(c, k) /\ Sees(c, k)
        BY <1>7, <2>5, <2>6, <2>7, <2>8, RestoredSees
    <2>10. kept.swa = c
        BY <1>8, <2>3
    <2> QED
        BY <1>8, <1>10, <1>11, <2>9, <2>10
<1>16. \/ w = <<st.swa, 0>>
       \/ ~LacksWindow(st, n) /\ w = <<st.swa, n>>
       \/ LacksWindow(st, n) /\ Usable(st, n) # {} /\ w # <<st.swa, 0>>
    BY <1>6, <1>7 DEF Restored
<1> QED
    BY <1>7, <1>13, <1>14, <1>15, <1>16

-----------------------------------------------------------------------------
(* The second invariant: unless a window one position short was kept, every *)
(* prompt reaches back a whole window.                                      *)
Full == thin = FALSE => AllIn(ReachStates)

LEMMA InitFull == Init => Full
<1> SUFFICES ASSUME Init PROVE Full
    OBVIOUS
<1>1. setup \in Setups
    BY DEF Init
<1>2. ASSUME NEW s \in Slots PROVE SlotState(s) \in ReachStates
    <2>1. SlotState(s) = [tokens |-> <<>>, ckpts |-> <<>>, base |-> None, swa |-> None]
        BY DEF Init, SlotState
    <2>2. PICK st : st = SlotState(s)
        OBVIOUS
    <2>3. st \in PromptStates /\ st.swa = None /\ st.ckpts = <<>> /\ Len(st.tokens) = 0
        BY <2>1, <2>2, NoneIsMap, EmptySeq DEF PromptStates
    <2>4. Reaches(None, 0)
        BY <1>1, NoneIsMap, ReachNothing
    <2>5. st.ckpts \in Seq(ReachCkpts)
        BY <2>3, EmptySeq
    <2> QED
        BY <2>2, <2>3, <2>4, <2>5 DEF ReachStates
<1>3. cache = <<>> /\ file = {}
    BY DEF Init
<1>4. cache \in Seq(ReachStates)
    BY <1>3, EmptySeq
<1>5. AllIn(ReachStates)
    BY <1>2, <1>3, <1>4 DEF AllIn
<1> QED
    BY <1>5 DEF Full

LEMMA CutSees ==
    ASSUME setup \in Setups, setup.window > 0, NEW st \in PromptStates, st.ckpts \in Seq(ReachCkpts),
           Gapless(st.swa, Len(st.tokens)), Sees(st.swa, Len(st.tokens)),
           NEW x \in CutAt(st, Len(st.tokens))
    PROVE  /\ x \in PromptStates /\ x.ckpts = st.ckpts
           /\ Gapless(x.swa, Len(x.tokens)) /\ Sees(x.swa, Len(x.tokens))
<1>1. PICK n \in Nat, w \in Nat : n = Len(st.tokens) /\ w = setup.window
    BY StateTypes, SetupTypes
<1>2. CASE x = Blank(st)
    <2>1. None \in CellMaps /\ <<>> \in Seq(Tokens) /\ Len(<<>>) = 0
        BY NoneIsMap, EmptySeq
    <2>2. x \in PromptStates /\ x.tokens = <<>> /\ x.ckpts = st.ckpts /\ x.swa = None
        BY <1>2, <2>1 DEF Blank, PromptStates
    <2>3. Gapless(None, 0) /\ Sees(None, 0)
        BY <2>1, ReachNothing
    <2> QED
        BY <2>1, <2>2, <2>3
<1>3. CASE x \in PromptStates /\ CutFields(x, st, n)
    <2>1. x.ckpts = st.ckpts /\ x.tokens = st.tokens /\ DOMAIN x.swa = {q \in DOMAIN st.swa : q < n}
        BY <1>3 DEF CutFields, Restricts
    <2>2. Has(st.swa, n - w + 1, n)
        BY <1>1, WindowParts
    <2>3. Has(x.swa, n - w + 1, n)
        BY <2>1, <2>2 DEF Has
    <2>4. Gapless(x.swa, n)
        <3>1. \A q \in DOMAIN st.swa : q \in Int
            BY StateTypes, CellMap DEF Positions
        <3> SUFFICES ASSUME NEW q \in DOMAIN x.swa, NEW p \in q..(n - 1) PROVE p \in DOMAIN x.swa
            BY DEF Gapless
        <3>2. q \in DOMAIN st.swa /\ p < n
            BY <2>1, <3>1
        <3>3. p \in DOMAIN st.swa
            BY <1>1, <3>2 DEF Gapless
        <3> QED
            BY <2>1, <3>2, <3>3
    <2>5. Sees(x.swa, n)
        BY <1>1, <2>3, WindowParts
    <2> QED
        BY <1>1, <1>3, <2>1, <2>4, <2>5
<1> QED
    BY <1>1, <1>2, <1>3, CutAtCuts

LEMMA CkptReaches ==    \* what a checkpoint is taken of
    ASSUME setup \in Setups, setup.window > 0, NEW st \in PromptStates, Within(st), st.swa # None,
           Gapless(st.swa, Len(st.tokens)), Whole(st.swa, Len(st.tokens))
    PROVE  st.swa \in ReachCkpts
<1>1. PICK n \in Nat, w \in Nat : n = Len(st.tokens) /\ w = setup.window /\ w > 0
    BY StateTypes, SetupTypes
<1>2. PICK b \in Nat : b = PosMax(st.swa) /\ b \in DOMAIN st.swa /\ \A p \in DOMAIN st.swa : p <= b
    BY StateTypes, PosEnds
<1>3. b <= n - 1
    BY <1>1, <1>2 DEF Within
<1>4. Has(st.swa, n - w, n)
    BY <1>1, WindowParts
<1>5. n - 1 \in DOMAIN st.swa
    <2>1. n - 1 \in Int /\ n - w <= n - 1 /\ n - 1 < n /\ 0 <= n - 1
        BY <1>1, <1>3
    <2> QED
        BY <1>4, <2>1 DEF Has
<1>6. b + 1 = n
    <2>1. n - 1 <= b
        BY <1>2, <1>5
    <2> QED
        BY <1>3, <2>1
<1>7. Reaches(st.swa, PosMax(st.swa) + 1)
    BY <1>1, <1>2, <1>6 DEF Reaches
<1> QED
    BY <1>7, StateTypes DEF ReachCkpts, Reaching, Ckpts

LEMMA PassReaches ==
    ASSUME Reusable, Full, NEW s \in Slots, state[s] # "idle", NEW kept \in RightStates,
           Len(kept.tokens) < Len(task[s].prompt), Pass(s, kept), thin' = FALSE,
           thin = FALSE /\ setup.window > 0 =>
              kept.ckpts \in Seq(ReachCkpts) /\ Gapless(kept.swa, Len(kept.tokens)) /\ Sees(kept.swa, Len(kept.tokens))
    PROVE  thin = FALSE /\ \E x \in ReachStates : SetSlot(s, x)
<1>2. PICK cut, to, st, after : PassOf(s, kept, cut, to, st, after)
    BY PassSteps, ReusableFacts
<1>3. PICK total \in Nat : total = Len(task[s].prompt)
    BY ReusableFacts, PromptTypes DEF Works
<1>4. PICK toks : toks = SubSeq(task[s].prompt, Len(cut.tokens) + 1, to)
    OBVIOUS
<1>5. setup \in Setups /\ lora[s] \in Loras /\ task[s] \in Requests
    BY ReusableFacts DEF Works
<1>6. /\ cut \in RightStates /\ Within(cut)
      /\ st \in RightStates /\ Within(st) /\ st.tokens = cut.tokens
      /\ after \in RightStates /\ Len(after.tokens) = to
      /\ Len(cut.tokens) \in Nat /\ to \in Len(cut.tokens)..total
      /\ toks \in Seq(Tokens) /\ Len(toks) = to - Len(cut.tokens)
    BY <1>2, <1>3, <1>4, <1>5, PassRight
<1>7. /\ SetSlot(s, after) /\ after \in Decoded(s, st, toks)
      /\ cut \in CutAt(kept, Len(kept.tokens))
      /\ st = IF to = total THEN WithCkpt(cut) ELSE cut
    BY <1>2, <1>3, <1>4 DEF PassOf
<1>8. thin = FALSE /\ ~TakesThin(cut, to, to = total)
    <2>1. thin' = (thin \/ TakesThin(cut, to, to = total))
        BY <1>2, <1>3 DEF PassOf
    <2>2. thin \in BOOLEAN
        BY DEF Reusable, Types
    <2> QED
        BY <2>1, <2>2, Zenon
<1>9. after \in ReachStates
    <2>1. after \in PromptStates /\ cut \in PromptStates /\ kept \in PromptStates /\ st \in PromptStates
        BY <1>6 DEF RightStates
    <2> SUFFICES ASSUME setup.window > 0
                 PROVE  Reaches(after.swa, Len(after.tokens)) /\ after.ckpts \in Seq(ReachCkpts)
        BY <2>1 DEF ReachStates
    <2>2. /\ cut.ckpts \in Seq(ReachCkpts)
          /\ Gapless(cut.swa, Len(cut.tokens)) /\ Sees(cut.swa, Len(cut.tokens))
        BY <1>5, <1>7, <1>8, <2>1, CutSees
    <2>3. ~Whole(cut.swa, Len(cut.tokens)) => to # Len(cut.tokens) /\ (to = total => ~TakesCkpt(cut))
        BY <1>8 DEF TakesThin
    <2>4. st.ckpts \in Seq(ReachCkpts) /\ st.swa = cut.swa
        <3>1. CASE st = cut
            BY <2>2, <3>1
        <3>2. CASE to = total /\ st # cut
            <4>1. TakesCkpt(cut)
                BY <1>7, <3>2 DEF WithCkpt
            <4>2. Whole(cut.swa, Len(cut.tokens)) /\ cut.swa # None
                BY <2>3, <3>2, <4>1 DEF TakesCkpt
            <4>3. cut.swa \in ReachCkpts
                BY <1>5, <1>6, <2>1, <2>2, <4>2, CkptReaches
            <4>4. Len(cut.ckpts) <= setup.maxCkpt /\ ReachCkpts \in SUBSET Ckpts
                BY <1>6 DEF RightStates, Right, ReachCkpts
            <4>5. WithCkpt(cut).ckpts \in Seq(ReachCkpts) /\ WithCkpt(cut).swa = cut.swa
                BY <1>5, <2>1, <2>2, <4>3, <4>4, WithCkptFields
            <4> QED
                BY <1>7, <3>2, <4>5
        <3> QED
            BY <1>7, <3>1, <3>2
    <2>5. Len(st.tokens) + Len(toks) = to /\ Len(st.tokens) + Len(toks) <= NCtx
        <3>1. total < NCtx
            BY <1>3, <1>5, PromptTypes
        <3> QED
            BY <1>6, <3>1, Numbers
    <2>6. Len(toks) > 0 \/ Whole(st.swa, Len(st.tokens))
        BY <1>6, <2>3, <2>4
    <2>7. Reaches(after.swa, Len(st.tokens) + Len(toks)) /\ after.ckpts = st.ckpts
        BY <1>5, <1>6, <1>7, <2>1, <2>2, <2>4, <2>5, <2>6, DecodedReaches
    <2> QED
        BY <1>6, <2>4, <2>5, <2>7
<1> QED
    BY <1>7, <1>8, <1>9

LEMMA FullFacts ==
    ASSUME Reusable, Full, thin = FALSE, setup.window > 0, NEW s \in Slots
    PROVE  /\ SlotState(s) \in ReachStates
           /\ SlotState(s).ckpts \in Seq(ReachCkpts)
           /\ Gapless(SlotState(s).swa, Len(SlotState(s).tokens))
           /\ Whole(SlotState(s).swa, Len(SlotState(s).tokens))
           /\ Sees(SlotState(s).swa, Len(SlotState(s).tokens))
<1>1. SlotState(s) \in ReachStates
    BY DEF Full, AllIn
<1>2. PICK st \in ReachStates : st = SlotState(s)
    BY <1>1
<1>3. /\ st \in PromptStates /\ st.ckpts \in Seq(ReachCkpts)
      /\ Gapless(st.swa, Len(st.tokens)) /\ Whole(st.swa, Len(st.tokens))
    BY DEF ReachStates, Reaches
<1>4. Len(st.tokens) \in Int /\ setup \in Setups
    BY <1>3, StateTypes, ReusableFacts
<1>5. Sees(st.swa, Len(st.tokens))
    BY <1>3, <1>4, ReachSees
<1> QED
    BY <1>1, <1>2, <1>3, <1>5

LEMMA StartPromptReaches ==
    ASSUME Reusable, Full, NEW s \in Slots, StartPrompt(s), thin' = FALSE
    PROVE  thin = FALSE /\ \E x \in ReachStates : SetSlot(s, x)
<1>1. state[s] = "started"
    BY DEF StartPrompt
<1>2. PICK kept \in Kept(s) : Pass(s, kept)
    BY DEF StartPrompt
<1>3. setup \in Setups /\ SlotState(s) \in RightStates /\ task[s] \in Requests
    BY <1>1, ReusableFacts DEF Works
<1>4. kept \in RightStates /\ Len(kept.tokens) < Len(task[s].prompt)
    BY <1>3, KeptRight
<1>5. ASSUME thin = FALSE, setup.window > 0
      PROVE  kept.ckpts \in Seq(ReachCkpts) /\ Gapless(kept.swa, Len(kept.tokens)) /\ Sees(kept.swa, Len(kept.tokens))
    BY <1>3, <1>5, FullFacts, KeptSees
<1> QED
    BY <1>1, <1>2, <1>4, <1>5, PassReaches

LEMMA FillPromptReaches ==
    ASSUME Reusable, Full, NEW s \in Slots, FillPrompt(s), thin' = FALSE
    PROVE  thin = FALSE /\ \E x \in ReachStates : SetSlot(s, x)
<1>1. state[s] = "prompt" /\ Pass(s, SlotState(s))
    BY DEF FillPrompt
<1>2. PICK st \in RightStates : st = SlotState(s)
    BY ReusableFacts
<1>3. Len(st.tokens) < Len(task[s].prompt)
    <2>1. Len(tokens[s]) < Len(task[s].prompt)
        BY <1>1, ReusableFacts DEF Works
    <2> QED
        BY <1>2, <2>1 DEF SlotState
<1>4. ASSUME thin = FALSE, setup.window > 0
      PROVE  st.ckpts \in Seq(ReachCkpts) /\ Gapless(st.swa, Len(st.tokens)) /\ Sees(st.swa, Len(st.tokens))
    BY <1>2, <1>4, FullFacts
<1> QED
    BY <1>1, <1>2, <1>3, <1>4, PassReaches

LEMMA GenerateReaches ==
    ASSUME Reusable, Full, NEW s \in Slots, NEW t \in Sampled, Generate(s, t), thin = FALSE
    PROVE  \E x \in ReachStates : SetSlot(s, x)
<1>1. state[s] = "generating" /\ Len(tokens[s]) + 1 < NCtx
    BY DEF Generate
<1>2. PICK after \in Decoded(s, SlotState(s), <<t>>) : SetSlot(s, after)
    BY DEF Generate
<1>3. PICK st \in RightStates : st = SlotState(s)
    BY ReusableFacts
<1>4. /\ Within(st) /\ setup \in Setups /\ lora[s] \in Loras /\ st.tokens = tokens[s]
      /\ st \in PromptStates
    BY <1>1, <1>3, ReusableFacts DEF Works, SlotState
<1>5. PICK toks \in Seq(Tokens) : toks = <<t>> /\ Len(toks) = 1
    <2>1. t \in Tokens
        BY DEF Tokens
    <2> QED
        BY <2>1, OneToken
<1>6. Len(st.tokens) + Len(toks) <= NCtx
    <2>1. Len(st.tokens) \in Nat
        BY <1>4, StateTypes
    <2> QED
        BY <1>1, <1>4, <1>5, <2>1, Numbers
<1>7. after \in RightStates /\ Len(after.tokens) = Len(st.tokens) + Len(toks)
    BY <1>2, <1>3, <1>4, <1>5, <1>6, DecodedRight
<1>8. after \in ReachStates
    <2>1. after \in PromptStates
        BY <1>7 DEF RightStates
    <2> SUFFICES ASSUME setup.window > 0
                 PROVE  Reaches(after.swa, Len(after.tokens)) /\ after.ckpts \in Seq(ReachCkpts)
        BY <2>1 DEF ReachStates
    <2>2. st.ckpts \in Seq(ReachCkpts) /\ Gapless(st.swa, Len(st.tokens)) /\ Sees(st.swa, Len(st.tokens))
        BY <1>3, FullFacts
    <2>3. Len(toks) > 0
        BY <1>5
    <2>4. Reaches(after.swa, Len(st.tokens) + Len(toks)) /\ after.ckpts = st.ckpts
        BY <1>2, <1>3, <1>4, <1>5, <1>6, <2>2, <2>3, DecodedReaches
    <2> QED
        BY <1>7, <2>2, <2>4
<1> QED
    BY <1>2, <1>8

LEMMA ShiftSets ==    \* without a window
    ASSUME Reusable, NEW s \in Slots, ShiftContext(s)
    PROVE  setup.window = 0 /\ \E x \in PromptStates : SetSlot(s, x)
<1>1. state[s] = "generating" /\ setup.shiftable
    BY DEF ShiftContext
<1>2. PICK st \in RightStates : st = SlotState(s)
    BY ReusableFacts
<1>3. Within(st) /\ setup \in Setups /\ setup.window = 0 /\ st.tokens = tokens[s]
    BY <1>1, <1>2, ReusableFacts, SetupTypes DEF Works, SlotState
<1>4. PICK n \in Nat : n = Len(st.tokens)
    BY StateTypes DEF RightStates
<1>5. PICK d \in Nat : d = n \div 2 /\ d <= n
    OBVIOUS
<1>6. PICK x : x = Shifted(st, n, d)
    OBVIOUS
<1>7. SetSlot(s, x)
    BY <1>2, <1>3, <1>4, <1>5, <1>6 DEF ShiftContext, Shifted
<1>8. x \in RightStates
    BY <1>3, <1>4, <1>5, <1>6, ShiftRight
<1> QED
    BY <1>3, <1>7, <1>8 DEF RightStates

LEMMA ReachMixes == Mixes(ReachStates)
<1>1. ASSUME NEW x \in ReachStates, NEW c \in Seq(Ckpts), setup.window > 0 => c \in Seq(ReachCkpts)
      PROVE  Mixed(x, c) \in ReachStates
    <2>1. x \in PromptStates /\ (setup.window > 0 => Reaches(x.swa, Len(x.tokens)))
        BY DEF ReachStates
    <2>2. PICK m : m = Mixed(x, c)
        OBVIOUS
    <2>3. m \in PromptStates /\ m.tokens = x.tokens /\ m.swa = x.swa /\ m.ckpts = c
        BY <2>1, <2>2 DEF Mixed, PromptStates
    <2> QED
        BY <1>1, <2>1, <2>2, <2>3 DEF ReachStates
<1>2. \A y \in ReachStates : y.ckpts \in Seq(Ckpts) /\ (setup.window > 0 => y.ckpts \in Seq(ReachCkpts))
    BY DEF ReachStates, PromptStates
<1>3. <<>> \in Seq(Ckpts) /\ <<>> \in Seq(ReachCkpts)
    BY EmptySeq
<1> QED
    BY <1>1, <1>2, <1>3 DEF Mixes

LEMMA WorkReaches ==
    ASSUME Reusable, Full, NEW s \in Slots, WorkStep(s), thin' = FALSE
    PROVE  thin = FALSE /\ \E x \in ReachStates : SetSlot(s, x)
<1>1. CASE StartPrompt(s) \/ FillPrompt(s)
    BY <1>1, StartPromptReaches, FillPromptReaches
<1>2. CASE ShiftContext(s)
    <2>1. thin' = thin
        BY <1>2 DEF ShiftContext
    <2>2. setup.window = 0 /\ \E x \in PromptStates : SetSlot(s, x)
        BY <1>2, ShiftSets
    <2>3. setup.window = 0 => PromptStates \subseteq ReachStates
        BY DEF ReachStates
    <2> QED
        BY <2>1, <2>2, <2>3
<1>3. CASE \E t \in Sampled : Generate(s, t)
    <2>1. thin' = thin
        BY <1>3 DEF Generate
    <2> QED
        BY <1>3, <2>1, GenerateReaches
<1> QED
    BY <1>1, <1>2, <1>3 DEF WorkStep

(* The inductive step.                                                      *)
LEMMA NextFull ==
    ASSUME Reusable, Full, [Next]_vars
    PROVE  Full'
<1> SUFFICES ASSUME thin' = FALSE PROVE AllIn(ReachStates)'
    BY DEF Full
<1>1. thin = FALSE
    <2>1. CASE \E s \in Slots : WorkStep(s)
        BY <2>1, WorkReaches
    <2>2. CASE thin' = thin
        BY <2>2
    <2>3. (\E s \in Slots : WorkStep(s)) \/ thin' = thin
        BY DEF Next, WorkStep, Launch, Release, FailBatch, Purge, SaveSlot, RestoreSlot, EraseSlot,
               SlotAction, vars
    <2> QED
        BY <2>1, <2>2, <2>3
<1>2. setup' = setup
    BY WorkStepSame, ReusableFacts
       DEF Next, WorkStep, Launch, Release, FailBatch, Purge, SaveSlot, RestoreSlot, EraseSlot,
           SlotAction, vars
<1>3. PICK S : S = ReachStates
    OBVIOUS
<1>4. S \subseteq PromptStates /\ Clears(S) /\ Mixes(S) /\ AllIn(S)
    BY <1>1, <1>3, ReusableFacts, ReachClears, ReachMixes DEF Full
<1>5. \A s \in Slots : WorkStep(s) => \E x \in S : SetSlot(s, x)
    BY <1>3, WorkReaches
<1>6. AllIn(S)'
    BY <1>4, <1>5, StepIn
<1>7. ReachStates' = S
    BY <1>2, <1>3, SameReach
<1> QED
    BY <1>6, <1>7 DEF AllIn

(* Where a slot goes on, it sees its window.                                *)
LEMMA FullSees == Reusable /\ Full => WindowReaches
<1> SUFFICES ASSUME Reusable, Full, setup.window > 0, ~thin,
                    NEW s \in Slots, NEW st \in GoesOnWith(s)
             PROVE  Sees(st.swa, Len(st.tokens))
    BY DEF WindowReaches
<1>1. thin = FALSE
    <2>1. thin \in BOOLEAN
        BY DEF Reusable, Types
    <2> QED
        BY <2>1, Zenon
<1>2. CASE state[s] = "started"
    <2>1. st \in Kept(s)
        BY <1>2 DEF GoesOnWith
    <2>2. setup \in Setups /\ SlotState(s) \in RightStates /\ task[s] \in Requests
        BY <1>2, ReusableFacts DEF Works
    <2> QED
        BY <1>1, <2>1, <2>2, FullFacts, KeptSees
<1>3. CASE state[s] # "started"
    <2>1. st = SlotState(s)
        BY <1>3 DEF GoesOnWith
    <2> QED
        BY <1>1, <2>1, FullFacts
<1> QED
    BY <1>2, <1>3

(* update_slots goes on only where the window reaches back as far as the    *)
(* next token looks, whichever of the prefix, the prefix without its last   *)
(* token and a checkpoint it goes on from, unless a window one position short *)
(* was kept as a checkpoint or through a batch without room.                *)
THEOREM WindowAlwaysReaches == Spec => []WindowReaches
<1>1. Init => Reusable /\ Full
    BY InitReusable, InitFull
<1>2. (Reusable /\ Full) /\ [Next]_vars => (Reusable /\ Full)'
    BY NextReusable, NextFull
<1>3. Reusable /\ Full => WindowReaches
    BY FullSees
<1> QED
    BY <1>1, <1>2, <1>3, PTL DEF Spec

-----------------------------------------------------------------------------
(* Where there are tokens there is memory.  With a window that is more than *)
(* can be read off the cells of full attention.                             *)
HeldStates == {st \in PromptStates : setup.window > 0 /\ st.tokens # <<>> => st.swa # None}
Held == setup.slots <= NBatch => AllIn(HeldStates)

LEMMA HeldClears == HeldStates \subseteq PromptStates /\ Clears(HeldStates) /\ Mixes(HeldStates)
<1>1. ASSUME NEW st \in PromptStates PROVE Blank(st) \in HeldStates /\ Nameless(st) \in HeldStates
    <2>1. None \in CellMaps /\ <<>> \in Seq(Tokens)
        BY NoneIsMap, EmptySeq
    <2>2. Blank(st) \in PromptStates /\ Blank(st).tokens = <<>>
        BY <2>1 DEF Blank, PromptStates
    <2>3. Nameless(st) \in PromptStates /\ Nameless(st).tokens = <<>>
        BY <2>1 DEF Nameless, PromptStates
    <2> QED
        BY <2>2, <2>3 DEF HeldStates
<1>2. ASSUME NEW x \in HeldStates, NEW c \in Seq(Ckpts) PROVE Mixed(x, c) \in HeldStates
    <2>1. x \in PromptStates /\ (setup.window > 0 /\ x.tokens # <<>> => x.swa # None)
        BY DEF HeldStates
    <2>2. PICK m : m = Mixed(x, c)
        OBVIOUS
    <2>3. m \in PromptStates /\ m.tokens = x.tokens /\ m.swa = x.swa
        BY <2>1, <2>2 DEF Mixed, PromptStates
    <2> QED
        BY <2>1, <2>2, <2>3 DEF HeldStates
<1>3. <<>> \in Seq(Ckpts) /\ \A y \in HeldStates : y.ckpts \in Seq(Ckpts)
    BY EmptySeq DEF HeldStates, PromptStates
<1>4. HeldStates \subseteq PromptStates
    BY DEF HeldStates
<1> QED
    BY <1>1, <1>2, <1>3, <1>4 DEF Clears, Mixes

LEMMA DecodedHolds ==    \* the last of the tokens is in the window
    ASSUME setup \in Setups, setup.window > 0, NEW s \in Slots, lora[s] \in Loras, NEW st \in PromptStates,
           NEW toks \in Seq(Tokens), Len(st.tokens) + Len(toks) <= NCtx, Len(toks) > 0,
           NEW after \in Decoded(s, st, toks)
    PROVE  after \in HeldStates
<1>1. PICK n \in Nat, m \in Nat : n = Len(st.tokens) /\ m = Len(toks) /\ m > 0
    BY StateTypes, LenProperties
<1>2. PICK new : new = Computed(s, n, toks)
    OBVIOUS
<1>3. new \in CellMaps /\ DOMAIN new = n..(n + m - 1)
    BY <1>1, <1>2, ComputedCells
<1>4. DecodedFields(after, st, toks, new)
    BY <1>1, <1>2, DecodedHas
<1>5. PICK j : j = Joined(st.swa, new)
    OBVIOUS
<1>6. n + m - 1 \in DOMAIN j
    <2>1. DOMAIN j = DOMAIN st.swa \cup DOMAIN new
        BY <1>3, <1>5, StateTypes, JoinedCells
    <2> QED
        BY <1>1, <1>3, <2>1
<1>7. Threshold(n + m) <= n + m - 1
    <2>1. PICK w \in Nat : w = Window /\ w > 0
        BY WindowNumbers
    <2>2. Threshold(n + m) = IF n + m - w >= 0 THEN n + m - w ELSE 0
        BY <2>1, WindowNumbers
    <2> QED
        BY <1>1, <2>1, <2>2
<1>8. n + m - 1 \in DOMAIN after.swa
    <2>1. CASE after.swa = j
        BY <1>6, <2>1
    <2>2. CASE Shortens(after.swa, j, Threshold(n + m))
        BY <1>6, <1>7, <2>2 DEF Shortens, Restricts
    <2> QED
        BY <1>1, <1>4, <1>5, <2>1, <2>2 DEF DecodedFields
<1>9. after.swa # None /\ after \in PromptStates
    BY <1>4, <1>8, NoneIsMap DEF DecodedFields
<1> QED
    BY <1>9 DEF HeldStates

LEMMA PassHolds ==
    ASSUME Reusable, setup.slots <= NBatch, NEW s \in Slots, state[s] # "idle", NEW kept \in RightStates,
           Len(kept.tokens) < Len(task[s].prompt), Pass(s, kept)
    PROVE  \E x \in HeldStates : SetSlot(s, x)
<1>1. setup \in Setups /\ lora[s] \in Loras /\ task[s] \in Requests
    BY ReusableFacts DEF Works
<1>2. PICK cut, to, st, after : PassOf(s, kept, cut, to, st, after)
    BY <1>1, PassSteps
<1>3. PICK toks : toks = SubSeq(task[s].prompt, Len(cut.tokens) + 1, to)
    OBVIOUS
<1>4. PICK n \in Nat : n = Len(cut.tokens)
    BY <1>1, <1>2, PassRight
<1>5. PICK total \in Nat : total = Len(task[s].prompt) /\ total < NCtx
    BY <1>1, PromptTypes
<1>6. /\ to \in n..total /\ to > n
      /\ st \in RightStates /\ st.tokens = cut.tokens /\ after \in RightStates
      /\ toks \in Seq(Tokens) /\ Len(toks) = to - n
    BY <1>1, <1>2, <1>3, <1>4, <1>5, PassRight
<1>7. Len(toks) > 0 /\ Len(st.tokens) + Len(toks) <= NCtx
    BY <1>4, <1>5, <1>6, Numbers
<1>8. SetSlot(s, after) /\ after \in Decoded(s, st, toks)
    BY <1>2, <1>3 DEF PassOf
<1>9. after \in PromptStates /\ st \in PromptStates
    BY <1>6 DEF RightStates
<1>10. CASE setup.window > 0
    BY <1>1, <1>6, <1>7, <1>8, <1>9, <1>10, DecodedHolds
<1>11. CASE ~(setup.window > 0)
    BY <1>8, <1>9, <1>11 DEF HeldStates
<1> QED
    BY <1>10, <1>11

LEMMA WorkHolds ==
    ASSUME Reusable, setup.slots <= NBatch, NEW s \in Slots, WorkStep(s)
    PROVE  \E x \in HeldStates : SetSlot(s, x)
<1>1. CASE StartPrompt(s)
    <2>1. PICK kept \in Kept(s) : Pass(s, kept)
        BY <1>1 DEF StartPrompt
    <2>2. setup \in Setups /\ SlotState(s) \in RightStates /\ task[s] \in Requests /\ state[s] # "idle"
        BY <1>1, ReusableFacts DEF Works, StartPrompt
    <2>3. kept \in RightStates /\ Len(kept.tokens) < Len(task[s].prompt)
        BY <2>2, KeptRight
    <2> QED
        BY <2>1, <2>2, <2>3, PassHolds
<1>2. CASE FillPrompt(s)
    <2>1. state[s] = "prompt" /\ Pass(s, SlotState(s))
        BY <1>2 DEF FillPrompt
    <2>2. PICK st \in RightStates : st = SlotState(s)
        BY ReusableFacts
    <2>3. Len(st.tokens) < Len(task[s].prompt)
        BY <2>1, <2>2, ReusableFacts DEF Works, SlotState
    <2> QED
        BY <2>1, <2>2, <2>3, PassHolds
<1>3. CASE ShiftContext(s)
    <2>1. setup.window = 0 => PromptStates \subseteq HeldStates
        BY DEF HeldStates
    <2> QED
        BY <1>3, <2>1, ShiftSets
<1>4. CASE \E t \in Sampled : Generate(s, t)
    <2>1. PICK t \in Sampled : Generate(s, t)
        BY <1>4
    <2>2. state[s] = "generating" /\ Len(tokens[s]) + 1 < NCtx
        BY <2>1 DEF Generate
    <2>3. PICK st \in RightStates : st = SlotState(s)
        BY ReusableFacts
    <2>4. PICK toks \in Seq(Tokens) : toks = <<t>> /\ Len(toks) = 1
        <3>1. t \in Tokens
            BY DEF Tokens
        <3> QED
            BY <3>1, OneToken
    <2>5. PICK after \in Decoded(s, st, toks) : SetSlot(s, after)
        BY <2>1, <2>3, <2>4 DEF Generate
    <2>6. /\ Within(st) /\ setup \in Setups /\ lora[s] \in Loras /\ st.tokens = tokens[s]
          /\ st \in PromptStates
        BY <2>2, <2>3, ReusableFacts DEF Works, SlotState
    <2>7. Len(st.tokens) + Len(toks) <= NCtx
        <3>1. Len(st.tokens) \in Nat
            BY <2>6, StateTypes
        <3> QED
            BY <2>2, <2>4, <2>6, <3>1, Numbers
    <2>8. after \in PromptStates
        BY <2>6, <2>7, DecodedHas DEF DecodedFields
    <2>9. CASE setup.window > 0
        <3>1. Len(toks) > 0
            BY <2>4
        <3>2. after \in HeldStates
            BY <2>6, <2>7, <2>9, <3>1, DecodedHolds
        <3> QED
            BY <2>5, <3>2
    <2>10. CASE ~(setup.window > 0)
        BY <2>5, <2>8, <2>10 DEF HeldStates
    <2> QED
        BY <2>9, <2>10
<1> QED
    BY <1>1, <1>2, <1>3, <1>4 DEF WorkStep

LEMMA InitHeld == Init => Held
<1> SUFFICES ASSUME Init PROVE AllIn(HeldStates)
    BY DEF Held
<1>1. AllIn(RightStates)
    BY InitReusable DEF Reusable
<1>2. ASSUME NEW s \in Slots PROVE SlotState(s) \in HeldStates
    <2>1. SlotState(s) \in PromptStates
        BY <1>1 DEF AllIn, RightStates
    <2>2. SlotState(s).tokens = <<>>
        BY DEF Init, SlotState
    <2> QED
        BY <2>1, <2>2 DEF HeldStates
<1>3. cache \in Seq(HeldStates) /\ file = {}
    BY EmptySeq DEF Init
<1> QED
    BY <1>2, <1>3 DEF AllIn

LEMMA NextHeld ==
    ASSUME Reusable, Held, [Next]_vars
    PROVE  Held'
<1>1. setup' = setup
    BY WorkStepSame, ReusableFacts
       DEF Next, WorkStep, Launch, Release, FailBatch, Purge, SaveSlot, RestoreSlot, EraseSlot,
           SlotAction, vars
<1> SUFFICES ASSUME setup.slots <= NBatch PROVE AllIn(HeldStates)'
    BY <1>1 DEF Held
<1>2. PICK S : S = HeldStates
    OBVIOUS
<1>3. S \subseteq PromptStates /\ Clears(S) /\ Mixes(S) /\ AllIn(S)
    BY <1>2, HeldClears DEF Held
<1>4. \A s \in Slots : WorkStep(s) => \E x \in S : SetSlot(s, x)
    BY <1>2, WorkHolds
<1>5. AllIn(S)'
    BY <1>3, <1>4, StepIn
<1>6. HeldStates' = S
    BY <1>1, <1>2 DEF HeldStates
<1> QED
    BY <1>5, <1>6 DEF AllIn

LEMMA HeldMemory == Reusable /\ Held => MemoryIsThere
<1> SUFFICES ASSUME Reusable, Held, setup.slots <= NBatch, NEW s \in Slots, state[s] = "started",
                    0 < Reused(s).nPast, Reused(s).nPast < Len(Reused(s).st.tokens)
             PROVE  SeqCells(Reused(s).st.base, Reused(s).st.swa) # None
    BY DEF MemoryIsThere
<1>1. setup \in Setups /\ SlotState(s) \in RightStates /\ task[s] \in Requests
    BY ReusableFacts DEF Works
<1>2. PICK re : re = Reused(s)
    OBVIOUS
<1>3. PICK st \in HeldStates : st = SlotState(s)
    BY DEF Held, AllIn
<1>4. Reuses(re, st, task[s].prompt)
    BY <1>1, <1>2, <1>3, ReusedReuses
<1>5. CASE setup.window > 0
    <2>1. re.st = st
        BY <1>4, <1>5 DEF Reuses
    <2>2. Len(st.tokens) # 0
        <3>1. re.nPast \in Nat /\ Len(st.tokens) \in Nat
            BY <1>3, <1>4, StateTypes DEF Reuses, HeldStates
        <3> QED
            BY <1>2, <2>1, <3>1
    <2>3. st.swa # None
        BY <1>5, <2>2, EmptySeq DEF HeldStates
    <2> QED
        BY <1>2, <1>5, <2>1, <2>3 DEF SeqCells
<1>6. CASE ~(setup.window > 0)
    <2>1. re.nPast \in Nat /\ 0 \in 0..(re.nPast - 1)
        BY <1>2, <1>4 DEF Reuses
    <2>2. 0 \in DOMAIN re.st.base
        BY <1>4, <2>1 DEF Reuses
    <2>3. re.st.base # None
        BY <2>2, NoneIsMap
    <2> QED
        BY <1>2, <1>6, <2>3 DEF SeqCells
<1> QED
    BY <1>5, <1>6

(* update_slots never aborts for want of memory where it looks at the       *)
(* window of a prompt it reuses in part ("should not happen"), as long as   *)
(* the batch has a place for each slot.                                     *)
THEOREM NeverWithoutMemory == Spec => []MemoryIsThere
<1>1. Init => Reusable /\ Held
    BY InitReusable, InitHeld
<1>2. (Reusable /\ Held) /\ [Next]_vars => (Reusable /\ Held)'
    BY NextReusable, NextHeld
<1>3. Reusable /\ Held => MemoryIsThere
    BY HeldMemory
<1> QED
    BY <1>1, <1>2, <1>3, PTL DEF Spec

(* What reuse relies on of the memory: both of the above.                   *)
THEOREM WindowIsPresent == Spec => []WindowPresent
<1>1. WindowReaches /\ MemoryIsThere => WindowPresent
    BY DEF WindowPresent
<1> QED
    BY <1>1, WindowAlwaysReaches, NeverWithoutMemory, PTL

-----------------------------------------------------------------------------
(* The limits of the cache.  What update() leaves is an end of what there   *)
(* was, and the sum over an end is no more than the whole.                  *)
Limited(c, limit) ==
    Len(c) > 1 =>
        /\ limit > 0 => CacheSize(c) <= limit
        /\ LimitTokens > 0 => CacheTokens(c) <= Max({LimitTokens, limit})

LEMMA TotalOfSuffix ==
    ASSUME NEW f \in Seq(Nat), NEW n \in 0..Len(f)
    PROVE  Total(Suffix(f, n)) <= Total(f)
<1>1. PICK L \in Nat : L = Len(f)
    BY LenProperties
<1>2. PICK u \in Seq(Nat) : u = Suffix(f, n)
    BY SuffixElements
<1>3. Len(u) = L - n /\ \A k \in 1..(L - n) : u[k] = f[n + k]
    BY <1>1, <1>2, SuffixElements
<1>4. n \in 0..L /\ n \in Nat /\ L - n \in Nat
    BY <1>1
<1>5. PICK M \in Nat : M = L - n
    BY <1>4
<1>6. PICK g \in [0..L -> Nat] : IsTotal(g, f, L) /\ Total(f) = g[L]
    BY <1>1, TotalExists
<1>7. PICK h \in [0..M -> Nat] : IsTotal(h, u, M) /\ Total(u) = h[M]
    BY <1>3, <1>5, TotalExists
<1>8. \A i \in 0..L : g[i] = IF i = 0 THEN 0 ELSE g[i - 1] + f[i]
    BY <1>6 DEF IsTotal
<1>9. \A i \in 0..M : h[i] = IF i = 0 THEN 0 ELSE h[i - 1] + u[i]
    BY <1>7 DEF IsTotal
<1> DEFINE d == [k \in 0..M |-> g[n + k] - h[k]]
<1>10. PICK V : V = {g[n]}
    OBVIOUS
<1>11. d[0] \in V
    <2>1. g[n] \in Nat /\ n + 0 = n /\ h[0] = 0 /\ 0 \in 0..M
        BY <1>4, <1>5, <1>9
    <2> QED
        BY <2>1, <1>10
<1>12. ASSUME NEW k \in 1..M, d[k - 1] \in V PROVE d[k] \in V
    <2>1. k \in 0..M /\ k - 1 \in 0..M /\ k # 0 /\ n + k \in 0..L /\ n + k # 0
          /\ n + (k - 1) = (n + k) - 1 /\ (n + k) - 1 \in 0..L /\ k \in 1..(L - n) /\ n + k \in 1..L
        BY <1>1, <1>4, <1>5
    <2>2. h[k] = h[k - 1] + u[k] /\ u[k] = f[n + k]
        BY <2>1, <1>3, <1>9
    <2>3. g[n + k] = g[(n + k) - 1] + f[n + k]
        BY <2>1, <1>8
    <2>4. h[k] \in Nat /\ h[k - 1] \in Nat /\ g[n + k] \in Nat /\ g[(n + k) - 1] \in Nat /\ f[n + k] \in Nat
        BY <2>1, <1>1, <1>6, <1>7, ElementOfSeq
    <2>5. d[k] = g[n + k] - h[k] /\ d[k - 1] = g[(n + k) - 1] - h[k - 1]
        BY <2>1
    <2> HIDE DEF d
    <2>6. PICK h1 \in Nat, h0 \in Nat, g1 \in Nat, g0 \in Nat, x \in Nat :
            h1 = h[k] /\ h0 = h[k - 1] /\ g1 = g[n + k] /\ g0 = g[(n + k) - 1] /\ x = f[n + k]
        BY <2>4
    <2>7. d[k] = g1 - h1 /\ d[k - 1] = g0 - h0 /\ h1 = h0 + x /\ g1 = g0 + x
        BY <2>2, <2>3, <2>5, <2>6
    <2>8. g1 - h1 = g0 - h0
        BY <2>7
    <2> QED
        BY <1>12, <2>7, <2>8
<1>13. \A k \in 0..M : d[k] \in V
    <2> HIDE DEF d
    <2>1. \A k \in 1..M : d[k - 1] \in V => d[k] \in V
        BY <1>12
    <2> QED
        BY <1>11, <2>1, IterTypes
<1>14. M \in 0..M /\ n + M = L /\ L \in 0..L
    BY <1>1, <1>4, <1>5
<1>15. g[L] - h[M] = g[n]
    <2>1. d[M] = g[L] - h[M] /\ d[M] = g[n]
        BY <1>13, <1>14, <1>10
    <2> QED
        BY <2>1
<1>16. g[L] \in Nat /\ h[M] \in Nat /\ g[n] \in Nat
    BY <1>4, <1>6, <1>7, <1>14
<1>17. h[M] <= g[L]
    <2>1. PICK a \in Nat, b \in Nat, x \in Nat : a = g[L] /\ b = h[M] /\ x = g[n]
        BY <1>16
    <2>2. a - b = x
        BY <1>15, <2>1
    <2>3. b <= a
        BY <2>2
    <2> QED
        BY <2>1, <2>3
<1> QED
    BY <1>2, <1>6, <1>7, <1>17

LEMMA SuffixSizes ==
    ASSUME NEW c \in Seq(PromptStates), NEW n \in 0..Len(c)
    PROVE  CacheSize(Suffix(c, n)) <= CacheSize(c)
<1>1. PICK L \in Nat : L = Len(c)
    BY LenProperties
<1>2. PICK e \in Seq(PromptStates) : e = Suffix(c, n)
    BY SuffixElements
<1>3. Len(e) = L - n /\ \A k \in 1..(L - n) : e[k] = c[n + k]
    BY <1>1, <1>2, SuffixElements
<1>4. L - n \in Nat /\ n \in Nat
    BY <1>1
<1>5. PICK f \in Seq(Nat) : f = [i \in 1..L |-> StateSize(c[i])]
    BY <1>1, SizeTypes
<1>6. PICK u \in Seq(Nat) : u = [i \in 1..(L - n) |-> StateSize(e[i])]
    BY <1>3, SizeTypes
<1>7. Len(f) = L /\ Len(u) = L - n
    <2>1. DOMAIN f = 1..L /\ DOMAIN u = 1..(L - n)
        BY <1>5, <1>6
    <2> QED
        BY <2>1, <1>1, <1>4, LenProperties
<1>8. u = Suffix(f, n)
    <2>1. n \in 0..Len(f)
        BY <1>1, <1>7
    <2>2. PICK v \in Seq(Nat) : v = Suffix(f, n)
        BY <2>1, SuffixElements
    <2>3. /\ Len(Suffix(f, n)) = Len(f) - n
          /\ \A k \in 1..(Len(f) - n) : Suffix(f, n)[k] = f[n + k]
        BY <2>1, SuffixElements
    <2>4. Len(v) = L - n /\ \A k \in 1..(L - n) : v[k] = f[n + k]
        BY <1>7, <2>2, <2>3
    <2>5. ASSUME NEW k \in 1..(L - n) PROVE u[k] = v[k]
        <3>1. n + k \in 1..L
            BY <1>1, <1>4
        <3>2. u[k] = StateSize(e[k]) /\ f[n + k] = StateSize(c[n + k])
            BY <1>5, <1>6, <3>1
        <3> QED
            BY <1>3, <2>4, <3>2
    <2>6. u = v
        BY <1>7, <2>4, <2>5, SeqEqual
    <2> QED
        BY <2>2, <2>6
<1>9. Total(u) <= Total(f)
    BY <1>1, <1>7, <1>8, TotalOfSuffix
<1>10. CacheSize(c) = Total(f) /\ CacheSize(e) = Total(u)
    BY <1>1, <1>3, <1>5, <1>6 DEF CacheSize
<1> QED
    BY <1>2, <1>9, <1>10

(* The token limit is never above the limits it is made from.               *)
LEMMA Quotient ==
    ASSUME NEW a \in Nat \ {0}, NEW b \in Nat, NEW d \in Nat, b < d
    PROVE  (a * b) \div d \in Nat /\ (a * b) \div d <= a
<1>1. a * b \in Nat /\ d > 0
    OBVIOUS
<1>2. PICK q \in Nat : q = (a * b) \div d
    BY <1>1
<1>3. d * q <= a * b
    BY <1>1, <1>2
<1>4. a * b <= a * d
    OBVIOUS
<1>5. q <= a
    <2> SUFFICES ASSUME q > a PROVE FALSE
        OBVIOUS
    <2>1. d * q >= d * (a + 1)
        OBVIOUS
    <2>2. d * (a + 1) = d * a + d
        OBVIOUS
    <2>3. d * a = a * d
        OBVIOUS
    <2> QED
        BY <1>1, <1>3, <1>4, <2>1, <2>2, <2>3
<1> QED
    BY <1>2, <1>5

LEMMA TokenLimitBound ==
    ASSUME NEW c \in Seq(PromptStates), NEW limit \in Nat
    PROVE  /\ TokenLimit(c, limit) \in Nat /\ Max({LimitTokens, limit}) \in Nat
           /\ TokenLimit(c, limit) <= Max({LimitTokens, limit})
<1>1. PICK T \in Nat : T = LimitTokens
    BY Numbers
<1>2. PICK m : m = Max({T, limit})
    OBVIOUS
<1>3. m = IF T >= limit THEN T ELSE limit
    BY <1>2, MaxOfTwo
<1>4. CASE limit = 0
    <2>1. TokenLimit(c, limit) = T
        BY <1>1, <1>4 DEF TokenLimit
    <2> QED
        BY <1>1, <1>2, <1>3, <1>4, <2>1
<1>5. CASE limit # 0
    <2>1. PICK size \in Nat : size = CacheSize(c)
        BY SizeTypes
    <2>2. PICK k \in Nat : k = CacheTokens(c)
        BY SizeTypes
    <2>3. PICK n \in Nat : n = Max({1, k})
        <3>1. Max({1, k}) = IF 1 >= k THEN 1 ELSE k
            BY MaxOfTwo
        <3>2. Max({1, k}) \in Nat
            BY <3>1
        <3> QED
            BY <3>2
    <2>4. PICK v : v = IF size <= n THEN limit ELSE (limit * n) \div size
        OBVIOUS
    <2>5. v \in Nat /\ v <= limit
        <3>1. CASE size <= n
            BY <2>4, <3>1
        <3>2. CASE ~(size <= n)
            <4>1. (limit * n) \div size \in Nat /\ (limit * n) \div size <= limit
                BY <1>5, <3>2, Quotient
            <4> QED
                BY <2>4, <3>2, <4>1
        <3> QED
            BY <3>1, <3>2
    <2>6. TokenLimit(c, limit) = Max({T, v})
        BY <1>1, <1>5, <2>1, <2>2, <2>3, <2>4 DEF TokenLimit
    <2>7. Max({T, v}) = IF T >= v THEN T ELSE v
        BY <2>5, MaxOfTwo
    <2> QED
        BY <1>1, <1>2, <1>3, <2>5, <2>6, <2>7
<1> QED
    BY <1>4, <1>5

LEMMA UpdateLimits ==
    ASSUME NEW c \in Seq(PromptStates), NEW limit \in Nat
    PROVE  Limited(Update(c, limit), limit)
<1> DEFINE fit1 == {n \in 0..Len(c) : limit > 0 => CacheSize(Suffix(c, n)) <= limit}
           bySize == DropOldest(c, fit1)
           fit2 == {n \in 0..Len(bySize) : LimitTokens > 0 =>
                               CacheTokens(Suffix(bySize, n)) <= TokenLimit(bySize, limit)}
<1>1. Update(c, limit) = DropOldest(bySize, fit2)
    BY DEF Update
<1>2. fit1 \subseteq 0..Len(c) /\ fit2 \subseteq 0..Len(bySize)
    OBVIOUS
<1>3. \A n \in fit1 : limit > 0 => CacheSize(Suffix(c, n)) <= limit
    OBVIOUS
<1>4. \A n \in fit2 : LimitTokens > 0 => CacheTokens(Suffix(bySize, n)) <= TokenLimit(bySize, limit)
    OBVIOUS
<1> HIDE DEF fit1, fit2
<1>5. PICK n \in 0..Len(c) : bySize = Suffix(c, n) /\ (Len(c) - n <= 1 \/ n \in fit1)
    BY <1>2, DropOldestSuffix
<1> HIDE DEF bySize
<1>6. PICK b \in Seq(PromptStates) : b = bySize
    BY <1>5, SuffixElements
<1>7. Len(b) = Len(c) - n
    BY <1>5, <1>6, SuffixElements
<1>8. PICK m \in 0..Len(b) : DropOldest(b, fit2) = Suffix(b, m) /\ (Len(b) - m <= 1 \/ m \in fit2)
    BY <1>2, <1>6, DropOldestSuffix
<1>9. PICK r \in Seq(PromptStates) : r = Suffix(b, m)
    BY SuffixElements
<1>10. Len(r) = Len(b) - m
    BY <1>9, SuffixElements
<1>11. Len(b) \in Nat /\ Len(c) \in Nat
    BY LenProperties
<1>12. ASSUME Len(r) > 1, limit > 0 PROVE CacheSize(r) <= limit
    <2>1. n \in fit1
        BY <1>5, <1>7, <1>10, <1>11, <1>12
    <2>2. CacheSize(b) <= limit
        BY <1>3, <1>5, <1>6, <1>12, <2>1
    <2>3. CacheSize(r) <= CacheSize(b)
        BY <1>9, SuffixSizes
    <2>4. CacheSize(r) \in Nat /\ CacheSize(b) \in Nat
        BY SizeTypes
    <2> QED
        BY <2>2, <2>3, <2>4
<1>13. ASSUME Len(r) > 1, LimitTokens > 0 PROVE CacheTokens(r) <= Max({LimitTokens, limit})
    <2>1. m \in fit2
        BY <1>8, <1>10, <1>11, <1>13
    <2>2. CacheTokens(r) <= TokenLimit(b, limit)
        BY <1>4, <1>6, <1>9, <1>13, <2>1
    <2>3. TokenLimit(b, limit) <= Max({LimitTokens, limit})
        BY TokenLimitBound
    <2>4. TokenLimit(b, limit) \in Nat /\ Max({LimitTokens, limit}) \in Nat
        BY TokenLimitBound
    <2>5. CacheTokens(r) \in Nat
        BY SizeTypes
    <2>6. PICK x \in Nat, y \in Nat, z \in Nat :
            x = CacheTokens(r) /\ y = TokenLimit(b, limit) /\ z = Max({LimitTokens, limit})
        BY <2>4, <2>5
    <2>7. x <= y /\ y <= z
        BY <2>2, <2>3, <2>6
    <2>8. x <= z
        BY <2>7
    <2> QED
        BY <2>6, <2>8
<1>14. Update(c, limit) = r
    BY <1>1, <1>6, <1>8, <1>9
<1> QED
    BY <1>12, <1>13, <1>14 DEF Limited

-----------------------------------------------------------------------------
(* No state of the cache is contained in another: what alloc() removes and  *)
(* refuses is all that would be, and taking states out adds none.           *)
Apart(c) == \A i, j \in 1..Len(c) : IsPrefix(c[i].tokens, c[j].tokens) => i = j

LEMMA PrefixCommon ==
    ASSUME NEW S, NEW s \in Seq(S), NEW t \in Seq(S), IsPrefix(s, t)
    PROVE  CommonPrefix(s, t) = Len(s) /\ CommonPrefix(t, s) = Len(s)
<1>1. PICK n \in Nat, l \in Nat : n = Len(s) /\ l = Len(t)
    BY LenProperties
<1>2. n <= l /\ SubSeq(s, 1, n) = SubSeq(t, 1, n)
    BY <1>1 DEF IsPrefix
<1> DEFINE A == {k \in 0..n : k <= l /\ SubSeq(s, 1, k) = SubSeq(t, 1, k)}
           B == {k \in 0..l : k <= n /\ SubSeq(t, 1, k) = SubSeq(s, 1, k)}
<1>3. CommonPrefix(s, t) = Max(A) /\ CommonPrefix(t, s) = Max(B)
    BY <1>1 DEF CommonPrefix
<1>4. A \subseteq Nat /\ n \in A /\ \A x \in A : x <= n
    BY <1>1, <1>2
<1>5. B \subseteq Nat /\ n \in B /\ \A x \in B : x <= n
    BY <1>1, <1>2
<1> HIDE DEF A, B
<1>6. Max(A) \in A /\ n <= Max(A)
    BY <1>1, <1>4, MaxIsElement
<1>7. Max(B) \in B /\ n <= Max(B)
    BY <1>1, <1>5, MaxIsElement
<1>8. PICK a \in Nat, b \in Nat : a = Max(A) /\ b = Max(B)
    BY <1>4, <1>5, <1>6, <1>7
<1>9. a <= n /\ n <= a /\ b <= n /\ n <= b
    BY <1>4, <1>5, <1>6, <1>7, <1>8
<1>10. a = n /\ b = n
    BY <1>1, <1>8, <1>9
<1> QED
    BY <1>1, <1>3, <1>8, <1>10

PartOf(m, r, q) ==    \* the states of r are states of q, at different places
    /\ m \in [1..Len(r) -> 1..Len(q)]
    /\ \A i, j \in 1..Len(r) : m[i] = m[j] => i = j
    /\ \A i \in 1..Len(r) : r[i] = q[m[i]]

LEMMA ApartPart ==
    ASSUME NEW q, Apart(q), NEW r, NEW m, PartOf(m, r, q)
    PROVE  Apart(r)
<1>1. /\ m \in [1..Len(r) -> 1..Len(q)]
      /\ \A i, j \in 1..Len(r) : m[i] = m[j] => i = j
      /\ \A i \in 1..Len(r) : r[i] = q[m[i]]
    BY DEF PartOf
<1> SUFFICES ASSUME NEW i \in 1..Len(r), NEW j \in 1..Len(r), IsPrefix(r[i].tokens, r[j].tokens)
             PROVE  i = j
    BY DEF Apart
<1>2. m[i] \in 1..Len(q) /\ m[j] \in 1..Len(q) /\ r[i] = q[m[i]] /\ r[j] = q[m[j]]
    BY <1>1
<1>3. IsPrefix(q[m[i]].tokens, q[m[j]].tokens)
    BY <1>2
<1>4. m[i] = m[j]
    BY <1>2, <1>3 DEF Apart
<1> QED
    BY <1>4, <1>1

LEMMA SuffixApart ==
    ASSUME NEW S, NEW c \in Seq(S), Apart(c), NEW n \in 0..Len(c)
    PROVE  Apart(Suffix(c, n))
<1>1. PICK L \in Nat : L = Len(c)
    BY LenProperties
<1>2. PICK r : r = Suffix(c, n)
    OBVIOUS
<1>3. Len(r) = L - n /\ \A k \in 1..(L - n) : r[k] = c[n + k]
    BY <1>1, <1>2, SuffixElements
<1> DEFINE m == [k \in 1..(L - n) |-> n + k]
<1>4. m \in [1..(L - n) -> 1..L]
    BY <1>1
<1>5. \A i, j \in 1..(L - n) : m[i] = m[j] => i = j
    BY <1>1
<1>6. \A i \in 1..(L - n) : r[i] = c[m[i]]
    BY <1>3
<1> HIDE DEF m
<1>7. PartOf(m, r, c)
    BY <1>1, <1>3, <1>4, <1>5, <1>6 DEF PartOf
<1>8. Apart(r)
    BY <1>7, ApartPart
<1> QED
    BY <1>2, <1>8

LEMMA RemovedApart ==
    ASSUME NEW S, NEW c \in Seq(S), Apart(c), NEW at \in 1..Len(c)
    PROVE  Apart(RemoveAt(c, at))
<1>1. PICK L \in Nat : L = Len(c)
    BY LenProperties
<1>2. PICK r : r = RemoveAt(c, at)
    OBVIOUS
<1>3. Len(r) = L - 1 /\ \A k \in 1..(L - 1) : r[k] = IF k < at THEN c[k] ELSE c[k + 1]
    BY <1>1, <1>2, RemoveAtElements
<1> DEFINE m == [k \in 1..(L - 1) |-> IF k < at THEN k ELSE k + 1]
<1>4. m \in [1..(L - 1) -> 1..L]
    BY <1>1
<1>5. \A i, j \in 1..(L - 1) : m[i] = m[j] => i = j
    BY <1>1
<1>6. \A i \in 1..(L - 1) : r[i] = c[m[i]]
    BY <1>3
<1> HIDE DEF m
<1>7. PartOf(m, r, c)
    BY <1>1, <1>3, <1>4, <1>5, <1>6 DEF PartOf
<1>8. Apart(r)
    BY <1>7, ApartPart
<1> QED
    BY <1>2, <1>8

LEMMA KeptApart ==
    ASSUME NEW S, NEW c \in Seq(S), Apart(c), NEW K, K \subseteq 1..Len(c)
    PROVE  Apart(KeepAt(c, K))
<1>1. PICK r \in Seq(S) : r = KeepAt(c, K)
    BY KeepAtProperties
<1>2. PICK m : Lists(m, r, c, K)
    BY <1>1, KeepAtProperties
<1>3. /\ m \in [1..Len(r) -> K]
      /\ \A i, j \in 1..Len(r) : i < j => m[i] < m[j]
      /\ \A i \in 1..Len(r) : r[i] = c[m[i]]
    BY <1>2 DEF Lists
<1>4. m \in [1..Len(r) -> 1..Len(c)]
    BY <1>3
<1>5. PICK N \in Nat : N = Len(r)
    BY <1>1, LenProperties
<1>6. ASSUME NEW i \in 1..Len(r), NEW j \in 1..Len(r), m[i] = m[j] PROVE i = j
    <2>1. m[i] \in Int /\ m[j] \in Int
        <3>1. m[i] \in 1..Len(c) /\ m[j] \in 1..Len(c)
            BY <1>4
        <3> QED
            BY <3>1
    <2>2. ~(m[i] < m[j]) /\ ~(m[j] < m[i])
        BY <1>6, <2>1
    <2>3. ~(i < j) /\ ~(j < i)
        BY <1>3, <2>2
    <2> QED
        BY <1>5, <2>3
<1>7. PartOf(m, r, c)
    BY <1>3, <1>4, <1>6 DEF PartOf
<1>8. Apart(r)
    BY <1>7, ApartPart
<1> QED
    BY <1>1, <1>8

LEMMA AppendApart ==
    ASSUME NEW c \in Seq(PromptStates), Apart(c), NEW st \in PromptStates,
           \A i \in 1..Len(c) : /\ ~IsPrefix(c[i].tokens, st.tokens)
                                /\ ~IsPrefix(st.tokens, c[i].tokens)
    PROVE  Apart(Append(c, st))
<1>1. PICK L \in Nat : L = Len(c)
    BY LenProperties
<1>2. PICK r : r = Append(c, st)
    OBVIOUS
<1>3. Len(r) = L + 1 /\ r[L + 1] = st /\ \A i \in 1..L : r[i] = c[i]
    BY <1>1, <1>2, AppendProperties
<1> SUFFICES ASSUME NEW i \in 1..(L + 1), NEW j \in 1..(L + 1), IsPrefix(r[i].tokens, r[j].tokens)
             PROVE  i = j
    BY <1>2, <1>3 DEF Apart
<1>4. CASE i \in 1..L /\ j \in 1..L
    BY <1>1, <1>3, <1>4 DEF Apart
<1>5. CASE i = L + 1 /\ j = L + 1
    BY <1>5
<1>6. CASE i \in 1..L /\ j = L + 1
    <2>1. IsPrefix(c[i].tokens, st.tokens)
        BY <1>3, <1>6
    <2> QED
        BY <1>1, <1>6, <2>1
<1>7. CASE i = L + 1 /\ j \in 1..L
    <2>1. IsPrefix(st.tokens, c[j].tokens)
        BY <1>3, <1>7
    <2> QED
        BY <1>1, <1>7, <2>1
<1>8. (i \in 1..L \/ i = L + 1) /\ (j \in 1..L \/ j = L + 1)
    BY <1>1
<1> QED
    BY <1>4, <1>5, <1>6, <1>7, <1>8

LEMMA UpdateApart ==
    ASSUME NEW S, NEW c \in Seq(S), Apart(c), NEW limit
    PROVE  Apart(Update(c, limit))
<1>1. PICK n \in 0..Len(c) : Update(c, limit) = Suffix(c, n)
    BY UpdateSuffix
<1>2. Apart(Suffix(c, n))
    BY SuffixApart
<1> QED
    BY <1>1, <1>2

LEMMA SavedApart ==
    ASSUME cache \in Seq(PromptStates), Apart(cache), NEW st \in PromptStates, NEW limit,
           NEW saved \in Saved(st, limit)
    PROVE  Apart(saved[1])
<1>1. CASE Contained(cache, st)
    <2>1. saved = <<cache, limit>>
        BY <1>1 DEF Saved
    <2> QED
        BY <2>1
<1>2. CASE ~Contained(cache, st)
    <2> DEFINE K == {i \in 1..Len(cache) : CommonPrefix(cache[i].tokens, st.tokens) # Len(cache[i].tokens)}
    <2>1. K \subseteq 1..Len(cache) /\ \A k \in K : CommonPrefix(cache[k].tokens, st.tokens) # Len(cache[k].tokens)
        OBVIOUS
    <2>2. NotObsolete(cache, st) = KeepAt(cache, K)
        BY DEF NotObsolete
    <2> HIDE DEF K
    <2>3. PICK others \in Seq(PromptStates) : others = NotObsolete(cache, st)
        BY <2>1, <2>2, KeptElements
    <2>4. Apart(others)
        BY <2>1, <2>2, <2>3, KeptApart
    <2>5. Elements(others, cache, K)
        BY <2>1, <2>2, <2>3, KeptElements
    <2>6. DOMAIN cache = 1..Len(cache) /\ DOMAIN others = 1..Len(others)
        BY <2>3, LenProperties
    <2>7. ASSUME NEW i \in 1..Len(others)
          PROVE  ~IsPrefix(others[i].tokens, st.tokens) /\ ~IsPrefix(st.tokens, others[i].tokens)
        <3>1. others[i] \in Range(others)
            BY <2>6 DEF Range
        <3>2. PICK k \in K : others[i] = cache[k]
            BY <2>5, <3>1 DEF Elements
        <3>3. k \in 1..Len(cache)
            BY <2>1
        <3>4. PICK x \in PromptStates : x = cache[k]
            BY <3>3, ElementOfSeq
        <3>5. x.tokens \in Seq(Tokens) /\ st.tokens \in Seq(Tokens)
            BY StateTypes
        <3>6. CommonPrefix(x.tokens, st.tokens) # Len(x.tokens)
            BY <2>1, <3>4
        <3>7. CommonPrefix(x.tokens, st.tokens) # Len(st.tokens)
            BY <1>2, <2>6, <3>3, <3>4 DEF Contained
        <3>8. ~IsPrefix(x.tokens, st.tokens)
            BY <3>5, <3>6, PrefixCommon
        <3>9. ~IsPrefix(st.tokens, x.tokens)
            BY <3>5, <3>7, PrefixCommon
        <3> QED
            BY <3>2, <3>4, <3>8, <3>9
    <2>8. Apart(Append(others, st))
        BY <2>4, <2>7, AppendApart
    <2>9. Apart(Update(others, ReduceTo(others)))
        BY <2>4, UpdateApart
    <2>10. \/ saved = <<Append(others, st), limit>>
           \/ saved = <<Update(others, ReduceTo(others)), ReduceTo(others)>>
        BY <1>2, <2>3 DEF Saved
    <2>11. CASE saved = <<Append(others, st), limit>>
        BY <2>8, <2>11
    <2>12. CASE saved = <<Update(others, ReduceTo(others)), ReduceTo(others)>>
        BY <2>9, <2>12
    <2> QED
        BY <2>10, <2>11, <2>12
<1> QED
    BY <1>1, <1>2

LEMMA LoadedApart ==
    ASSUME NEW c \in Seq(PromptStates), Apart(c), NEW st \in PromptStates, NEW r \in Requests,
           NEW loaded \in Loaded(st, c, r)
    PROVE  Apart(loaded[2])
<1>1. PICK best \in 0..Len(c) : best = BestState(c, st, r.prompt)
    BY PromptTypes, BestStateInCache
<1>2. CASE best = 0
    <2>1. loaded = <<st, c>>
        BY <1>1, <1>2 DEF Loaded
    <2> QED
        BY <2>1
<1>3. CASE best # 0
    <2>1. best \in 1..Len(c)
        BY <1>3, LenProperties
    <2>2. Apart(RemoveAt(c, best))
        BY <2>1, RemovedApart
    <2>3. loaded = <<c[best], RemoveAt(c, best)>> \/ loaded = <<Blank(st), c>>
        BY <1>1, <1>3 DEF Loaded
    <2> QED
        BY <2>2, <2>3
<1> QED
    BY <1>2, <1>3

-----------------------------------------------------------------------------
(* Only a launch touches the cache.                                         *)
LEMMA LaunchLimits ==
    ASSUME Reusable, Apart(cache), Limited(cache, limitSize), NEW r \in Requests, Launch(r)
    PROVE  Apart(cache') /\ Limited(cache', limitSize')
<1>1. cache \in Seq(PromptStates) /\ limitSize \in Nat /\ AllIn(PromptStates)
    BY ReusableFacts, SeqMonotonic DEF Reusable, Types, AllIn
<1>2. PICK s \in Idle : s = AvailableSlot(r)
    BY <1>1, AvailableIdle DEF Launch, Reusable
<1>3. PICK st \in PromptStates : st = SlotState(s)
    BY <1>1 DEF AllIn, Idle
<1>4. Blank(st) \in PromptStates
    BY NoneIsMap, EmptySeq DEF Blank, PromptStates
<1>5. CASE SavesPrompt(s, r)
    <2>1. PICK saved \in Saved(st, limitSize) :
            \E loaded \in Loaded(st, saved[1], r) :
                limitSize' = saved[2] /\ cache' = Update(loaded[2], limitSize')
        BY <1>2, <1>3, <1>5 DEF Launch, SwapPrompt
    <2>2. saved[1] \in Seq(PromptStates) /\ saved[2] \in Nat
        BY <1>1, SavedTypes
    <2>3. Apart(saved[1])
        BY <1>1, SavedApart
    <2>4. PICK loaded \in Loaded(st, saved[1], r) :
                limitSize' = saved[2] /\ cache' = Update(loaded[2], limitSize')
        BY <2>1
    <2>5. loaded[2] \in Seq(PromptStates)
        BY <1>4, <2>2, LoadedTypes
    <2>6. Apart(loaded[2])
        BY <2>2, <2>3, LoadedApart
    <2>7. PICK c \in Seq(PromptStates), limit \in Nat : c = loaded[2] /\ limit = limitSize'
        BY <2>2, <2>4, <2>5
    <2>8. Apart(Update(c, limit)) /\ Limited(Update(c, limit), limit)
        BY <2>6, <2>7, UpdateApart, UpdateLimits
    <2> QED
        BY <2>4, <2>7, <2>8
<1>6. CASE ~SavesPrompt(s, r)
    <2>1. cache' = cache /\ limitSize' = limitSize
        BY <1>2, <1>6 DEF Launch, cacheVars
    <2> QED
        BY <2>1
<1> QED
    BY <1>5, <1>6

LEMMA LimitsApart ==
    ASSUME Reusable
    PROVE  CacheLimits <=> Apart(cache) /\ Limited(cache, limitSize)
<1>1. DOMAIN cache = 1..Len(cache)
    BY LenProperties DEF Reusable, AllIn
<1> QED
    BY <1>1 DEF CacheLimits, Apart, Limited

LEMMA NextLimits ==
    ASSUME Reusable, CacheLimits, [Next]_vars
    PROVE  CacheLimits'
<1>1. Apart(cache) /\ Limited(cache, limitSize)
    BY LimitsApart
<1>2. Apart(cache') /\ Limited(cache', limitSize')
    <2>1. CASE \E r \in Requests : Launch(r)
        BY <1>1, <2>1, LaunchLimits
    <2>2. CASE UNCHANGED cacheVars
        BY <1>1, <2>2 DEF cacheVars
    <2>3. (\E r \in Requests : Launch(r)) \/ UNCHANGED cacheVars
        BY DEF Next, StartPrompt, FillPrompt, Pass, ShiftContext, Release, Generate, FailBatch, Purge,
               SaveSlot, RestoreSlot, EraseSlot, SlotAction, cacheVars, vars
    <2> QED
        BY <2>1, <2>2, <2>3
<1>3. Reusable'
    BY NextReusable
<1>4. cache' \in Seq(RightStates)'
    BY <1>3 DEF Reusable, AllIn
<1>5. DOMAIN cache' = 1..Len(cache')
    BY <1>4, LenProperties
<1> QED
    BY <1>2, <1>5 DEF CacheLimits, Apart, Limited

(* The cache is within its limits unless it holds one state only, also when *)
(* memory ran out and the limit was reduced (update, alloc), and no state   *)
(* of it is contained in another, whatever is saved, loaded or dropped.     *)
THEOREM CacheWithinLimits == Spec => []CacheLimits
<1>1. Init => Reusable /\ CacheLimits
    <2>1. Init => CacheLimits
        BY DEF Init, CacheLimits
    <2> QED
        BY <2>1, InitReusable
<1>2. (Reusable /\ CacheLimits) /\ [Next]_vars => (Reusable /\ CacheLimits)'
    BY NextReusable, NextLimits
<1> QED
    BY <1>1, <1>2, PTL DEF Spec
=============================================================================
