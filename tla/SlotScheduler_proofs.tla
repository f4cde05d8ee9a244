------------------------- MODULE SlotScheduler_proofs -------------------------
(***************************************************************************)
(* What SlotScheduler says of tasks and slots holds for any number of      *)
(* slots, any requests and any families of tasks in them.                  *)
(***************************************************************************)
EXTENDS SlotScheduler, TLAPS, FiniteSetTheorems, SequenceTheorems,
        WellFoundedInduction

-----------------------------------------------------------------------------
(* What the helpers return, and the order of numbers.                       *)

(* A nonempty set of naturals has a least element: what stands for           *)
(* induction where the induction theorems cannot be instantiated.           *)
LEMMA LeastElement ==
    ASSUME NEW S, S \subseteq Nat, S # {}
    PROVE  \E x \in S : \A y \in S : x =< y
<1>1. \E x \in S : \A y \in S : ~(<<y, x>> \in OpToRel(<, Nat))
    BY NatLessThanWellFounded, WFMin
<1>2. PICK x \in S : \A y \in S : ~(<<y, x>> \in OpToRel(<, Nat))
    BY <1>1
<1>3. \A y \in S : x =< y
    <2> SUFFICES ASSUME NEW y \in S, y < x PROVE FALSE
        OBVIOUS
    <2>1. <<y, x>> \in OpToRel(<, Nat)
        BY DEF OpToRel
    <2> QED
        BY <2>1, <1>2
<1> QED
    BY <1>3

(* Min returns it.                                                          *)
LEMMA MinIsElement ==
    ASSUME NEW S, S \subseteq Nat, S # {}
    PROVE  Min(S) \in S /\ \A y \in S : Min(S) =< y
    BY LeastElement DEF Min

(* What RemoveAt returns, position by position.                             *)
LEMMA RemoveAtElements ==
    ASSUME NEW S, NEW q \in Seq(S), NEW i \in 1..Len(q)
    PROVE  /\ RemoveAt(q, i) \in Seq(S) /\ Len(RemoveAt(q, i)) = Len(q) - 1
           /\ \A k \in 1..(Len(q) - 1) :
                 RemoveAt(q, i)[k] = IF k < i THEN q[k] ELSE q[k + 1]
<1> DEFINE a == SubSeq(q, 1, i - 1)
           b == SubSeq(q, i + 1, Len(q))
<1>1. /\ a \in Seq(S) /\ Len(a) = i - 1
      /\ \A j \in 1..(i - 1) : a[j] = q[j]
    BY SubSeqProperties, ElementOfSeq
<1>2. /\ b \in Seq(S) /\ Len(b) = Len(q) - i
      /\ \A j \in 1..(Len(q) - i) : b[j] = q[i + j]
    BY SubSeqProperties, ElementOfSeq
<1> HIDE DEF a, b
<1>3. /\ a \o b \in Seq(S) /\ Len(a \o b) = Len(a) + Len(b)
      /\ \A j \in 1..(Len(a) + Len(b)) :
            (a \o b)[j] = IF j <= Len(a) THEN a[j] ELSE b[j - Len(a)]
    BY <1>1, <1>2, ConcatProperties
<1>4. Len(a) = i - 1 /\ Len(a) + Len(b) = Len(q) - 1
    BY <1>1, <1>2, LenProperties
<1>5. ASSUME NEW k \in 1..(Len(q) - 1)
      PROVE  (a \o b)[k] = IF k < i THEN q[k] ELSE q[k + 1]
    <2>1. CASE k < i
        BY <2>1, <1>1, <1>3, <1>4
    <2>2. CASE k >= i
        <3> DEFINE n == k - (i - 1)
        <3>1. n \in 1..(Len(q) - i) /\ i + n = k + 1 /\ ~(k <= i - 1) /\ ~(k < i)
            BY <2>2
        <3>2. (a \o b)[k] = b[n]
            BY <3>1, <1>3, <1>4
        <3>3. b[n] = q[i + n]
            <4> HIDE DEF n
            <4> QED
                BY <3>1, <1>2
        <3> QED
            BY <3>1, <3>2, <3>3
    <2>3. k < i \/ k >= i
        OBVIOUS
    <2> QED
        BY <2>1, <2>2, <2>3
<1> QED
    BY <1>3, <1>4, <1>5 DEF RemoveAt, a, b

(* The recursive function of KeepAt exists.                                 *)
IsKept(g, q, K, len) ==
    g = [n \in 0..len |-> IF n = 0 THEN <<>>
                          ELSE IF n \in K THEN Append(g[n - 1], q[n]) ELSE g[n - 1]]

LEMMA KeptExists ==
    ASSUME NEW q, NEW K, NEW len \in Nat
    PROVE  \E g : IsKept(g, q, K, len)
<1> USE DEF IsKept
<1> DEFINE body(g, n) == IF n = 0 THEN <<>>
                         ELSE IF n \in K THEN Append(g[n - 1], q[n]) ELSE g[n - 1]
           Bad == {n \in Nat : ~(\E g : g = [i \in 0..n |-> body(g, i)])}
<1>1. CASE Bad = {}
    BY <1>1
<1>2. CASE Bad # {}
    <2>1. PICK n \in Bad : \A y \in Bad : n =< y
        <3> HIDE DEF Bad
        <3>1. Bad \subseteq Nat
            BY DEF Bad
        <3> QED
            BY <3>1, <1>2, LeastElement
    <2>2. CASE n = 0
        <3> DEFINE g == [i \in 0..0 |-> <<>>]
        <3>1. g = [i \in 0..0 |-> body(g, i)]
            OBVIOUS
        <3> QED
            BY <3>1, <2>2
    <2>3. CASE n # 0
        <3>1. n - 1 \in Nat /\ n - 1 \notin Bad
            <4>1. n \in Nat
                OBVIOUS
            <4> HIDE DEF Bad
            <4> QED
                BY <4>1, <2>1, <2>3
        <3>2. PICK g : g = [i \in 0..(n - 1) |-> body(g, i)]
            BY <3>1
        <3> DEFINE h == [i \in 0..n |-> IF i = n THEN body(g, n) ELSE g[i]]
        <3>3. ASSUME NEW i \in 0..n PROVE h[i] = body(h, i)
            <4>1. CASE i = 0
                BY <4>1, <2>3, <3>2
            <4>2. CASE i # 0
                <5>1. i - 1 \in 0..(n - 1) /\ i - 1 \in 0..n /\ i - 1 # n
                    BY <4>2
                <5>2. h[i - 1] = g[i - 1]
                    BY <5>1
                <5>3. body(h, i) = body(g, i)
                    BY <5>2, <4>2
                <5>4. i # n => i \in 0..(n - 1)
                    OBVIOUS
                <5>5. i # n => g[i] = body(g, i)
                    BY <5>4, <3>2
                <5> QED
                    BY <5>3, <5>5
            <4> QED
                BY <4>1, <4>2
        <3>4. h = [i \in 0..n |-> body(h, i)]
            BY <3>3
        <3>5. n \notin Bad
            BY <3>4
        <3> QED
            BY <3>5
    <2> QED
        BY <2>2, <2>3
<1> QED
    BY <1>1, <1>2

(* KeepAt keeps the positions of K and their order: m lists them.           *)
Lists(m, p, q, K) ==
    /\ m \in [1..Len(p) -> K]
    /\ \A i, j \in 1..Len(p) : i < j => m[i] < m[j]
    /\ \A i \in 1..Len(p) : p[i] = q[m[i]]
    /\ \A k \in K : \E i \in 1..Len(p) : m[i] = k

LEMMA KeepAtProperties ==
    ASSUME NEW S, NEW q \in Seq(S), NEW K, K \subseteq 1..Len(q)
    PROVE  KeepAt(q, K) \in Seq(S) /\ \E m : Lists(m, KeepAt(q, K), q, K)
<1> DEFINE N == Len(q)
           f == CHOOSE g : IsKept(g, q, K, N)
           Listed(s, m, n) == s \in Seq(S) /\ Lists(m, s, q, K \cap 1..n)
           Bad == {n \in 0..N : ~(\E m : Listed(f[n], m, n))}
<1>1. N \in Nat
    BY LenProperties
<1>2. IsKept(f, q, K, N)
    BY <1>1, KeptExists
<1>3. KeepAt(q, K) = f[N]
    BY DEF KeepAt, IsKept
<1> HIDE DEF N, f
<1> USE DEF Lists
<1>4. f[0] = <<>>
    BY <1>1, <1>2 DEF IsKept
<1>5. ASSUME NEW n \in 0..N, n # 0
      PROVE  f[n] = IF n \in K THEN Append(f[n - 1], q[n]) ELSE f[n - 1]
    BY <1>1, <1>2, <1>5 DEF IsKept
<1>6. CASE Bad # {}
    <2>1. PICK n \in Bad : \A y \in Bad : n =< y
        <3>1. Bad \subseteq Nat
            BY <1>1
        <3> HIDE DEF Bad
        <3> QED
            BY <3>1, <1>6, LeastElement
    <2>2. CASE n = 0
        <3>1. /\ <<>> \in Seq(S) /\ Len(<<>>) = 0
              /\ 1..0 = {} /\ <<>> \in [{} -> K \cap 1..0]
            OBVIOUS
        <3>2. Listed(<<>>, <<>>, 0)
            BY <3>1
        <3>3. f[n] = <<>>
            BY <1>4, <2>2
        <3>4. Listed(f[n], <<>>, n)
            BY <2>2, <3>2, <3>3
        <3> QED
            BY <3>4
    <2>3. CASE n # 0
        <3>1. n - 1 \in 0..N /\ n - 1 \notin Bad /\ n \in 1..N
            <4>1. n \in 0..N
                OBVIOUS
            <4> HIDE DEF Bad
            <4> QED
                BY <4>1, <2>1, <2>3, <1>1
        <3>2. PICK m : Listed(f[n - 1], m, n - 1)
            BY <3>1
        <3> DEFINE s == f[n - 1]
                   L == Len(s)
        <3>3. s \in Seq(S) /\ L \in Nat /\ DOMAIN m = 1..L
            BY <3>2, LenProperties
        <3> HIDE DEF s
        <3>4. CASE n \notin K
            <4>1. f[n] = s
                BY <3>4, <1>5, <2>3 DEF s
            <4>2. K \cap 1..n = K \cap 1..(n - 1)
                BY <3>1, <3>4
            <4>3. Listed(s, m, n)
                BY <3>2, <4>2 DEF s
            <4> QED
                BY <4>1, <4>3
        <3>5. CASE n \in K
            <4> DEFINE t == Append(s, q[n])
                       p == [i \in 1..(L + 1) |-> IF i = L + 1 THEN n ELSE m[i]]
            <4>1. f[n] = t
                BY <3>5, <1>5, <2>3 DEF s
            <4>2. q[n] \in S
                BY <3>1, ElementOfSeq DEF N
            <4>3. /\ t \in Seq(S) /\ Len(t) = L + 1
                  /\ \A i \in 1..L : t[i] = s[i]
                  /\ t[L + 1] = q[n]
                BY <3>3, <4>2, AppendProperties
            <4>4. /\ \A i \in 1..L : m[i] \in K /\ m[i] \in 1..(n - 1)
                  /\ \A i, j \in 1..L : i < j => m[i] < m[j]
                  /\ \A i \in 1..L : s[i] = q[m[i]]
                  /\ \A k \in K \cap 1..(n - 1) : \E i \in 1..L : m[i] = k
                BY <3>2 DEF s
            <4> HIDE DEF t, L
            <4>5. \A i \in 1..(L + 1) : i = L + 1 \/ i \in 1..L
                BY <3>3
            <4>6. p[L + 1] = n /\ \A i \in 1..L : p[i] = m[i] /\ i # L + 1
                BY <3>3
            <4>7. p \in [1..(L + 1) -> K \cap 1..n]
                <5>1. ASSUME NEW i \in 1..(L + 1) PROVE p[i] \in K /\ p[i] \in 1..n
                    BY <3>1, <3>5, <4>4, <4>5, <4>6
                <5> QED
                    BY <5>1
            <4> HIDE DEF p
            <4>8. ASSUME NEW i \in 1..(L + 1), NEW j \in 1..(L + 1), i < j
                  PROVE  p[i] < p[j]
                <5>1. i \in 1..L
                    BY <4>8, <3>3
                <5>2. CASE j = L + 1
                    <6>1. m[i] \in 1..(n - 1) /\ p[i] = m[i] /\ p[j] = n
                        BY <5>1, <5>2, <4>4, <4>6
                    <6> QED
                        BY <6>1, <3>1
                <5>3. CASE j \in 1..L
                    BY <5>1, <5>3, <4>4, <4>6, <4>8
                <5> QED
                    BY <5>2, <5>3, <4>5
            <4>9. ASSUME NEW i \in 1..(L + 1) PROVE t[i] = q[p[i]]
                <5>1. CASE i = L + 1
                    BY <5>1, <4>3, <4>6
                <5>2. CASE i \in 1..L
                    <6>1. t[i] = s[i] /\ s[i] = q[m[i]] /\ p[i] = m[i]
                        BY <5>2, <4>3, <4>4, <4>6
                    <6> QED
                        BY <6>1
                <5> QED
                    BY <5>1, <5>2, <4>5
            <4>10. \A k \in K \cap 1..n : \E i \in 1..(L + 1) : p[i] = k
                <5>1. ASSUME NEW k \in K \cap 1..n PROVE \E i \in 1..(L + 1) : p[i] = k
                    <6>1. CASE k = n
                        <7>1. L + 1 \in 1..(L + 1)
                            BY <3>3
                        <7> QED
                            BY <6>1, <7>1, <4>6
                    <6>2. CASE k # n
                        <7>1. k \in K \cap 1..(n - 1)
                            BY <6>2, <3>1
                        <7>2. PICK i \in 1..L : m[i] = k
                            BY <7>1, <4>4
                        <7>3. i \in 1..(L + 1)
                            BY <3>3
                        <7> QED
                            BY <7>2, <7>3, <4>6
                    <6> QED
                        BY <6>1, <6>2
                <5> QED
                    BY <5>1
            <4>11. Listed(t, p, n)
                BY <4>3, <4>7, <4>8, <4>9, <4>10
            <4> QED
                BY <4>1, <4>11
        <3> QED
            BY <3>4, <3>5
    <2> QED
        BY <2>2, <2>3
<1>7. CASE Bad = {}
    <2>1. \E m : Listed(f[N], m, N)
        BY <1>7, <1>1
    <2>2. K \cap 1..N = K
        BY DEF N
    <2> QED
        BY <2>1, <2>2, <1>3
<1> QED
    BY <1>6, <1>7

(* So does RemoveAt, of all positions but one.                              *)
LEMMA RemoveAtLists ==
    ASSUME NEW S, NEW q \in Seq(S), NEW i \in 1..Len(q)
    PROVE  RemoveAt(q, i) \in Seq(S) /\ \E m : Lists(m, RemoveAt(q, i), q, (1..Len(q)) \ {i})
<1> DEFINE p == RemoveAt(q, i)
           m == [k \in 1..Len(p) |-> IF k < i THEN k ELSE k + 1]
<1>1. /\ p \in Seq(S) /\ Len(p) = Len(q) - 1 /\ Len(q) \in Nat
      /\ \A k \in 1..(Len(q) - 1) : p[k] = IF k < i THEN q[k] ELSE q[k + 1]
    BY RemoveAtElements, LenProperties
<1> HIDE DEF p
<1>2. m \in [1..Len(p) -> (1..Len(q)) \ {i}]
    BY <1>1
<1>3. \A k, l \in 1..Len(p) : k < l => m[k] < m[l]
    BY <1>1
<1>4. \A k \in 1..Len(p) : p[k] = q[m[k]]
    BY <1>1
<1>5. ASSUME NEW k \in (1..Len(q)) \ {i} PROVE \E l \in 1..Len(p) : m[l] = k
    <2>1. CASE k < i
        <3>1. k \in 1..Len(p) /\ m[k] = k
            BY <2>1, <1>1
        <3> QED
            BY <3>1
    <2>2. CASE k > i
        <3>1. k - 1 \in 1..Len(p) /\ ~(k - 1 < i) /\ (k - 1) + 1 = k
            BY <2>2, <1>1
        <3>2. m[k - 1] = k
            BY <3>1
        <3> QED
            BY <3>1, <3>2
    <2> QED
        BY <2>1, <2>2
<1>6. Lists(m, p, q, (1..Len(q)) \ {i})
    BY <1>2, <1>3, <1>4, <1>5 DEF Lists
<1> QED
    BY <1>1, <1>6 DEF p

(* No element of X is in the queue more than once.                          *)
Once(q, X) == \A i, j \in 1..Len(q) : q[i] \in X /\ q[i] = q[j] => i = j

(* What the operations on a queue do to the set of its elements, and when   *)
(* they keep those of X single.                                             *)
LEMMA AppendOnce ==
    ASSUME NEW S, NEW X, NEW q \in Seq(S), NEW e \in S
    PROVE  /\ Range(Append(q, e)) = Range(q) \cup {e}
           /\ Once(q, X) /\ (e \in X => e \notin Range(q)) => Once(Append(q, e), X)
<1> DEFINE a == Append(q, e)
           L == Len(q)
<1>1. /\ L \in Nat /\ DOMAIN q = 1..L /\ a \in Seq(S) /\ Len(a) = L + 1 /\ DOMAIN a = 1..(L + 1)
      /\ a[L + 1] = e /\ \A i \in 1..L : a[i] = q[i]
    BY AppendProperties, LenProperties
<1> HIDE DEF a, L
<1>2. \A i \in 1..(L + 1) : i \in 1..L \/ i = L + 1
    BY <1>1
<1>3. 1..L \subseteq 1..(L + 1) /\ L + 1 \in 1..(L + 1)
    BY <1>1
<1>4. Range(a) = Range(q) \cup {e}
    BY <1>1, <1>2, <1>3 DEF Range
<1>5. ASSUME Once(q, X), e \in X => e \notin Range(q) PROVE Once(a, X)
    <2> SUFFICES ASSUME NEW i \in 1..(L + 1), NEW j \in 1..(L + 1), a[i] \in X, a[i] = a[j]
                 PROVE  i = j
        BY <1>1 DEF Once
    <2>1. CASE i \in 1..L /\ j \in 1..L
        BY <1>1, <1>5, <2>1 DEF Once, L
    <2>2. CASE i = L + 1 /\ j \in 1..L
        BY <1>1, <1>5, <2>2 DEF Range
    <2>3. CASE i \in 1..L /\ j = L + 1
        BY <1>1, <1>5, <2>3 DEF Range
    <2> QED
        BY <1>2, <2>1, <2>2, <2>3
<1> QED
    BY <1>4, <1>5 DEF a

LEMMA TailOnce ==
    ASSUME NEW S, NEW X, NEW q \in Seq(S), q # <<>>
    PROVE  /\ Head(q) \in S /\ Tail(q) \in Seq(S) /\ Range(q) = {Head(q)} \cup Range(Tail(q))
           /\ Once(q, X) => Once(Tail(q), X) /\ (Head(q) \in X => Head(q) \notin Range(Tail(q)))
<1> DEFINE t == Tail(q)
           L == Len(q)
<1>1. /\ L \in Nat \ {0} /\ DOMAIN q = 1..L /\ Head(q) \in S /\ t \in Seq(S) /\ Len(t) = L - 1
      /\ \A i \in 1..Len(t) : t[i] = q[i + 1]
    BY HeadTailProperties, LenProperties, EmptySeq
<1>2. DOMAIN t = 1..Len(t) /\ Head(q) = q[1]
    BY <1>1, LenProperties
<1> HIDE DEF t, L
<1>3. /\ \A i \in 1..(L - 1) : i + 1 \in 1..L /\ i + 1 # 1
      /\ \A i \in 1..L : i = 1 \/ (i - 1 \in 1..(L - 1) /\ (i - 1) + 1 = i)
      /\ 1 \in 1..L
    BY <1>1
<1>4. Range(q) = {Head(q)} \cup Range(t)
    <2>1. ASSUME NEW i \in 1..L PROVE q[i] \in {Head(q)} \cup Range(t)
        <3>1. CASE i = 1
            BY <3>1, <1>2
        <3>2. CASE i - 1 \in 1..(L - 1) /\ (i - 1) + 1 = i
            <4>1. q[i] = t[i - 1]
                BY <1>1, <3>2
            <4> QED
                BY <1>1, <1>2, <3>2, <4>1 DEF Range
        <3> QED
            BY <1>3, <3>1, <3>2
    <2>2. ASSUME NEW i \in 1..(L - 1) PROVE t[i] \in Range(q)
        BY <1>1, <1>3 DEF Range
    <2>3. Head(q) \in Range(q)
        BY <1>1, <1>2, <1>3 DEF Range
    <2>4. /\ \A x \in Range(q) : x \in {Head(q)} \cup Range(t)
          /\ \A x \in Range(t) : x \in Range(q)
        BY <1>1, <1>2, <2>1, <2>2 DEF Range
    <2> QED
        BY <2>3, <2>4
<1>5. ASSUME Once(q, X) PROVE Once(t, X) /\ (Head(q) \in X => Head(q) \notin Range(t))
    <2>1. \A i, j \in 1..L : q[i] \in X /\ q[i] = q[j] => i = j
        BY <1>5 DEF Once, L
    <2>2. ASSUME NEW i \in 1..(L - 1), NEW j \in 1..(L - 1), t[i] \in X, t[i] = t[j] PROVE i = j
        <3>1. q[i + 1] \in X /\ q[i + 1] = q[j + 1] /\ i + 1 \in 1..L /\ j + 1 \in 1..L
            BY <1>1, <1>3, <2>2
        <3>2. i + 1 = j + 1
            BY <2>1, <3>1
        <3> QED
            BY <3>2
    <2>3. ASSUME Head(q) \in X, NEW i \in 1..(L - 1), t[i] = Head(q) PROVE FALSE
        BY <1>1, <1>2, <1>3, <2>1, <2>3
    <2> QED
        BY <1>1, <1>2, <2>2, <2>3 DEF Once, Range
<1> QED
    BY <1>1, <1>4, <1>5 DEF t

LEMMA ConsOnce ==
    ASSUME NEW S, NEW X, NEW q \in Seq(S), NEW e \in S
    PROVE  /\ <<e>> \o q \in Seq(S) /\ Range(<<e>> \o q) = Range(q) \cup {e}
           /\ Once(q, X) /\ (e \in X => e \notin Range(q)) => Once(<<e>> \o q, X)
<1> DEFINE a == <<e>> \o q
           L == Len(q)
<1>1. <<e>> \in Seq(S) /\ Len(<<e>>) = 1 /\ <<e>>[1] = e /\ L \in Nat /\ DOMAIN q = 1..L
    BY LenProperties
<1>2. /\ a \in Seq(S) /\ Len(a) = 1 + L /\ DOMAIN a = 1..(1 + L)
      /\ \A i \in 1..(1 + L) : a[i] = IF i <= 1 THEN <<e>>[i] ELSE q[i - 1]
    BY <1>1, ConcatProperties, LenProperties
<1> HIDE DEF a, L
<1>3. a[1] = e /\ \A i \in 1..(1 + L) : i # 1 => a[i] = q[i - 1] /\ i - 1 \in 1..L
    BY <1>1, <1>2
<1>4. \A i \in 1..L : i + 1 \in 1..(1 + L) /\ i + 1 # 1 /\ a[i + 1] = q[i]
    BY <1>1, <1>2
<1>5. Range(a) = Range(q) \cup {e}
    <2>1. 1 \in 1..(1 + L)
        BY <1>1
    <2>2. \A x \in Range(a) : x \in Range(q) \cup {e}
        BY <1>1, <1>2, <1>3 DEF Range
    <2>3. ASSUME NEW i \in 1..L PROVE q[i] \in Range(a)
        BY <1>2, <1>4 DEF Range
    <2>4. e \in Range(a)
        BY <1>2, <1>3, <2>1 DEF Range
    <2>5. \A x \in Range(q) : x \in Range(a)
        BY <1>1, <2>3 DEF Range
    <2> QED
        BY <2>2, <2>4, <2>5
<1>6. ASSUME Once(q, X), e \in X => e \notin Range(q) PROVE Once(a, X)
    <2> SUFFICES ASSUME NEW i \in 1..(1 + L), NEW j \in 1..(1 + L), a[i] \in X, a[i] = a[j]
                 PROVE  i = j
        BY <1>2 DEF Once
    <2>1. CASE i # 1 /\ j # 1
        <3>1. q[i - 1] \in X /\ q[i - 1] = q[j - 1] /\ i - 1 \in 1..L /\ j - 1 \in 1..L
            BY <1>3, <2>1
        <3>2. i - 1 = j - 1
            BY <1>6, <3>1 DEF Once, L
        <3> QED
            BY <3>2
    <2>2. CASE i = 1 /\ j # 1
        BY <1>1, <1>3, <1>6, <2>2 DEF Range
    <2>3. CASE i # 1 /\ j = 1
        BY <1>1, <1>3, <1>6, <2>3 DEF Range
    <2> QED
        BY <2>1, <2>2, <2>3
<1> QED
    BY <1>2, <1>5, <1>6 DEF a

(* So does keeping some positions, or all but one.                          *)
Holds(p, q, K) ==
    /\ \A x \in Range(p) : \E k \in K : q[k] = x
    /\ \A k \in K : q[k] \in Range(p)

LEMMA ListsOnce ==
    ASSUME NEW S, NEW X, NEW q \in Seq(S), NEW p \in Seq(S), NEW K, K \subseteq 1..Len(q),
           NEW m, Lists(m, p, q, K)
    PROVE  Holds(p, q, K) /\ (Once(q, X) => Once(p, X))
<1>1. DOMAIN p = 1..Len(p) /\ Len(p) \in Nat /\ Len(q) \in Nat
    BY LenProperties
<1>2. /\ \A k \in 1..Len(p) : m[k] \in K /\ p[k] = q[m[k]]
      /\ \A k \in K : \E i \in 1..Len(p) : m[i] = k
      /\ \A k, l \in 1..Len(p) : k < l => m[k] < m[l]
    BY DEF Lists
<1>3. ASSUME NEW x PROVE x \in Range(p) <=> \E k \in K : q[k] = x
    <2>1. x \in Range(p) <=> \E i \in 1..Len(p) : p[i] = x
        BY <1>1 DEF Range
    <2>2. ASSUME NEW i \in 1..Len(p), p[i] = x PROVE \E k \in K : q[k] = x
        BY <1>2, <2>2
    <2>3. ASSUME NEW k \in K, q[k] = x PROVE \E i \in 1..Len(p) : p[i] = x
        <3>1. PICK i \in 1..Len(p) : m[i] = k
            BY <1>2
        <3> QED
            BY <1>2, <2>3, <3>1
    <2> QED
        BY <2>1, <2>2, <2>3
<1>4. ASSUME Once(q, X) PROVE Once(p, X)
    <2> SUFFICES ASSUME NEW k \in 1..Len(p), NEW l \in 1..Len(p), p[k] \in X, p[k] = p[l]
                 PROVE  k = l
        BY DEF Once
    <2>3. m[k] \in 1..Len(q) /\ m[l] \in 1..Len(q) /\ q[m[k]] = p[k] /\ q[m[l]] = p[l]
        BY <1>2
    <2>4. \A a, b \in 1..Len(q) : q[a] \in X /\ q[a] = q[b] => a = b
        BY <1>4 DEF Once
    <2>1. m[k] = m[l] /\ m[k] \in Int
        <3>1. m[k] = m[l]
            BY <2>3, <2>4
        <3> QED
            BY <1>1, <2>3, <3>1
    <2>2. ~(k < l) /\ ~(l < k)
        BY <1>2, <2>1
    <2> QED
        BY <2>2
<1> QED
    BY <1>3, <1>4 DEF Holds

LEMMA RemoveAtOnce ==
    ASSUME NEW S, NEW X, NEW q \in Seq(S), Once(q, X), NEW i \in 1..Len(q), q[i] \in X
    PROVE  /\ RemoveAt(q, i) \in Seq(S) /\ Once(RemoveAt(q, i), X)
           /\ \A x : x \in Range(RemoveAt(q, i)) <=> x \in Range(q) /\ x # q[i]
<1> DEFINE p == RemoveAt(q, i)
       K == (1..Len(q)) \ {i}
<1>1. p \in Seq(S) /\ \E m : Lists(m, p, q, K)
    BY RemoveAtLists
<1>5. \A k : k \in K <=> k \in 1..Len(q) /\ k # i
    OBVIOUS
<1> HIDE DEF p, K
<1>2. (\A x : x \in Range(p) <=> \E k \in K : q[k] = x) /\ Once(p, X)
    <2>1. PICK m : Lists(m, p, q, K)
        BY <1>1
    <2>2. K \subseteq 1..Len(q)
        BY <1>5
    <2>3. p \in Seq(S)
        BY <1>1
    <2>4. Once(q, X) => Once(p, X)
        BY <2>1, <2>2, <2>3, ListsOnce
    <2>5. Holds(p, q, K)
        BY <2>1, <2>2, <2>3, ListsOnce
    <2> QED
        BY <2>4, <2>5 DEF Holds
<1>3. \A k \in 1..Len(q) : q[k] = q[i] => k = i
    BY DEF Once
<1>4. \A x : x \in Range(q) <=> \E k \in 1..Len(q) : q[k] = x
    BY LenProperties DEF Range
<1> QED
    BY <1>1, <1>2, <1>3, <1>4, <1>5 DEF p

LEMMA ConcatOnce ==
    ASSUME NEW S, NEW X, NEW q \in Seq(S), NEW r \in Seq(S)
    PROVE  /\ q \o r \in Seq(S) /\ Range(q \o r) = Range(q) \cup Range(r)
           /\ Once(q, X) /\ Once(r, X) /\ (\A e \in X : ~(e \in Range(q) /\ e \in Range(r)))
                => Once(q \o r, X)
<1> DEFINE a == q \o r
           L == Len(q)
           M == Len(r)
<1>1. L \in Nat /\ DOMAIN q = 1..L /\ M \in Nat /\ DOMAIN r = 1..M
    BY LenProperties
<1>2. /\ a \in Seq(S) /\ Len(a) = L + M /\ DOMAIN a = 1..(L + M)
      /\ \A i \in 1..(L + M) : a[i] = IF i <= L THEN q[i] ELSE r[i - L]
    BY ConcatProperties, LenProperties
<1>3. Once(q, X) => \A i, j \in 1..L : q[i] \in X /\ q[i] = q[j] => i = j
    BY DEF Once
<1>4. Once(r, X) => \A i, j \in 1..M : r[i] \in X /\ r[i] = r[j] => i = j
    BY DEF Once
<1> HIDE DEF a, L, M
<1>5. \A i \in 1..(L + M) : \/ i \in 1..L /\ a[i] = q[i]
                            \/ i - L \in 1..M /\ a[i] = r[i - L]
    BY <1>1, <1>2
<1>6. \A i \in 1..L : i \in 1..(L + M) /\ a[i] = q[i]
    BY <1>1, <1>2
<1>7. ASSUME NEW i \in 1..M PROVE i + L \in 1..(L + M) /\ a[i + L] = r[i]
    <2>1. i + L \in 1..(L + M) /\ ~(i + L <= L) /\ (i + L) - L = i
        BY <1>1
    <2> QED
        BY <1>2, <2>1
<1>8. /\ \A x : x \in Range(a) <=> \E i \in 1..(L + M) : a[i] = x
      /\ \A x : x \in Range(q) <=> \E i \in 1..L : q[i] = x
      /\ \A x : x \in Range(r) <=> \E i \in 1..M : r[i] = x
    BY <1>1, <1>2 DEF Range
<1>9. Range(a) = Range(q) \cup Range(r)
    <2>1. \A x \in Range(a) : x \in Range(q) \/ x \in Range(r)
        BY <1>5, <1>8
    <2>2. \A x \in Range(q) : x \in Range(a)
        BY <1>6, <1>8
    <2>3. \A x \in Range(r) : x \in Range(a)
        BY <1>7, <1>8
    <2> QED
        BY <2>1, <2>2, <2>3
<1>10. ASSUME Once(q, X), Once(r, X), \A e \in X : ~(e \in Range(q) /\ e \in Range(r))
       PROVE  Once(a, X)
    <2> SUFFICES ASSUME NEW i \in 1..(L + M), NEW j \in 1..(L + M), a[i] \in X, a[i] = a[j]
                 PROVE  i = j
        BY <1>2 DEF Once
    <2>1. CASE i \in 1..L /\ a[i] = q[i] /\ j \in 1..L /\ a[j] = q[j]
        BY <1>3, <1>10, <2>1
    <2>2. CASE i - L \in 1..M /\ a[i] = r[i - L] /\ j - L \in 1..M /\ a[j] = r[j - L]
        <3>1. i - L = j - L
            BY <1>4, <1>10, <2>2
        <3> QED
            BY <1>1, <3>1
    <2>3. CASE i \in 1..L /\ a[i] = q[i] /\ j - L \in 1..M /\ a[j] = r[j - L]
        BY <1>8, <1>10, <2>3
    <2>4. CASE i - L \in 1..M /\ a[i] = r[i - L] /\ j \in 1..L /\ a[j] = q[j]
        BY <1>8, <1>10, <2>4
    <2> QED
        BY <1>5, <2>1, <2>2, <2>3, <2>4
<1> QED
    BY <1>2, <1>9, <1>10 DEF a

(* The n-th element of a set of numbers has n elements up to itself.        *)
Rank(C, x) == Cardinality({y \in C : y <= x})

LEMMA RankCounts ==
    ASSUME NEW C, C \subseteq Int, IsFiniteSet(C)
    PROVE  /\ \A x \in C : Rank(C, x) \in 1..Cardinality(C)
           /\ \A x, y \in C : Rank(C, x) = Rank(C, y) => x = y
           /\ \A n \in 1..Cardinality(C) : \E x \in C : Rank(C, x) = n
<1> DEFINE Upto(x) == {y \in C : y <= x}
           N == Cardinality(C)
           f == [x \in C |-> Rank(C, x)]
<1>1. N \in Nat
    BY FS_CardinalityType
<1>2. ASSUME NEW x \in C
      PROVE  /\ IsFiniteSet(Upto(x)) /\ Rank(C, x) = Cardinality(Upto(x))
             /\ Rank(C, x) \in Nat /\ Rank(C, x) <= N /\ Rank(C, x) # 0
    <2>1. Upto(x) \subseteq C /\ x \in Upto(x)
        OBVIOUS
    <2>2. Rank(C, x) = Cardinality(Upto(x))
        BY DEF Rank
    <2> HIDE DEF Upto
    <2>3. IsFiniteSet(Upto(x)) /\ Cardinality(Upto(x)) <= N /\ Cardinality(Upto(x)) \in Nat
        BY <2>1, FS_Subset, FS_CardinalityType
    <2>4. Cardinality(Upto(x)) # 0
        BY <2>1, <2>3, FS_EmptySet
    <2> QED
        BY <2>2, <2>3, <2>4
<1>3. ASSUME NEW x \in C, NEW y \in C, x < y PROVE Rank(C, x) # Rank(C, y)
    <2>3. x \in Int /\ y \in Int /\ \A z \in C : z \in Int
        OBVIOUS
    <2>4. \A z : z \in Upto(x) <=> z \in C /\ z <= x
        OBVIOUS
    <2>5. \A z : z \in Upto(y) <=> z \in C /\ z <= y
        OBVIOUS
    <2>6. \A z \in C : z <= x => z <= y
        BY <1>3, <2>3
    <2>7. y <= y /\ ~(y <= x)
        BY <1>3, <2>3
    <2> HIDE DEF Upto
    <2>1. Upto(x) \subseteq Upto(y) /\ y \in Upto(y) /\ y \notin Upto(x)
        BY <2>4, <2>5, <2>6, <2>7
    <2> HIDE DEF Upto
    <2>2. Cardinality(Upto(x)) # Cardinality(Upto(y))
        BY <1>2, <2>1, FS_Subset
    <2> QED
        BY <1>2, <2>2
<1>4. \A x, y \in C : Rank(C, x) = Rank(C, y) => x = y
    <2> SUFFICES ASSUME NEW x \in C, NEW y \in C, Rank(C, x) = Rank(C, y) PROVE x = y
        OBVIOUS
    <2>1. ~(x < y) /\ ~(y < x) /\ x \in Int /\ y \in Int
        BY <1>3
    <2> QED
        BY <2>1
<1> HIDE DEF N
<1>5. ASSUME NEW x \in C PROVE Rank(C, x) \in 1..N
    <2>1. Rank(C, x) \in Nat /\ Rank(C, x) <= N /\ Rank(C, x) # 0
        BY <1>2
    <2> QED
        BY <1>1, <2>1
<1>6. f \in Injection(C, 1..N)
    BY <1>4, <1>5 DEF Injection, IsInjective
<1>7. IsFiniteSet(1..N) /\ Cardinality(1..N) = N
    BY <1>1, FS_Interval
<1>8. f \in Surjection(C, 1..N)
    BY <1>6, <1>7, FS_Injection DEF N
<1>9. \A n \in 1..N : \E x \in C : Rank(C, x) = n
    BY <1>8 DEF Surjection
<1> QED
    BY <1>4, <1>5, <1>9 DEF N

(* Sequences of sequences                                                   *)


-----------------------------------------------------------------------------
(* Requests, tasks and ids                                                  *)

LEMMA PostedElements ==
    /\ \A r \in Readers : \A t : t \in ToSet(Batch[r]) <=> \E i \in 1..Len(Batch[r]) : Batch[r][i] = t
    /\ \A t : t \in Posted <=> \E r \in Readers : t \in ToSet(Batch[r])
<1>1. \A r \in Readers : DOMAIN Batch[r] = 1..Len(Batch[r])
    BY SchedulerAssumption, LenProperties
<1> QED
    BY <1>1 DEF Posted, ToSet

LEMMA PostedIsWork ==
    \A t \in Posted : t \in Work
<1> SUFFICES ASSUME NEW t \in Posted PROVE t \in Work
    OBVIOUS
<1>1. PICK r \in Readers : \E i \in 1..Len(Batch[r]) : Batch[r][i] = t
    BY PostedElements
<1>2. PICK i \in 1..Len(Batch[r]) : Batch[r][i] = t
    BY <1>1
<1>3. Batch[r] \in Seq(Work)
    BY SchedulerAssumption
<1> QED
    BY <1>2, <1>3, ElementOfSeq

LEMMA IdsOfRequest ==
    ASSUME NEW r \in Readers
    PROVE  \A id : id \in IdsOf(r) <=> \E t \in ToSet(Batch[r]) : id \in FamilyOf(t)
<1>1. DOMAIN Batch[r] = 1..Len(Batch[r])
    BY SchedulerAssumption, LenProperties
<1>2. ASSUME NEW id
      PROVE  id \in IdsOf(r) <=> \E i \in 1..Len(Batch[r]) : id \in FamilyOf(Batch[r][i])
    BY <1>1 DEF IdsOf
<1>3. /\ \A i \in 1..Len(Batch[r]) : Batch[r][i] \in ToSet(Batch[r])
      /\ \A t \in ToSet(Batch[r]) : \E i \in 1..Len(Batch[r]) : Batch[r][i] = t
    BY PostedElements
<1> QED
    BY <1>2, <1>3

(* An id names one task of one request, and is not None.                    *)
LEMMA OneFamily ==
    /\ \A id : id \in Ids <=> \E t \in Posted : id \in FamilyOf(t)
    /\ \A t1, t2 \in Posted : \A id : id \in FamilyOf(t1) /\ id \in FamilyOf(t2) => t1 = t2
    /\ \A t \in Posted : t.id \in FamilyOf(t)
    /\ \A id \in Ids : id \in Nat \ {None}
<1>1. \A id : id \in Ids <=> \E t \in Posted : id \in FamilyOf(t)
    BY PostedElements, IdsOfRequest DEF Ids
<1>2. ASSUME NEW t1 \in Posted, NEW t2 \in Posted, NEW id, id \in FamilyOf(t1), id \in FamilyOf(t2)
      PROVE  t1 = t2
    <2>11. PICK r1 \in Readers : \E i1 \in 1..Len(Batch[r1]) : Batch[r1][i1] = t1
        BY PostedElements
    <2>1. PICK i1 \in 1..Len(Batch[r1]) : Batch[r1][i1] = t1
        BY <2>11
    <2>12. PICK r2 \in Readers : \E i2 \in 1..Len(Batch[r2]) : Batch[r2][i2] = t2
        BY PostedElements
    <2>2. PICK i2 \in 1..Len(Batch[r2]) : Batch[r2][i2] = t2
        BY <2>12
    <2>3. id \in IdsOf(r1) /\ id \in IdsOf(r2)
        BY <1>2, <2>1, <2>2, IdsOfRequest, PostedElements
    <2>4. r1 = r2
        BY <2>3, SchedulerAssumption
    <2>5. DOMAIN Batch[r1] = 1..Len(Batch[r1])
        BY SchedulerAssumption, LenProperties
    <2>6. i1 = i2
        BY <1>2, <2>1, <2>2, <2>4, <2>5, SchedulerAssumption
    <2> QED
        BY <2>1, <2>2, <2>4, <2>6
<1>3. \A t \in Posted : t.id \in FamilyOf(t)
    BY DEF FamilyOf
<1>4. ASSUME NEW id \in Ids PROVE id \in Nat \ {None}
    <2>1. PICK t \in Posted : id \in FamilyOf(t)
        BY <1>1
    <2>2. t.id \in Nat \ {None} /\ t.children \in Seq(Nat \ {None})
        BY PostedIsWork DEF Work
    <2>3. CASE id \in ToSet(t.children)
        <3>1. PICK i \in DOMAIN t.children : t.children[i] = id
            BY <2>3 DEF ToSet
        <3> QED
            BY <2>2, <3>1, LenProperties, ElementOfSeq
    <2> QED
        BY <2>1, <2>2, <2>3 DEF FamilyOf
<1> QED
    BY <1>1, <1>2, <1>3, <1>4

LEMMA OwnerOfId ==
    /\ \A r \in Readers : \A id \in IdsOf(r) : id \in Ids /\ Owner[id] = r
    /\ \A id \in Ids : Owner[id] \in Readers /\ id \in IdsOf(Owner[id])
    /\ \A t \in Posted : \A id \in FamilyOf(t) :
        t \in ToSet(Batch[Owner[id]]) /\ ParentOf[id] = t.id
<1>1. ASSUME NEW r \in Readers, NEW id \in IdsOf(r) PROVE id \in Ids /\ Owner[id] = r
    <2>1. id \in Ids
        BY DEF Ids
    <2>2. \A x \in Readers : id \in IdsOf(x) => x = r
        BY SchedulerAssumption
    <2> QED
        BY <2>1, <2>2 DEF Owner
<1>2. ASSUME NEW id \in Ids PROVE Owner[id] \in Readers /\ id \in IdsOf(Owner[id])
    <2>1. PICK r \in Readers : id \in IdsOf(r)
        BY DEF Ids
    <2> QED
        BY <1>1, <2>1
<1>3. ASSUME NEW t \in Posted, NEW id \in FamilyOf(t)
      PROVE  t \in ToSet(Batch[Owner[id]]) /\ ParentOf[id] = t.id
    <2>1. PICK r \in Readers : t \in ToSet(Batch[r])
        BY PostedElements
    <2>2. id \in IdsOf(r) /\ id \in Ids /\ Owner[id] = r
        BY <1>1, <2>1, IdsOfRequest
    <2>3. \A x \in Posted : id \in FamilyOf(x) => x = t
        BY OneFamily
    <2>4. (CHOOSE x \in Posted : id \in FamilyOf(x)) = t
        BY <2>3
    <2> QED
        BY <2>1, <2>2, <2>4 DEF ParentOf
<1> QED
    BY <1>1, <1>2, <1>3

(* CANCEL and NEXT_RESPONSE tasks are no posted ones.                       *)
LEMMA TaskKinds ==
    /\ \A id \in Ids : Cancel(id) \in Task /\ Cancel(id) \notin Posted
    /\ \A a, b \in Ids : Cancel(a) = Cancel(b) => a = b
    /\ NextResponse \in Task /\ NextResponse \notin Posted
    /\ \A id \in Ids : Cancel(id) # NextResponse
    /\ \A t \in Task : t \in Posted <=> t.kind \in {"completion", "slot"}
    /\ \A t \in Task : t.kind = "cancel" => t.id \in Ids /\ t = Cancel(t.id)
    /\ \A t \in Task : t.kind = "next" => t = NextResponse
    /\ \A t \in Posted : t \in Task
<1>1. \A t \in Posted : t.kind \in {"completion", "slot"}
    BY PostedIsWork DEF Work
<1>2. \A id : Cancel(id).kind = "cancel" /\ Cancel(id).id = id
    BY DEF Cancel
<1>3. NextResponse.kind = "next"
    BY DEF NextResponse
<1>4. \A t \in Task : t \in Posted \/ (\E id \in Ids : t = Cancel(id)) \/ t = NextResponse
    BY DEF Task
<1>5. NextResponse \in Task /\ \A id \in Ids : Cancel(id) \in Task
    BY DEF Task
<1>6. \A t \in Posted : t \in Task
    BY DEF Task
<1> QED
    BY <1>1, <1>2, <1>3, <1>4, <1>5, <1>6

-----------------------------------------------------------------------------
(* The two queues                                                           *)

(* No posted task is queued twice.                                          *)
Queued(q) ==
    /\ q \in [main : Seq(Task), deferred : Seq(Posted)]
    /\ Once(q.main, Posted) /\ Once(q.deferred, Posted)
    /\ \A t \in Posted : ~(t \in Range(q.main) /\ t \in Range(q.deferred))

(* From q to p tasks moved from the deferred to the main queue, if any.     *)
Moved(q, p) ==
    /\ Queued(p)
    /\ \A t : t \in Range(p.main) \/ t \in Range(p.deferred)
                <=> t \in Range(q.main) \/ t \in Range(q.deferred)
    /\ \A t \in Range(q.main) : t \in Range(p.main)

LEMMA MovedTwice ==
    ASSUME NEW q, NEW p, NEW o, Moved(q, p), Moved(p, o)
    PROVE  Moved(q, o)
    BY DEF Moved

(* One pop_deferred_task moves one task, if there is one.                   *)
LEMMA PopDeferredMoves ==
    ASSUME NEW q, Queued(q), NEW s
    PROVE  /\ Moved(q, PopDeferred(q, s))
           /\ q.deferred # <<>> => \E t \in Posted : t \in Range(PopDeferred(q, s).main)
<1> DEFINE m == q.main
           d == q.deferred
           wanted == SelectInSeq(d, LAMBDA t : t.kind = "completion" /\ t.pin = s)
           i == IF wanted = 0 THEN 1 ELSE wanted
           p == PopDeferred(q, s)
<1>1. CASE d = <<>>
    <2>1. p = q
        BY <1>1 DEF PopDeferred
    <2> QED
        BY <1>1, <2>1 DEF Moved
<1>2. CASE d # <<>>
    <2>1. m \in Seq(Task) /\ d \in Seq(Posted) /\ Once(m, Posted) /\ Once(d, Posted)
        BY DEF Queued
    <2>2. p = [main |-> <<d[i]>> \o m, deferred |-> RemoveAt(d, i)]
        BY <1>2 DEF PopDeferred
    <2>3. i \in 1..Len(d)
        <3> DEFINE I == {k \in 1..Len(d) : d[k].kind = "completion" /\ d[k].pin = s}
        <3>1. wanted = IF I # {} THEN Min(I) ELSE 0
            BY DEF SelectInSeq
        <3>2. I # {} => Min(I) \in I
            <4>1. I \subseteq Nat
                OBVIOUS
            <4> QED
                BY <4>1, MinIsElement
        <3>3. 1 \in 1..Len(d)
            BY <1>2, <2>1, EmptySeq, LenProperties
        <3> QED
            BY <3>1, <3>2, <3>3
    <2> DEFINE e == d[i]
               f == <<e>> \o m
               g == RemoveAt(d, i)
    <2> HIDE DEF i
    <2>4. e \in Posted /\ e \in Task /\ e \in Range(d)
        <3>1. e \in Posted
            BY <2>1, <2>3, ElementOfSeq
        <3>2. DOMAIN d = 1..Len(d)
            BY <2>1, LenProperties
        <3> QED
            BY <2>3, <3>1, <3>2, TaskKinds DEF Range
    <2>5. e \notin Range(m)
        BY <2>4 DEF Queued
    <2> HIDE DEF m, d
    <2>6. g \in Seq(Posted) /\ Once(g, Posted) /\ \A x : x \in Range(g) <=> x \in Range(d) /\ x # e
        BY <2>1, <2>3, <2>4, RemoveAtOnce
    <2> HIDE DEF e
    <2>7. f \in Seq(Task) /\ Range(f) = Range(m) \cup {e} /\ Once(f, Posted)
        BY <2>1, <2>4, <2>5, ConsOnce
    <2>12. p = [main |-> f, deferred |-> g]
        BY <2>2 DEF e, m, d, i
    <2> HIDE DEF f, g, p
    <2>8. p.main = f /\ p.deferred = g /\ p \in [main : Seq(Task), deferred : Seq(Posted)]
        BY <2>6, <2>7, <2>12
    <2>9. \A t \in Posted : ~(t \in Range(m) /\ t \in Range(d))
        BY DEF Queued, m, d
    <2>10. Queued(p)
        BY <2>6, <2>7, <2>8, <2>9 DEF Queued
    <2>11. Moved(q, p)
        BY <2>4, <2>6, <2>7, <2>8, <2>10 DEF Moved, m, d
    <2> QED
        BY <2>4, <2>7, <2>8, <2>11 DEF p
<1> QED
    BY <1>1, <1>2

(* The recursive function of PopForEach exists.                             *)
IsAfter(g, S, q, len) ==
    g = [n \in 0..len |-> IF n = 0 THEN q
                          ELSE IF n - 1 \in S THEN PopDeferred(g[n - 1], n - 1) ELSE g[n - 1]]
LEMMA AfterExists ==
    ASSUME NEW S, NEW q, NEW len \in Nat
    PROVE  \E g : IsAfter(g, S, q, len)
<1> USE DEF IsAfter
<1> DEFINE body(g, n) == IF n = 0 THEN q
                         ELSE IF n - 1 \in S THEN PopDeferred(g[n - 1], n - 1) ELSE g[n - 1]
           Bad == {n \in Nat : ~(\E g : g = [i \in 0..n |-> body(g, i)])}
<1>1. CASE Bad = {}
    BY <1>1
<1>2. CASE Bad # {}
    <2>1. PICK n \in Bad : \A y \in Bad : n =< y
        <3> HIDE DEF Bad
        <3>1. Bad \subseteq Nat
            BY DEF Bad
        <3> QED
            BY <3>1, <1>2, LeastElement
    <2>2. CASE n = 0
        <3> DEFINE g == [i \in 0..0 |-> q]
        <3>1. g = [i \in 0..0 |-> body(g, i)]
            OBVIOUS
        <3> QED
            BY <3>1, <2>2
    <2>3. CASE n # 0
        <3>1. n - 1 \in Nat /\ n - 1 \notin Bad
            <4>1. n \in Nat
                OBVIOUS
            <4> HIDE DEF Bad
            <4> QED
                BY <4>1, <2>1, <2>3
        <3>2. PICK g : g = [i \in 0..(n - 1) |-> body(g, i)]
            BY <3>1
        <3> DEFINE h == [i \in 0..n |-> IF i = n THEN body(g, n) ELSE g[i]]
        <3>3. ASSUME NEW i \in 0..n PROVE h[i] = body(h, i)
            <4>1. CASE i = 0
                BY <4>1, <2>3, <3>2
            <4>2. CASE i # 0
                <5>1. i - 1 \in 0..(n - 1) /\ i - 1 \in 0..n /\ i - 1 # n
                    BY <4>2
                <5>2. h[i - 1] = g[i - 1]
                    BY <5>1
                <5>3. body(h, i) = body(g, i)
                    BY <5>2, <4>2
                <5>4. i # n => i \in 0..(n - 1)
                    OBVIOUS
                <5>5. i # n => g[i] = body(g, i)
                    BY <5>4, <3>2
                <5> QED
                    BY <5>3, <5>5
            <4> QED
                BY <4>1, <4>2
        <3>4. h = [i \in 0..n |-> body(h, i)]
            BY <3>3
        <3>5. n \notin Bad
            BY <3>4
        <3> QED
            BY <3>5
    <2> QED
        BY <2>2, <2>3
<1> QED
    BY <1>1, <1>2

(* Releasing slots moves tasks; if any is deferred, one of them is queued.  *)
HasWork(X) == \E t \in Posted : t \in X
LEMMA PopForEachMoves ==
    ASSUME NEW S, S \subseteq Slots, NEW q, Queued(q)
    PROVE  /\ Moved(q, PopForEach(S, q))
           /\ S # {} /\ q.deferred # <<>> => HasWork(Range(PopForEach(S, q).main))
           /\ S = {} => PopForEach(S, q) = q
<1> DEFINE f == CHOOSE g : IsAfter(g, S, q, NSlots)
           Good(n) == /\ Moved(q, f[n])
                      /\ q.deferred # <<>> /\ (\E x \in S : x < n) => HasWork(Range(f[n].main))
                      /\ S = {} => f[n] = q
           Bad == {n \in 0..NSlots : ~Good(n)}
<1>1. NSlots \in Nat \ {0}
    BY SchedulerAssumption
<1>2. IsAfter(f, S, q, NSlots)
    BY <1>1, AfterExists
<1>3. PopForEach(S, q) = f[NSlots]
    BY DEF PopForEach, IsAfter
<1> HIDE DEF f
<1>4. f[0] = q
    BY <1>1, <1>2 DEF IsAfter
<1>5. ASSUME NEW n \in 0..NSlots, n # 0
      PROVE  f[n] = IF n - 1 \in S THEN PopDeferred(f[n - 1], n - 1) ELSE f[n - 1]
    BY <1>1, <1>2, <1>5 DEF IsAfter
<1>6. S \subseteq Int /\ \A x \in S : x >= 0 /\ x < NSlots
    BY <1>1 DEF Slots
<1>7. CASE Bad # {}
    <2>1. PICK n \in Bad : \A y \in Bad : n =< y
        <3>1. Bad \subseteq Nat
            BY <1>1
        <3> HIDE DEF Bad
        <3> QED
            BY <3>1, <1>7, LeastElement
    <2>2. CASE n = 0
        <3>1. Moved(q, q)
            BY DEF Moved
        <3>2. ~(\E x \in S : x < 0)
            BY <1>6
        <3>3. Good(0)
            BY <1>4, <3>1, <3>2
        <3> QED
            BY <2>2, <3>3
    <2>3. CASE n # 0
        <3>1. n \in 0..NSlots /\ n - 1 \in 0..NSlots /\ n - 1 \notin Bad
            <4>1. n \in 0..NSlots
                OBVIOUS
            <4> HIDE DEF Bad
            <4> QED
                BY <4>1, <2>1, <2>3, <1>1
        <3>2. Good(n - 1)
            BY <3>1
        <3> DEFINE o == f[n - 1]
                   p == f[n]
        <3>3. p = IF n - 1 \in S THEN PopDeferred(o, n - 1) ELSE o
            BY <1>5, <3>1, <2>3
        <3>4. /\ Moved(q, o) /\ Queued(o)
              /\ q.deferred # <<>> /\ (\E x \in S : x < n - 1) => HasWork(Range(o.main))
              /\ S = {} => o = q
            BY <3>2 DEF Moved
        <3> HIDE DEF o, p
        <3>5. CASE n - 1 \notin S
            <4>1. \A x \in S : x < n => x < n - 1
                BY <1>6, <3>1, <3>5
            <4>2. Good(n)
                BY <3>3, <3>4, <3>5, <4>1 DEF p
            <4> QED
                BY <4>2
        <3>6. CASE n - 1 \in S
            <4>1. Moved(o, p) /\ (o.deferred # <<>> => \E t \in Posted : t \in Range(p.main))
                BY <3>3, <3>4, <3>6, PopDeferredMoves
            <4>2. Moved(q, p)
                BY <3>4, <4>1, MovedTwice
            <4>3. ASSUME q.deferred # <<>> PROVE HasWork(Range(p.main))
                <5>1. CASE o.deferred # <<>>
                    BY <4>1, <5>1 DEF HasWork
                <5>2. CASE o.deferred = <<>>
                    <6>1. q.deferred \in Seq(Posted)
                        BY DEF Queued
                    <6>2. PICK t \in Posted : t \in Range(q.deferred)
                        <7>1. 1 \in 1..Len(q.deferred) /\ DOMAIN q.deferred = 1..Len(q.deferred)
                            BY <4>3, <6>1, EmptySeq, LenProperties
                        <7>2. q.deferred[1] \in Posted
                            BY <6>1, <7>1, ElementOfSeq
                        <7> QED
                            BY <7>1, <7>2 DEF Range
                    <6>3. Range(o.deferred) = {}
                        BY <5>2 DEF Range
                    <6>4. t \in Range(o.main)
                        BY <3>4, <6>2, <6>3 DEF Moved
                    <6>5. t \in Range(p.main)
                        BY <4>1, <6>4 DEF Moved
                    <6> QED
                        BY <6>5 DEF HasWork
                <5> QED
                    BY <5>1, <5>2
            <4>4. Good(n)
                BY <3>6, <4>2, <4>3 DEF p
            <4> QED
                BY <4>4
        <3> QED
            BY <3>5, <3>6
    <2> QED
        BY <2>2, <2>3
<1>8. CASE Bad = {}
    <2>1. Good(NSlots)
        BY <1>1, <1>8
    <2>2. S # {} => \E x \in S : x < NSlots
        BY <1>6
    <2> QED
        BY <1>3, <2>1, <2>2
<1> QED
    BY <1>7, <1>8

(* cleanup_pending_task drops what is named and keeps the CANCELs.          *)
LEMMA WithoutKeeps ==
    ASSUME NEW S, NEW q \in Seq(S), NEW ids
    PROVE  /\ Without(q, ids) \in Seq(S)
           /\ Once(q, Posted) => Once(Without(q, ids), Posted)
           /\ \A t : t \in Range(Without(q, ids))
                        <=> t \in Range(q) /\ (t.kind = "cancel" \/ t.id \notin ids)
<1> DEFINE K == {i \in DOMAIN q : q[i].kind = "cancel" \/ q[i].id \notin ids}
           p == Without(q, ids)
<1>1. DOMAIN q = 1..Len(q)
    BY LenProperties
<1>2. p = KeepAt(q, K)
    BY DEF Without
<1>3. /\ K \subseteq 1..Len(q)
      /\ \A i : i \in K <=> i \in 1..Len(q) /\ (q[i].kind = "cancel" \/ q[i].id \notin ids)
    BY <1>1
<1> HIDE DEF K, p
<1>4. p \in Seq(S) /\ \E m : Lists(m, p, q, K)
    BY <1>2, <1>3, KeepAtProperties
<1>5. PICK m : Lists(m, p, q, K)
    BY <1>4
<1>6. Holds(p, q, K) /\ (Once(q, Posted) => Once(p, Posted))
    BY <1>3, <1>4, <1>5, ListsOnce
<1>7. \A t : t \in Range(q) <=> \E i \in 1..Len(q) : q[i] = t
    BY <1>1 DEF Range
<1>8. \A t \in Range(p) : t \in Range(q) /\ (t.kind = "cancel" \/ t.id \notin ids)
    BY <1>3, <1>6, <1>7 DEF Holds
<1>9. \A t \in Range(q) : t.kind = "cancel" \/ t.id \notin ids => t \in Range(p)
    <2> SUFFICES ASSUME NEW i \in 1..Len(q), q[i].kind = "cancel" \/ q[i].id \notin ids
                 PROVE  q[i] \in Range(p)
        BY <1>7
    <2>1. i \in K
        BY <1>3
    <2> QED
        BY <1>6, <2>1 DEF Holds
<1> QED
    BY <1>4, <1>6, <1>8, <1>9 DEF p

LEMMA FamilyIsFinite ==
    ASSUME NEW t \in Posted
    PROVE  IsFiniteSet(FamilyOf(t))
<1>1. t.children \in Seq(Nat \ {None})
    BY PostedIsWork DEF Work
<1>2. DOMAIN t.children = 1..Len(t.children) /\ Len(t.children) \in Nat
    BY <1>1, LenProperties
<1>3. t.children \in Surjection(1..Len(t.children), ToSet(t.children))
    <2> DEFINE c == t.children
               C == ToSet(c)
    <2>1. \A i \in 1..Len(c) : c[i] \in C
        BY <1>2 DEF ToSet
    <2>2. \A x \in C : \E i \in 1..Len(c) : c[i] = x
        BY <1>2 DEF ToSet
    <2>3. c = [i \in 1..Len(c) |-> c[i]]
        BY <1>1, <1>2
    <2> HIDE DEF c, C
    <2>4. c \in [1..Len(c) -> C]
        BY <2>1, <2>3
    <2>5. c \in Surjection(1..Len(c), C)
        BY <2>2, <2>4 DEF Surjection
    <2> QED
        BY <2>5 DEF c, C
<1>4. IsFiniteSet(1..Len(t.children))
    BY <1>2, FS_Interval
<1>5. IsFiniteSet(ToSet(t.children))
    BY <1>3, <1>4, FS_Surjection
<1>6. FamilyOf(t) = ToSet(t.children) \cup {t.id}
    BY DEF FamilyOf
<1> QED
    BY <1>5, <1>6, FS_AddElement

LEMMA RequestIsFinite ==
    ASSUME NEW r \in Readers
    PROVE  IsFiniteSet(IdsOf(r))
<1> DEFINE b == Batch[r]
           f == [i \in 1..Len(b) |-> FamilyOf(b[i])]
           F == {FamilyOf(b[i]) : i \in DOMAIN b}
<1>1. DOMAIN b = 1..Len(b) /\ Len(b) \in Nat
    BY SchedulerAssumption, LenProperties
<1>2. f \in Surjection(1..Len(b), F)
    <2>1. \A i \in 1..Len(b) : f[i] \in F
        BY <1>1
    <2>2. \A x \in F : \E i \in 1..Len(b) : f[i] = x
        BY <1>1
    <2> HIDE DEF F
    <2>3. f \in [1..Len(b) -> F]
        BY <2>1
    <2> HIDE DEF f
    <2> QED
        BY <2>2, <2>3 DEF Surjection
<1>3. \A x \in F : IsFiniteSet(x)
    <2>1. \A i \in 1..Len(b) : b[i] \in Posted
        BY PostedElements
    <2> QED
        BY <1>1, <2>1, FamilyIsFinite
<1>4. IsFiniteSet(1..Len(b))
    BY <1>1, FS_Interval
<1> HIDE DEF F, f
<1>5. IsFiniteSet(F)
    BY <1>2, <1>4, FS_Surjection
<1>6. IsFiniteSet(UNION F)
    BY <1>3, <1>5, FS_UNION
<1> QED
    BY <1>6 DEF IdsOf, F

(* The CANCELs of a request come before the rest of the queue.              *)
CancelFor(r, t) == \E id \in IdsOf(r) : t = Cancel(id)
LEMMA CancelsFirst ==
    ASSUME NEW r \in Readers, NEW order \in SetToSeqs(IdsOf(r)), NEW w \in Seq(Task),
           Once(w, Posted), NEW q, q = Cancels(order) \o w
    PROVE  /\ q \in Seq(Task) /\ Once(q, Posted)
           /\ \A t : t \in Range(q) <=> t \in Range(w) \/ CancelFor(r, t)
<1> DEFINE N == Cardinality(IdsOf(r))
           c == Cancels(order)
           L == Len(w)
<1>1. N \in Nat /\ IsFiniteSet(IdsOf(r))
    BY RequestIsFinite, FS_CardinalityType
<1>2. /\ order \in [1..N -> IdsOf(r)]
      /\ \A i, j \in 1..N : i # j => order[i] # order[j]
    BY DEF SetToSeqs
<1>3. \A id \in IdsOf(r) : \E i \in 1..N : order[i] = id
    <2>1. order \in Injection(1..N, IdsOf(r))
        BY <1>2 DEF Injection, IsInjective
    <2>2. IsFiniteSet(1..N) /\ Cardinality(1..N) = N
        BY <1>1, FS_Interval
    <2>3. order \in Surjection(1..N, IdsOf(r))
        BY <1>1, <2>1, <2>2, FS_Injection
    <2> QED
        BY <2>3 DEF Surjection
<1>4. \A i \in 1..N : order[i] \in Ids /\ Cancel(order[i]) \in Task /\ Cancel(order[i]) \notin Posted
    BY <1>2, OwnerOfId, TaskKinds
<1>5. DOMAIN order = 1..N
    BY <1>2
<1>6. c \in Seq(Task) /\ Len(c) = N /\ \A i \in 1..N : c[i] = Cancel(order[i])
    <2>1. c \in [1..N -> Task] /\ \A i \in 1..N : c[i] = Cancel(order[i])
        BY <1>4, <1>5 DEF Cancels
    <2> HIDE DEF c
    <2>2. c \in Seq(Task)
        BY <1>1, <2>1
    <2>3. Len(c) = N
        BY <1>1, <2>1, <2>2, LenProperties
    <2> QED
        BY <2>1, <2>2, <2>3
<1>7. L \in Nat /\ DOMAIN w = 1..L
    BY LenProperties
<1> HIDE DEF N, c, L
<1>8. /\ q \in Seq(Task) /\ Len(q) = N + L /\ DOMAIN q = 1..(N + L)
      /\ \A i \in 1..(N + L) : q[i] = IF i <= N THEN c[i] ELSE w[i - N]
    <2>1. N \in Nat /\ Len(w) = L
        BY <1>1 DEF N, L
    <2>2. /\ q \in Seq(Task) /\ Len(q) = N + L
          /\ \A i \in 1..(N + L) : q[i] = IF i <= N THEN c[i] ELSE w[i - N]
        BY <1>6, <2>1, ConcatProperties DEF c
    <2> QED
        BY <2>2, LenProperties
<1>13. N \in Nat
    BY <1>1 DEF N
<1>9. \A i \in 1..(N + L) : \/ i \in 1..N /\ q[i] = Cancel(order[i])
                            \/ i - N \in 1..L /\ q[i] = w[i - N] /\ i \notin 1..N
    BY <1>6, <1>7, <1>8, <1>13
<1>10. /\ \A i \in 1..N : i \in 1..(N + L) /\ q[i] = Cancel(order[i])
       /\ \A i \in 1..L : i + N \in 1..(N + L) /\ q[i + N] = w[i]
    <2>1. ASSUME NEW i \in 1..N PROVE i \in 1..(N + L) /\ i <= N
        BY <1>7, <1>13
    <2>2. ASSUME NEW i \in 1..L PROVE i + N \in 1..(N + L) /\ ~(i + N <= N) /\ (i + N) - N = i
        BY <1>7, <1>13
    <2>3. ASSUME NEW i \in 1..N PROVE q[i] = Cancel(order[i])
        BY <1>6, <1>8, <2>1
    <2>4. ASSUME NEW i \in 1..L PROVE q[i + N] = w[i]
        BY <1>8, <2>2
    <2> QED
        BY <2>1, <2>2, <2>3, <2>4
<1>11. Once(q, Posted)
    <2> SUFFICES ASSUME NEW i \in 1..(N + L), NEW j \in 1..(N + L), q[i] \in Posted, q[i] = q[j]
                 PROVE  i = j
        BY <1>8 DEF Once
    <2>1. i - N \in 1..L /\ q[i] = w[i - N] /\ j - N \in 1..L /\ q[j] = w[j - N]
        BY <1>4, <1>9
    <2>2. i - N = j - N
        BY <2>1 DEF Once, L
    <2> QED
        BY <1>13, <2>2
<1>12. ASSUME NEW t PROVE t \in Range(q) <=> t \in Range(w) \/ \E id \in IdsOf(r) : t = Cancel(id)
    <2>1. t \in Range(q) <=> \E i \in 1..(N + L) : q[i] = t
        BY <1>8 DEF Range
    <2>2. t \in Range(w) <=> \E i \in 1..L : w[i] = t
        BY <1>7 DEF Range
    <2>3. t \in Range(q) => t \in Range(w) \/ \E id \in IdsOf(r) : t = Cancel(id)
        BY <1>2, <1>9, <2>1, <2>2
    <2>4. t \in Range(w) => t \in Range(q)
        BY <1>10, <2>1, <2>2
    <2>5. ASSUME NEW id \in IdsOf(r), t = Cancel(id) PROVE t \in Range(q)
        BY <1>3, <1>10, <2>1, <2>5
    <2> QED
        BY <2>3, <2>4, <2>5
<1> QED
    BY <1>8, <1>11, <1>12 DEF CancelFor

-----------------------------------------------------------------------------
(* Which slots a family gets                                                *)

(* The ids of a family in the order of their launch: each once.             *)
Orders(order, n, F) ==
    /\ \A i \in 1..(n + 1) : order[i] \in F
    /\ \A i, j \in 1..(n + 1) : order[i] = order[j] => i = j
    /\ \A id \in F : \E i \in 1..(n + 1) : order[i] = id
LEMMA LaunchOrder ==
    ASSUME NEW t \in Posted, NEW order, order = Append(t.children, t.id)
    PROVE  /\ Len(t.children) \in Nat /\ Len(order) = Len(t.children) + 1
           /\ order[Len(t.children) + 1] = t.id
           /\ Orders(order, Len(t.children), FamilyOf(t))
<1> DEFINE c == t.children
           n == Len(c)
<1>1. c \in Seq(Nat \ {None}) /\ t.id \in Nat \ {None}
    BY PostedIsWork DEF Work
<1>2. /\ n \in Nat /\ DOMAIN c = 1..n /\ Len(order) = n + 1
      /\ order[n + 1] = t.id /\ \A i \in 1..n : order[i] = c[i]
    BY <1>1, AppendProperties, LenProperties
<1>3. /\ \A i \in 1..n : c[i] \in ToSet(c)
      /\ \A x \in ToSet(c) : \E i \in 1..n : c[i] = x
    BY <1>2 DEF ToSet
<1>4. \A x : x \in FamilyOf(t) <=> x = t.id \/ x \in ToSet(c)
    BY DEF FamilyOf
<1>5. /\ t.id \notin ToSet(c)
      /\ \A i, j \in 1..n : c[i] = c[j] => i = j
    BY <1>2, SchedulerAssumption DEF IsInjective
<1> HIDE DEF c, n
<1>6. \A i \in 1..(n + 1) : i \in 1..n \/ i = n + 1
    BY <1>2
<1>7. 1..n \subseteq 1..(n + 1) /\ n + 1 \in 1..(n + 1)
    BY <1>2
<1>8. \A i \in 1..(n + 1) : order[i] \in FamilyOf(t)
    BY <1>2, <1>3, <1>4, <1>6
<1>9. \A i, j \in 1..(n + 1) : order[i] = order[j] => i = j
    BY <1>2, <1>3, <1>5, <1>6
<1>10. \A id \in FamilyOf(t) : \E i \in 1..(n + 1) : order[i] = id
    BY <1>2, <1>3, <1>4, <1>7
<1> QED
    BY <1>2, <1>8, <1>9, <1>10 DEF c, n, Orders

-----------------------------------------------------------------------------
(* The invariant                                                            *)

Both == [main |-> queue, deferred |-> deferred]
Waits(t) == t \in Range(queue) \/ t \in Range(deferred) \/ t \in current
Unstarted(id) == ~InSlot(id) /\ outcome[id] = "none"

Shapes ==
    /\ pc \in {"pop", "callback", "batch"}
    /\ slotTask \in [Slots -> Ids \cup {None}]
    /\ slotState \in [Slots -> {"idle", "prompt", "wait_other", "generating"}]
    /\ reader \in [Readers -> {"new", "waiting", "closed"}]
    /\ outcome \in [Ids -> {"none", "final", "error"}]

(* One task is in process, while the callback runs, and queued no more.     *)
OneCurrent ==
    \/ pc # "callback" /\ current = {}
    \/ pc = "callback" /\ \E t \in Task : current = {t}
CurrentIsOut ==
    \A t \in current : t \in Posted => t \notin Range(queue) /\ t \notin Range(deferred)

(* Working slots have different tasks, none of which has its final result.  *)
SlotsTaken ==
    /\ \A s \in Slots : slotTask[s] = None <=> slotState[s] = "idle"
    /\ \A s1, s2 \in Slots : slotTask[s1] = slotTask[s2] /\ slotTask[s1] # None => s1 = s2
    /\ \A s \in Slots : slotTask[s] # None => outcome[slotTask[s]] = "none"

(* A task that waits has none of its family in a slot or answered; a        *)
(* request that was not posted has no task anywhere.                        *)
WaitsUnstarted ==
    \A t \in Posted : Waits(t) => \A id \in FamilyOf(t) : Unstarted(id)
NotPosted ==
    \A r \in Readers : reader[r] = "new" => /\ \A t \in ToSet(Batch[r]) : ~Waits(t)
                                            /\ \A id \in IdsOf(r) : Unstarted(id)

Inv ==
    /\ Shapes /\ Queued(Both) /\ OneCurrent /\ CurrentIsOut
    /\ SlotsTaken /\ WaitsUnstarted /\ NotPosted

LEMMA QueuedBoth ==
    ASSUME Queued(Both)
    PROVE  /\ queue \in Seq(Task) /\ deferred \in Seq(Posted)
           /\ Once(queue, Posted) /\ Once(deferred, Posted)
           /\ \A t \in Posted : ~(t \in Range(queue) /\ t \in Range(deferred))
           /\ \A t \in Range(deferred) : t \in Posted
<1>1. Both.main = queue /\ Both.deferred = deferred
    BY DEF Both
<1>2. /\ queue \in Seq(Task) /\ deferred \in Seq(Posted)
      /\ Once(queue, Posted) /\ Once(deferred, Posted)
      /\ \A t \in Posted : ~(t \in Range(queue) /\ t \in Range(deferred))
    BY <1>1 DEF Queued
<1>3. \A t \in Range(deferred) : t \in Posted
    BY <1>2, LenProperties, ElementOfSeq DEF Range
<1> QED
    BY <1>2, <1>3

LEMMA BothQueued ==
    ASSUME NEW m \in Seq(Task), NEW d \in Seq(Posted), Once(m, Posted), Once(d, Posted),
           \A t \in Posted : ~(t \in Range(m) /\ t \in Range(d))
    PROVE  Queued([main |-> m, deferred |-> d])
<1> DEFINE q == [main |-> m, deferred |-> d]
<1>1. q.main = m /\ q.deferred = d /\ q \in [main : Seq(Task), deferred : Seq(Posted)]
    OBVIOUS
<1> HIDE DEF q
<1>2. Queued(q)
    BY <1>1 DEF Queued
<1> QED
    BY <1>2 DEF q

(* A family starts only when its task leaves the queues.                    *)
Leaves(id) == \E t \in Posted : id \in FamilyOf(t) /\ Waits(t) /\ ~Waits(t)'
LEMMA StartsByLeaving ==
    ASSUME Inv, Shapes', Queued(Both)', OneCurrent', CurrentIsOut', SlotsTaken',
           \A r \in Readers : reader'[r] = "new" => reader[r] = "new",
           \A t \in Posted : Waits(t)' => Waits(t),
           \A id \in Ids : Unstarted(id) => Unstarted(id)' \/ Leaves(id)
    PROVE  Inv'
<1>1. WaitsUnstarted'
    <2> SUFFICES ASSUME NEW t \in Posted, Waits(t)', NEW id \in FamilyOf(t) PROVE Unstarted(id)'
        BY DEF WaitsUnstarted
    <2>1. id \in Ids /\ \A x \in Posted : id \in FamilyOf(x) => x = t
        BY OneFamily
    <2>2. Unstarted(id)
        BY DEF Inv, WaitsUnstarted
    <2>3. ~Leaves(id)
        BY <2>1 DEF Leaves
    <2> QED
        BY <2>1, <2>2, <2>3
<1>2. NotPosted'
    <2> SUFFICES ASSUME NEW r \in Readers, reader'[r] = "new"
                 PROVE  /\ \A t \in ToSet(Batch[r]) : ~Waits(t)'
                        /\ \A id \in IdsOf(r) : Unstarted(id)'
        BY DEF NotPosted
    <2>1. /\ \A t \in ToSet(Batch[r]) : ~Waits(t)
          /\ \A id \in IdsOf(r) : Unstarted(id)
        BY DEF Inv, NotPosted
    <2>2. \A t \in ToSet(Batch[r]) : ~Waits(t)'
        BY <2>1, PostedElements
    <2>3. ASSUME NEW id \in IdsOf(r) PROVE Unstarted(id)'
        <3>1. PICK t \in ToSet(Batch[r]) : id \in FamilyOf(t)
            BY IdsOfRequest
        <3>2. id \in Ids /\ t \in Posted /\ \A x \in Posted : id \in FamilyOf(x) => x = t
            BY <3>1, PostedElements, OneFamily
        <3>3. ~Leaves(id)
            BY <2>1, <3>2 DEF Leaves
        <3> QED
            BY <2>1, <3>2, <3>3
    <2> QED
        BY <2>2, <2>3
<1> QED
    BY <1>1, <1>2 DEF Inv

(* Slots are freed and tasks ended, those of these slots or the one in      *)
(* process; deferred tasks may come back.                                   *)
LEMMA Freed ==
    ASSUME Inv, Shapes', OneCurrent', UNCHANGED reader, current' \subseteq current,
           Moved(Both, Both'), NEW S, S \subseteq Slots,
           \A s \in Slots : /\ slotTask'[s] = IF s \in S THEN None ELSE slotTask[s]
                            /\ slotState'[s] = IF s \in S THEN "idle" ELSE slotState[s],
           \A id \in Ids : \/ outcome'[id] = outcome[id]
                           \/ \E s \in S : slotTask[s] = id
                           \/ \E t \in Posted : id \in FamilyOf(t) /\ t \in current /\ t \notin current'
    PROVE  Inv'
<1>1. \A t : t \in Range(queue') \/ t \in Range(deferred') <=> t \in Range(queue) \/ t \in Range(deferred)
    BY DEF Moved, Both
<1>2. Queued(Both)'
    BY DEF Moved, Both
<1>3. CurrentIsOut'
    BY <1>1 DEF Inv, CurrentIsOut
<1>4. \A t : Waits(t)' => Waits(t)
    BY <1>1 DEF Waits
<1>5. \A id \in Ids : id # None
    BY OneFamily
<1>6. SlotsTaken'
    <2>1. \A s \in Slots : slotTask'[s] = None <=> slotState'[s] = "idle"
        BY DEF Inv, SlotsTaken
    <2>2. \A s1, s2 \in Slots : slotTask'[s1] = slotTask'[s2] /\ slotTask'[s1] # None => s1 = s2
        BY DEF Inv, SlotsTaken
    <2>3. ASSUME NEW s \in Slots, slotTask'[s] # None PROVE outcome'[slotTask'[s]] = "none"
        <3>1. s \notin S /\ slotTask'[s] = slotTask[s] /\ slotTask[s] \in Ids
            BY <2>3 DEF Inv, Shapes
        <3>2. outcome[slotTask[s]] = "none"
            BY <2>3, <3>1 DEF Inv, SlotsTaken
        <3>3. \A x \in S : slotTask[x] # slotTask[s]
            BY <2>3, <3>1 DEF Inv, SlotsTaken
        <3>4. \A t \in Posted : slotTask[s] \in FamilyOf(t) => t \notin current
            BY DEF Inv, WaitsUnstarted, Waits, Unstarted, InSlot
        <3> QED
            BY <3>1, <3>2, <3>3, <3>4
    <2> QED
        BY <2>1, <2>2, <2>3 DEF SlotsTaken
<1>7. ASSUME NEW id \in Ids, Unstarted(id) PROVE Unstarted(id)' \/ Leaves(id)
    <2>1. \A s \in Slots : slotTask[s] # id
        BY <1>7 DEF Unstarted, InSlot
    <2>2. \A s \in Slots : slotTask'[s] # id
        BY <1>5, <2>1
    <2>3. CASE outcome'[id] = outcome[id]
        BY <1>7, <2>2, <2>3 DEF Unstarted, InSlot
    <2>4. ASSUME NEW t \in Posted, id \in FamilyOf(t), t \in current, t \notin current' PROVE Leaves(id)
        BY <1>1, <2>4 DEF Leaves, Waits, Inv, CurrentIsOut
    <2> QED
        BY <2>1, <2>3, <2>4
<1> QED
    BY <1>2, <1>3, <1>4, <1>6, <1>7, StartsByLeaving

LEMMA SendSets ==
    ASSUME Shapes, NEW S, NEW result \in {"final", "error"}, Send(S, result)
    PROVE  /\ outcome' \in [Ids -> {"none", "final", "error"}]
           /\ \A id \in Ids : outcome'[id] = IF id \in S /\ reader[Owner[id]] = "waiting"
                                             THEN result ELSE outcome[id]
    BY DEF Shapes, Send

LEMMA ReleaseMoves ==
    ASSUME Shapes, Queued(Both), NEW S, S \subseteq Slots, Release(S)
    PROVE  /\ Moved(Both, Both')
           /\ S # {} /\ deferred # <<>> => HasWork(Range(queue'))
           /\ S = {} => queue' = queue /\ deferred' = deferred
           /\ slotTask' \in [Slots -> Ids \cup {None}]
           /\ slotState' \in [Slots -> {"idle", "prompt", "wait_other", "generating"}]
           /\ \A s \in Slots : /\ slotTask'[s] = IF s \in S THEN None ELSE slotTask[s]
                               /\ slotState'[s] = IF s \in S THEN "idle" ELSE slotState[s]
<1> DEFINE q == PopForEach(S, Both)
<1>1. queue' = q.main /\ deferred' = q.deferred
    BY DEF Release, Both
<1>2. /\ Moved(Both, q)
      /\ S # {} /\ Both.deferred # <<>> => HasWork(Range(q.main))
      /\ S = {} => q = Both
    BY PopForEachMoves
<1>3. q \in [main : Seq(Task), deferred : Seq(Posted)]
    BY <1>2 DEF Moved, Queued
<1> HIDE DEF q
<1>4. q = [main |-> queue', deferred |-> deferred']
    BY <1>1, <1>3
<1>5. Both' = q
    BY <1>4 DEF Both
<1>6. Both.main = queue /\ Both.deferred = deferred
    BY DEF Both
<1>7. /\ slotTask'  = [s \in Slots |-> IF s \in S THEN None   ELSE slotTask[s]]
      /\ slotState' = [s \in Slots |-> IF s \in S THEN "idle" ELSE slotState[s]]
    BY DEF Release
<1>8. /\ slotTask' \in [Slots -> Ids \cup {None}]
      /\ slotState' \in [Slots -> {"idle", "prompt", "wait_other", "generating"}]
    BY <1>7 DEF Shapes
<1>9. \A s \in Slots : /\ slotTask'[s] = IF s \in S THEN None ELSE slotTask[s]
                       /\ slotState'[s] = IF s \in S THEN "idle" ELSE slotState[s]
    BY <1>7
<1> QED
    BY <1>1, <1>2, <1>5, <1>6, <1>8, <1>9

LEMMA NothingMoved ==
    ASSUME Queued(Both), UNCHANGED <<queue, deferred>>
    PROVE  Moved(Both, Both')
    BY DEF Moved, Both

(* A slot's turn ends.                                                      *)
LEMMA EndTurnKeeps ==
    ASSUME Inv, NEW S, S \subseteq Slots, NEW result \in {"final", "error"}, EndTurn(S, result)
    PROVE  Inv'
<1>1. /\ Send({slotTask[s] : s \in S}, result) /\ Release(S) /\ UNCHANGED <<current, pc, reader>>
    BY DEF EndTurn
<1>2. Shapes /\ Queued(Both)
    BY DEF Inv
<1>3. /\ outcome' \in [Ids -> {"none", "final", "error"}]
      /\ \A id \in Ids : outcome'[id] = IF id \in {slotTask[s] : s \in S} /\ reader[Owner[id]] = "waiting"
                                        THEN result ELSE outcome[id]
    BY <1>1, <1>2, SendSets
<1>4. /\ Moved(Both, Both')
      /\ slotTask' \in [Slots -> Ids \cup {None}]
      /\ slotState' \in [Slots -> {"idle", "prompt", "wait_other", "generating"}]
      /\ \A s \in Slots : /\ slotTask'[s] = IF s \in S THEN None ELSE slotTask[s]
                          /\ slotState'[s] = IF s \in S THEN "idle" ELSE slotState[s]
    BY <1>1, <1>2, ReleaseMoves
<1>5. Shapes'
    BY <1>1, <1>2, <1>3, <1>4 DEF Shapes
<1>6. OneCurrent' /\ current' \subseteq current
    BY <1>1 DEF Inv, OneCurrent
<1>7. \A id \in Ids : outcome'[id] = outcome[id] \/ \E s \in S : slotTask[s] = id
    BY <1>3
<1> QED
    BY <1>1, <1>4, <1>5, <1>6, <1>7, Freed

LEMMA ProcessCancelKeeps ==
    ASSUME Inv, pc = "callback", pc' = "pop", current' = {}, UNCHANGED reader,
           NEW task \in current, ProcessCancel(task)
    PROVE  Inv'
<1> DEFINE S == {s \in Slots : slotTask[s] = task.id}
<1>1. Release(S) /\ UNCHANGED outcome /\ S \subseteq Slots
    BY DEF ProcessCancel
<1> HIDE DEF S
<1>2. Shapes /\ Queued(Both)
    BY DEF Inv
<1>3. /\ Moved(Both, Both')
      /\ slotTask' \in [Slots -> Ids \cup {None}]
      /\ slotState' \in [Slots -> {"idle", "prompt", "wait_other", "generating"}]
      /\ \A s \in Slots : /\ slotTask'[s] = IF s \in S THEN None ELSE slotTask[s]
                          /\ slotState'[s] = IF s \in S THEN "idle" ELSE slotState[s]
    BY <1>1, <1>2, ReleaseMoves
<1>4. Shapes' /\ OneCurrent' /\ current' \subseteq current
    BY <1>1, <1>2, <1>3 DEF Shapes, OneCurrent
<1> QED
    BY <1>1, <1>3, <1>4, Freed

LEMMA ProcessNextKeeps ==
    ASSUME Inv, pc = "callback", pc' = "pop", current' = {}, UNCHANGED reader,
           NEW task \in current, ProcessNext(task)
    PROVE  Inv'
<1>1. UNCHANGED <<queue, deferred, slotTask, slotState, outcome>>
    BY DEF ProcessNext
<1>2. Moved(Both, Both')
    BY <1>1, NothingMoved DEF Inv
<1>3. Shapes' /\ OneCurrent' /\ current' \subseteq current
    BY <1>1 DEF Inv, Shapes, OneCurrent
<1>4. {} \subseteq Slots /\ \A s \in Slots : s \notin {}
    OBVIOUS
<1> QED
    BY <1>1, <1>2, <1>3, <1>4, Freed

(* A task is put off: from the callback to the end of the deferred ones.    *)
LEMMA DeferKeeps ==
    ASSUME Inv, pc = "callback", pc' = "pop", current' = {}, UNCHANGED reader,
           NEW task \in current, task \in Posted, Defer(task)
    PROVE  Inv'
<1>1. deferred' = Append(deferred, task) /\ UNCHANGED <<queue, slotTask, slotState, outcome>>
    BY DEF Defer
<1>2. /\ queue \in Seq(Task) /\ deferred \in Seq(Posted)
      /\ Once(queue, Posted) /\ Once(deferred, Posted)
      /\ \A t \in Posted : ~(t \in Range(queue) /\ t \in Range(deferred))
    BY QueuedBoth DEF Inv
<1>3. task \notin Range(queue) /\ task \notin Range(deferred)
    BY DEF Inv, CurrentIsOut
<1>4. deferred' \in Seq(Posted) /\ Range(deferred') = Range(deferred) \cup {task} /\ Once(deferred', Posted)
    BY <1>1, <1>2, <1>3, AppendOnce, AppendProperties
<1>5. Queued(Both)'
    <2>1. /\ queue' \in Seq(Task) /\ Once(queue', Posted)
          /\ \A t \in Posted : ~(t \in Range(queue') /\ t \in Range(deferred'))
        BY <1>1, <1>2, <1>3, <1>4
    <2> QED
        BY <1>4, <2>1, BothQueued DEF Both
<1>6. Shapes' /\ OneCurrent' /\ CurrentIsOut'
    BY <1>1 DEF Inv, Shapes, OneCurrent, CurrentIsOut
<1>7. SlotsTaken'
    BY <1>1 DEF Inv, SlotsTaken
<1>8. \A t : Waits(t)' => Waits(t)
    BY <1>1, <1>4 DEF Waits
<1>9. \A id \in Ids : Unstarted(id) => Unstarted(id)'
    BY <1>1 DEF Unstarted, InSlot
<1> QED
    BY <1>5, <1>6, <1>7, <1>8, <1>9, StartsByLeaving

LEMMA ProcessSlotActionKeeps ==
    ASSUME Inv, pc = "callback", pc' = "pop", current' = {}, UNCHANGED reader,
           NEW task \in current, ProcessSlotAction(task)
    PROVE  Inv'
<1>1. task \in Posted /\ task.id \in FamilyOf(task)
    <2>1. task \in Task /\ task.kind = "slot"
        BY DEF Inv, OneCurrent, ProcessSlotAction
    <2> QED
        BY <2>1, TaskKinds DEF FamilyOf
<1>2. CASE Defer(task)
    BY <1>1, <1>2, DeferKeeps
<1>3. CASE /\ \E result \in {"final", "error"} : Send({task.id}, result)
           /\ UNCHANGED <<queue, deferred, slotTask, slotState>>
    <2>1. /\ outcome' \in [Ids -> {"none", "final", "error"}]
          /\ \A id \in Ids : id # task.id => outcome'[id] = outcome[id]
        BY <1>3, SendSets DEF Inv
    <2>2. Moved(Both, Both')
        BY <1>3, NothingMoved DEF Inv
    <2>3. Shapes' /\ OneCurrent' /\ current' \subseteq current
        BY <1>3, <2>1 DEF Inv, Shapes, OneCurrent
    <2>4. {} \subseteq Slots /\ \A s \in Slots : s \notin {}
        OBVIOUS
    <2>5. \A id \in Ids : \/ outcome'[id] = outcome[id]
                          \/ \E t \in Posted : id \in FamilyOf(t) /\ t \in current /\ t \notin current'
        BY <1>1, <2>1
    <2> QED
        BY <1>3, <2>2, <2>3, <2>4, <2>5, Freed
<1> QED
    BY <1>2, <1>3 DEF ProcessSlotAction, SlotResults

(* The children's slots are idle ones other than the parent's, one for each *)
(* child, and there are enough of them.                                     *)
LEMMA ChildrenHaveSlots ==
    ASSUME NEW t \in Posted, NEW s \in Slots
    PROVE  /\ Taken(t, s) \subseteq Free /\ s \notin Taken(t, s)
           /\ \A x \in Taken(t, s) : Place(s, x) \in 1..Len(t.children)
           /\ \A x, y \in Taken(t, s) : Place(s, x) = Place(s, y) => x = y
           /\ ~(Cardinality(ChildSlots(s)) < Len(t.children)) =>
                \A n \in 1..Len(t.children) : \E x \in Taken(t, s) : Place(s, x) = n
<1> DEFINE C == ChildSlots(s)
           n == Len(t.children)
<1>1. NSlots \in Nat /\ Slots \subseteq Int /\ IsFiniteSet(Slots)
    <2>1. NSlots \in Nat \ {0}
        BY SchedulerAssumption
    <2>2. IsFiniteSet(0..(NSlots - 1))
        BY <2>1, FS_Interval
    <2> QED
        BY <2>1, <2>2 DEF Slots
<1>2. C \subseteq Free /\ C \subseteq Slots /\ s \notin C
    BY DEF ChildSlots, Free
<1>3. C \subseteq Int /\ IsFiniteSet(C) /\ Cardinality(C) \in Nat
    BY <1>1, <1>2, FS_Subset, FS_CardinalityType
<1>4. \A x : Place(s, x) = Rank(C, x)
    BY DEF Place, Rank
<1>5. n \in Nat
    BY LaunchOrder
<1>6. \A x : x \in Taken(t, s) <=> x \in C /\ Place(s, x) <= n
    BY DEF Taken
<1> HIDE DEF C, n
<1>7. /\ \A x \in C : Place(s, x) \in 1..Cardinality(C)
      /\ \A x, y \in C : Place(s, x) = Place(s, y) => x = y
      /\ \A k \in 1..Cardinality(C) : \E x \in C : Place(s, x) = k
    <2>1. /\ \A x \in C : Rank(C, x) \in 1..Cardinality(C)
          /\ \A x, y \in C : Rank(C, x) = Rank(C, y) => x = y
          /\ \A k \in 1..Cardinality(C) : \E x \in C : Rank(C, x) = k
        BY <1>3, RankCounts
    <2> QED
        BY <1>4, <2>1
<1>8. ASSUME NEW x \in Taken(t, s) PROVE Place(s, x) \in 1..n
    <2>1. Place(s, x) \in 1..Cardinality(C) /\ Place(s, x) <= n
        BY <1>6, <1>7
    <2> QED
        BY <1>3, <1>5, <2>1
<1>9. ASSUME ~(Cardinality(C) < n), NEW k \in 1..n PROVE \E x \in Taken(t, s) : Place(s, x) = k
    <2>1. k \in 1..Cardinality(C) /\ k <= n
        BY <1>3, <1>5, <1>9
    <2>2. PICK x \in C : Place(s, x) = k
        BY <1>7, <2>1
    <2> QED
        BY <1>6, <2>1, <2>2
<1>10. Taken(t, s) \subseteq Free /\ s \notin Taken(t, s)
    BY <1>2, <1>6
<1>11. \A x, y \in Taken(t, s) : Place(s, x) = Place(s, y) => x = y
    BY <1>6, <1>7
<1> QED
    BY <1>8, <1>9, <1>10, <1>11 DEF C, n

(* A family is launched: every id into an idle slot of its own, the parent  *)
(* to process its prompt and the children to wait for it.                   *)
Started(task, s, x) ==
    \/ x = s /\ slotTask'[x] = task.id /\ slotState'[x] = "prompt"
    \/ x # s /\ slotTask'[x] # task.id /\ slotState'[x] = "wait_other"
StartedIdle(task, s) ==
    \A x \in Slots :
        \/ slotTask'[x] = slotTask[x] /\ slotState'[x] = slotState[x]
        \/ slotState[x] = "idle" /\ slotTask'[x] \in FamilyOf(task) /\ Started(task, s, x)
StartedOnce(task) ==
    \A x, y \in Slots : slotTask'[x] = slotTask'[y] /\ slotTask'[x] \in FamilyOf(task) => x = y
AllStarted(task) ==
    \A id \in FamilyOf(task) : \E x \in Slots : slotTask'[x] = id
LEMMA LaunchStarts ==
    ASSUME Inv, NEW task \in Posted, task \in current, NEW s \in Free, NEW order,
           order = Append(task.children, task.id),
           ~(Cardinality(ChildSlots(s)) < Len(task.children)),
           slotTask' = [x \in Slots |->
                IF x = s THEN task.id
                ELSE IF x \in Taken(task, s) THEN order[Place(s, x)] ELSE slotTask[x]],
           slotState' = [x \in Slots |->
                IF x = s THEN "prompt"
                ELSE IF x \in Taken(task, s) THEN "wait_other" ELSE slotState[x]]
    PROVE  /\ slotTask' \in [Slots -> Ids \cup {None}]
           /\ slotState' \in [Slots -> {"idle", "prompt", "wait_other", "generating"}]
           /\ StartedIdle(task, s) /\ StartedOnce(task) /\ AllStarted(task)
           /\ slotTask'[s] = task.id /\ slotState'[s] = "prompt"
<1> DEFINE n == Len(task.children)
           T == Taken(task, s)
<1>1. /\ n \in Nat /\ order[n + 1] = task.id
      /\ \A i \in 1..(n + 1) : order[i] \in FamilyOf(task)
      /\ \A i, j \in 1..(n + 1) : order[i] = order[j] => i = j
      /\ \A id \in FamilyOf(task) : \E i \in 1..(n + 1) : order[i] = id
    <2>1. n \in Nat /\ order[n + 1] = task.id /\ Orders(order, n, FamilyOf(task))
        BY LaunchOrder
    <2> QED
        BY <2>1 DEF Orders
<1>2. s \in Slots /\ slotState[s] = "idle"
    BY DEF Free, Processing
<1>3. /\ T \subseteq Free /\ s \notin T
      /\ \A x \in T : Place(s, x) \in 1..n
      /\ \A x, y \in T : Place(s, x) = Place(s, y) => x = y
      /\ \A k \in 1..n : \E x \in T : Place(s, x) = k
    BY <1>2, ChildrenHaveSlots
<1>4. \A x \in T : x \in Slots /\ slotState[x] = "idle" /\ x # s
    BY <1>3 DEF Free, Processing
<1> HIDE DEF n, T
<1>5. /\ \A i \in 1..n : i \in 1..(n + 1) /\ i # n + 1
      /\ n + 1 \in 1..(n + 1) /\ \A i \in 1..(n + 1) : i \in 1..n \/ i = n + 1
    BY <1>1
<1>6. /\ slotTask'[s] = task.id /\ slotState'[s] = "prompt"
      /\ \A x \in T : slotTask'[x] = order[Place(s, x)] /\ slotState'[x] = "wait_other"
      /\ \A x \in Slots : x # s /\ x \notin T => slotTask'[x] = slotTask[x] /\ slotState'[x] = slotState[x]
    BY <1>2, <1>4 DEF T
<1>7. task.id \in FamilyOf(task) /\ \A x \in T : slotTask'[x] \in FamilyOf(task) /\ slotTask'[x] # task.id
    <2>1. task.id \in FamilyOf(task)
        BY DEF FamilyOf
    <2>2. ASSUME NEW x \in T PROVE slotTask'[x] \in FamilyOf(task) /\ slotTask'[x] # task.id
        <3>1. Place(s, x) \in 1..(n + 1) /\ Place(s, x) # n + 1
            BY <1>3, <1>5
        <3>2. order[Place(s, x)] \in FamilyOf(task)
            BY <1>1, <3>1
        <3>3. order[Place(s, x)] # order[n + 1]
            BY <1>1, <1>5, <3>1
        <3>4. slotTask'[x] = order[Place(s, x)]
            BY <1>6
        <3> QED
            BY <1>1, <3>2, <3>3, <3>4
    <2> QED
        BY <2>1, <2>2
<1>8. \A id \in FamilyOf(task) : id \in Ids /\ \A x \in Slots : slotTask[x] # id
    BY OneFamily DEF Inv, WaitsUnstarted, Waits, Unstarted, InSlot
<1>9. StartedIdle(task, s)
    BY <1>2, <1>4, <1>6, <1>7 DEF StartedIdle, Started
<1>10. ASSUME NEW x \in Slots, NEW y \in Slots, slotTask'[x] = slotTask'[y],
              slotTask'[x] \in FamilyOf(task)
       PROVE  x = y
    <2>1. x = s \/ x \in T
        BY <1>6, <1>8, <1>10
    <2>2. y = s \/ y \in T
        BY <1>6, <1>8, <1>10
    <2>3. CASE x = s \/ y = s
        BY <1>6, <1>7, <1>10, <2>1, <2>2, <2>3
    <2>4. CASE x \in T /\ y \in T
        <3>1. order[Place(s, x)] = order[Place(s, y)]
            BY <1>6, <1>10, <2>4
        <3>2. Place(s, x) \in 1..(n + 1) /\ Place(s, y) \in 1..(n + 1)
            BY <1>3, <1>5, <2>4
        <3>3. Place(s, x) = Place(s, y)
            BY <1>1, <3>1, <3>2
        <3> QED
            BY <1>3, <2>4, <3>3
    <2> QED
        BY <2>1, <2>2, <2>3, <2>4
<1>11. ASSUME NEW id \in FamilyOf(task) PROVE \E x \in Slots : slotTask'[x] = id
    <2>1. PICK i \in 1..(n + 1) : order[i] = id
        BY <1>1
    <2>2. CASE i = n + 1
        BY <1>1, <1>2, <1>6, <2>1, <2>2
    <2>3. CASE i \in 1..n
        <3>1. PICK x \in T : Place(s, x) = i
            BY <1>3, <2>3
        <3> QED
            BY <1>4, <1>6, <2>1, <3>1
    <2> QED
        BY <1>5, <2>2, <2>3
<1>12. slotTask' \in [Slots -> Ids \cup {None}]
    <2>1. \A x \in Slots : slotTask'[x] \in Ids \cup {None}
        BY <1>8, <1>9 DEF Inv, Shapes, StartedIdle
    <2> QED
        BY <2>1
<1>13. slotState' \in [Slots -> {"idle", "prompt", "wait_other", "generating"}]
    BY DEF Inv, Shapes
<1> QED
    <2>1. StartedOnce(task)
        BY <1>10 DEF StartedOnce
    <2>2. AllStarted(task)
        BY <1>11 DEF AllStarted
    <2> QED
        BY <1>6, <1>9, <1>12, <1>13, <2>1, <2>2

(* What Launch does, by whether an id is refused.                           *)
LaunchAll(task, s, order) ==
    /\ slotTask' = [x \in Slots |->
            IF x = s THEN task.id
            ELSE IF x \in Taken(task, s) THEN order[Place(s, x)] ELSE slotTask[x]]
    /\ slotState' = [x \in Slots |->
            IF x = s THEN "prompt"
            ELSE IF x \in Taken(task, s) THEN "wait_other" ELSE slotState[x]]
    /\ UNCHANGED <<queue, deferred, outcome, survivors>>
LaunchFails(task, id) ==
    /\ id \in FamilyOf(task) /\ Send({id}, "error") /\ UNCHANGED survivors
    /\ \E S \in SUBSET Free : Release(S)
LEMMA LaunchCases ==
    ASSUME NEW task \in Posted, NEW s \in Slots, Launch(task, s)
    PROVE  \/ LaunchAll(task, s, Append(task.children, task.id))
           \/ Refused # {} /\ \E id \in FamilyOf(task) : LaunchFails(task, id)
<1>1. CASE LaunchFamily(task, s)
    BY <1>1 DEF Launch, LaunchFamily, LaunchAll, Order
<1>2. CASE RefuseFamily(task, s)
    <2> DEFINE order == Append(task.children, task.id)
    <2>1. PICK bad \in DOMAIN order :
                  /\ order[bad] \in Refused
                  /\ Send({order[bad]}, "error") /\ Release(Assigned(task, s, bad))
        BY <1>2 DEF RefuseFamily, FailLaunch, Order
    <2>2. order[bad] \in FamilyOf(task)
        <3>1. Len(order) = Len(task.children) + 1 /\ Orders(order, Len(task.children), FamilyOf(task))
            BY LaunchOrder
        <3>2. bad \in 1..Len(order)
            BY <2>1
        <3> HIDE DEF order
        <3> QED
            BY <3>1, <3>2 DEF Orders
    <2>3. Assigned(task, s, bad) \in SUBSET Free
        BY DEF Assigned, Taken, ChildSlots
    <2>4. \E S \in SUBSET Free : Release(S)
        BY <2>1, <2>3
    <2> HIDE DEF order
    <2> QED
        BY <2>1, <2>2, <2>4 DEF LaunchFails, Launch
<1> QED
    BY <1>1, <1>2 DEF Launch

LEMMA LaunchAllKeeps ==
    ASSUME Inv, pc = "callback", pc' = "pop", current' = {}, UNCHANGED reader,
           NEW task \in current, task \in Posted, NEW s \in Free,
           ~(Cardinality(ChildSlots(s)) < Len(task.children)),
           LaunchAll(task, s, Append(task.children, task.id))
    PROVE  Inv'
<1>1. UNCHANGED <<queue, deferred, outcome>>
    BY DEF LaunchAll
<1>2. /\ slotTask' \in [Slots -> Ids \cup {None}]
      /\ slotState' \in [Slots -> {"idle", "prompt", "wait_other", "generating"}]
      /\ StartedIdle(task, s) /\ StartedOnce(task)
    BY LaunchStarts DEF LaunchAll
<1>3. \A id \in FamilyOf(task) :
        id \in Ids /\ id # None /\ outcome[id] = "none" /\ \A x \in Slots : slotTask[x] # id
    BY OneFamily DEF Inv, WaitsUnstarted, Waits, Unstarted, InSlot
<1>4. SlotsTaken'
    <2>1. \A x \in Slots : slotTask'[x] = None <=> slotState'[x] = "idle"
        BY <1>2, <1>3 DEF Inv, SlotsTaken, StartedIdle, Started
    <2>2. ASSUME NEW x \in Slots, NEW y \in Slots, slotTask'[x] = slotTask'[y], slotTask'[x] # None
          PROVE  x = y
        <3>1. CASE slotTask'[x] \in FamilyOf(task)
            BY <1>2, <2>2, <3>1 DEF StartedOnce
        <3>2. CASE slotTask'[x] \notin FamilyOf(task)
            BY <1>2, <2>2, <3>2 DEF Inv, SlotsTaken, StartedIdle
        <3> QED
            BY <3>1, <3>2
    <2>3. \A x \in Slots : slotTask'[x] # None => outcome'[slotTask'[x]] = "none"
        BY <1>1, <1>2, <1>3 DEF Inv, SlotsTaken, StartedIdle
    <2> QED
        BY <2>1, <2>2, <2>3 DEF SlotsTaken
<1>5. Queued(Both)'
    BY <1>1 DEF Inv, Both
<1>6. Shapes' /\ OneCurrent' /\ CurrentIsOut'
    BY <1>1, <1>2 DEF Inv, Shapes, OneCurrent, CurrentIsOut
<1>7. Waits(task) /\ ~Waits(task)' /\ \A t : Waits(t)' => Waits(t)
    BY <1>1 DEF Inv, CurrentIsOut, Waits
<1>8. ASSUME NEW id \in Ids, Unstarted(id) PROVE Unstarted(id)' \/ Leaves(id)
    <2>1. CASE id \in FamilyOf(task)
        BY <1>7, <2>1 DEF Leaves
    <2>2. CASE id \notin FamilyOf(task)
        BY <1>1, <1>2, <1>8, <2>2 DEF Unstarted, InSlot, StartedIdle
    <2> QED
        BY <2>1, <2>2
<1> QED
    BY <1>1, <1>4, <1>5, <1>6, <1>7, <1>8, StartsByLeaving

LEMMA LaunchFailsKeeps ==
    ASSUME Inv, pc = "callback", pc' = "pop", current' = {}, UNCHANGED reader,
           NEW task \in current, task \in Posted, NEW id \in FamilyOf(task), LaunchFails(task, id)
    PROVE  Inv'
<1>1. PICK S \in SUBSET Slots : Release(S)
    BY DEF LaunchFails, Free
<1>2. Shapes /\ Queued(Both)
    BY DEF Inv
<1>3. /\ outcome' \in [Ids -> {"none", "final", "error"}]
      /\ \A x \in Ids : x # id => outcome'[x] = outcome[x]
    BY <1>2, SendSets DEF LaunchFails
<1>4. /\ Moved(Both, Both')
      /\ slotTask' \in [Slots -> Ids \cup {None}]
      /\ slotState' \in [Slots -> {"idle", "prompt", "wait_other", "generating"}]
      /\ \A s \in Slots : /\ slotTask'[s] = IF s \in S THEN None ELSE slotTask[s]
                          /\ slotState'[s] = IF s \in S THEN "idle" ELSE slotState[s]
    BY <1>1, <1>2, ReleaseMoves
<1>5. Shapes' /\ OneCurrent' /\ current' \subseteq current
    BY <1>2, <1>3, <1>4 DEF Shapes, OneCurrent
<1>6. \A x \in Ids : \/ outcome'[x] = outcome[x]
                     \/ \E t \in Posted : x \in FamilyOf(t) /\ t \in current /\ t \notin current'
    BY <1>3
<1> QED
    BY <1>4, <1>5, <1>6, Freed

LEMMA ProcessCompletionKeeps ==
    ASSUME Inv, pc = "callback", pc' = "pop", current' = {}, UNCHANGED reader,
           NEW task \in current, ProcessCompletion(task)
    PROVE  Inv'
<1>1. task \in Posted
    <2>1. task \in Task /\ task.kind = "completion"
        BY DEF Inv, OneCurrent, ProcessCompletion
    <2> QED
        BY <2>1, TaskKinds
<1>2. CASE Defer(task)
    BY <1>1, <1>2, DeferKeeps
<1>3. ASSUME NEW s \in Free, ~(Cardinality(ChildSlots(s)) < Len(task.children)), Launch(task, s)
      PROVE  Inv'
    <2>1. s \in Slots
        BY DEF Free
    <2>2. CASE LaunchAll(task, s, Append(task.children, task.id))
        BY <1>1, <1>3, <2>2, LaunchAllKeeps
    <2>3. CASE \E id \in FamilyOf(task) : LaunchFails(task, id)
        BY <1>1, <2>3, LaunchFailsKeeps
    <2> QED
        BY <1>1, <1>3, <2>1, <2>2, <2>3, LaunchCases
<1> QED
    BY <1>2, <1>3 DEF ProcessCompletion

(* A posted request is in the queue, each of its tasks once.                *)
LEMMA PostTasksKeeps ==
    ASSUME Inv, NEW r \in Readers, PostTasks(r)
    PROVE  Inv' /\ \A t : t \in Range(queue') <=> t \in Range(queue) \/ t \in ToSet(Batch[r])
<1>1. /\ reader[r] = "new" /\ reader' = [reader EXCEPT ![r] = "waiting"]
      /\ queue' = queue \o Batch[r]
      /\ UNCHANGED <<deferred, current, pc, slotTask, slotState, outcome>>
    BY DEF PostTasks
<1>2. /\ queue \in Seq(Task) /\ deferred \in Seq(Posted)
      /\ Once(queue, Posted) /\ Once(deferred, Posted)
      /\ \A t \in Posted : ~(t \in Range(queue) /\ t \in Range(deferred))
    BY QueuedBoth DEF Inv
<1>3. /\ Batch[r] \in Seq(Task) /\ Range(Batch[r]) = ToSet(Batch[r]) /\ Once(Batch[r], Posted)
      /\ \A t \in ToSet(Batch[r]) : t \in Posted
    <2> DEFINE b == Batch[r]
    <2>1. DOMAIN b = 1..Len(b) /\ Len(b) \in Nat /\ b = [i \in 1..Len(b) |-> b[i]]
        BY SchedulerAssumption, LenProperties
    <2>2. \A i \in 1..Len(b) : b[i] \in Posted /\ b[i] \in Task /\ b[i].id \in FamilyOf(b[i])
        BY PostedElements, TaskKinds, OneFamily
    <2>3. \A i, j \in 1..Len(b) : i # j => FamilyOf(b[i]) \cap FamilyOf(b[j]) = {}
        BY <2>1, SchedulerAssumption
    <2>4. Range(b) = ToSet(b)
        BY DEF Range, ToSet
    <2>5. \A t \in ToSet(b) : t \in Posted
        BY PostedElements
    <2> HIDE DEF b
    <2>6. \A i, j \in 1..Len(b) : b[i] = b[j] => i = j
        BY <2>2, <2>3
    <2>7. b \in Seq(Task)
        BY <2>1, <2>2
    <2> QED
        BY <2>4, <2>5, <2>6, <2>7 DEF Once, b
<1>4. \A t \in ToSet(Batch[r]) : ~Waits(t) /\ t \notin Range(queue) /\ t \notin Range(deferred) /\ t \notin current
    BY <1>1 DEF Inv, NotPosted, Waits
<1>5. /\ queue' \in Seq(Task) /\ Once(queue', Posted)
      /\ \A t : t \in Range(queue') <=> t \in Range(queue) \/ t \in ToSet(Batch[r])
    BY <1>1, <1>2, <1>3, <1>4, ConcatOnce
<1>6. Queued(Both)'
    <2>1. deferred' \in Seq(Posted) /\ Once(deferred', Posted)
        BY <1>1, <1>2
    <2>2. \A t \in Posted : ~(t \in Range(queue') /\ t \in Range(deferred'))
        BY <1>1, <1>2, <1>4, <1>5
    <2> QED
        BY <1>5, <2>1, <2>2, BothQueued DEF Both
<1>7. Shapes' /\ OneCurrent'
    BY <1>1 DEF Inv, Shapes, OneCurrent
<1>8. CurrentIsOut'
    BY <1>1, <1>4, <1>5 DEF Inv, CurrentIsOut
<1>9. SlotsTaken'
    BY <1>1 DEF Inv, SlotsTaken
<1>10. \A t : Waits(t)' <=> Waits(t) \/ t \in ToSet(Batch[r])
    BY <1>1, <1>5 DEF Waits
<1>11. \A id : Unstarted(id)' <=> Unstarted(id)
    BY <1>1 DEF Unstarted, InSlot
<1>12. WaitsUnstarted'
    <2>1. \A t \in ToSet(Batch[r]) : \A id \in FamilyOf(t) : Unstarted(id)
        BY <1>1, IdsOfRequest DEF Inv, NotPosted
    <2> QED
        BY <1>10, <1>11, <2>1 DEF Inv, WaitsUnstarted
<1>13. NotPosted'
    <2> SUFFICES ASSUME NEW x \in Readers, reader'[x] = "new"
                 PROVE  /\ \A t \in ToSet(Batch[x]) : ~Waits(t)'
                        /\ \A id \in IdsOf(x) : Unstarted(id)'
        BY DEF NotPosted
    <2>1. x # r /\ reader[x] = "new"
        BY <1>1 DEF Inv, Shapes
    <2>2. ASSUME NEW t \in ToSet(Batch[x]), t \in ToSet(Batch[r]) PROVE FALSE
        <3>1. t.id \in IdsOf(x) /\ t.id \in IdsOf(r)
            BY <2>2, IdsOfRequest, PostedElements, OneFamily
        <3> QED
            BY <2>1, <3>1, SchedulerAssumption
    <2> QED
        BY <1>10, <1>11, <2>1, <2>2 DEF Inv, NotPosted
<1> QED
    BY <1>5, <1>6, <1>7, <1>8, <1>9, <1>12, <1>13 DEF Inv

LEMMA StopReaderKeeps ==
    ASSUME Inv, NEW r \in Readers, StopReader(r)
    PROVE  /\ Inv'
           /\ \A t : t \in Range(queue')
                <=> CancelFor(r, t) \/ (t \in Range(queue) /\ (t.kind = "cancel" \/ t.id \notin IdsOf(r)))
           /\ \A t : t \in Range(deferred')
                <=> t \in Range(deferred) /\ (t.kind = "cancel" \/ t.id \notin IdsOf(r))
<1>1. /\ reader' = [reader EXCEPT ![r] = "closed"] /\ deferred' = Without(deferred, IdsOf(r))
      /\ UNCHANGED <<current, pc, slotTask, slotState, outcome>>
    BY DEF StopReader
<1>2. PICK order \in SetToSeqs(IdsOf(r)) : queue' = Cancels(order) \o Without(queue, IdsOf(r))
    BY DEF StopReader
<1>3. /\ queue \in Seq(Task) /\ deferred \in Seq(Posted)
      /\ Once(queue, Posted) /\ Once(deferred, Posted)
      /\ \A t \in Posted : ~(t \in Range(queue) /\ t \in Range(deferred))
    BY QueuedBoth DEF Inv
<1> DEFINE w == Without(queue, IdsOf(r))
<1>4. /\ w \in Seq(Task) /\ Once(w, Posted)
      /\ \A t : t \in Range(w) <=> t \in Range(queue) /\ (t.kind = "cancel" \/ t.id \notin IdsOf(r))
    BY <1>3, WithoutKeeps
<1>5. /\ deferred' \in Seq(Posted) /\ Once(deferred', Posted)
      /\ \A t : t \in Range(deferred')
            <=> t \in Range(deferred) /\ (t.kind = "cancel" \/ t.id \notin IdsOf(r))
    BY <1>1, <1>3, WithoutKeeps
<1>6. /\ queue' \in Seq(Task) /\ Once(queue', Posted)
      /\ \A t : t \in Range(queue') <=> t \in Range(w) \/ CancelFor(r, t)
    <2> DEFINE q == Cancels(order) \o w
    <2>1. queue' = q
        BY <1>2
    <2> HIDE DEF w
    <2>2. q = Cancels(order) \o w
        OBVIOUS
    <2> HIDE DEF q
    <2>3. /\ q \in Seq(Task) /\ Once(q, Posted)
          /\ \A t : t \in Range(q) <=> t \in Range(w) \/ CancelFor(r, t)
        BY <1>2, <1>4, <2>2, CancelsFirst
    <2> QED
        BY <2>1, <2>3
<1> HIDE DEF w
<1>7. \A t \in Posted : ~CancelFor(r, t)
    BY OwnerOfId, TaskKinds DEF CancelFor
<1>8. Queued(Both)'
    <2>1. \A t \in Posted : ~(t \in Range(queue') /\ t \in Range(deferred'))
        BY <1>3, <1>4, <1>5, <1>6, <1>7
    <2> QED
        BY <1>5, <1>6, <2>1, BothQueued DEF Both
<1>9. \A t \in Posted : Waits(t)' => Waits(t)
    BY <1>1, <1>4, <1>5, <1>6, <1>7 DEF Waits
<1>10. Shapes' /\ OneCurrent'
    BY <1>1 DEF Inv, Shapes, OneCurrent
<1>11. CurrentIsOut'
    BY <1>1, <1>4, <1>5, <1>6, <1>7 DEF Inv, CurrentIsOut
<1>12. SlotsTaken'
    BY <1>1 DEF Inv, SlotsTaken
<1>13. \A id \in Ids : Unstarted(id) => Unstarted(id)'
    BY <1>1 DEF Unstarted, InSlot
<1>14. \A x \in Readers : reader'[x] = "new" => reader[x] = "new"
    BY <1>1 DEF Inv, Shapes
<1>15. Inv'
    BY <1>8, <1>9, <1>10, <1>11, <1>12, <1>13, <1>14, StartsByLeaving
<1> QED
    BY <1>4, <1>5, <1>6, <1>15

(* The steps that move at most one task and start none.                     *)
LEMMA TakeTaskKeeps ==
    ASSUME Inv, TakeTask
    PROVE  /\ Inv' /\ Head(queue) \in Task /\ current' = {Head(queue)}
           /\ \A t : t \in Range(queue) <=> t = Head(queue) \/ t \in Range(queue')
<1>1. /\ pc = "pop" /\ queue # <<>> /\ current' = {Head(queue)} /\ queue' = Tail(queue)
      /\ pc' = "callback" /\ UNCHANGED <<deferred, slotTask, slotState, reader, outcome>>
    BY DEF TakeTask
<1>2. /\ queue \in Seq(Task) /\ deferred \in Seq(Posted)
      /\ Once(queue, Posted) /\ Once(deferred, Posted)
      /\ \A t \in Posted : ~(t \in Range(queue) /\ t \in Range(deferred))
    BY QueuedBoth DEF Inv
<1>3. /\ Head(queue) \in Task /\ queue' \in Seq(Task) /\ Once(queue', Posted)
      /\ Range(queue) = {Head(queue)} \cup Range(queue')
      /\ Head(queue) \in Posted => Head(queue) \notin Range(queue')
    BY <1>1, <1>2, TailOnce
<1>4. Queued(Both)'
    <2>1. deferred' \in Seq(Posted) /\ Once(deferred', Posted)
        BY <1>1, <1>2
    <2>2. \A t \in Posted : ~(t \in Range(queue') /\ t \in Range(deferred'))
        BY <1>1, <1>2, <1>3
    <2> QED
        BY <1>3, <2>1, <2>2, BothQueued DEF Both
<1>5. \A t : Waits(t)' => Waits(t)
    BY <1>1, <1>3 DEF Waits
<1>6. Shapes' /\ OneCurrent'
    BY <1>1, <1>3 DEF Inv, Shapes, OneCurrent
<1>7. CurrentIsOut'
    BY <1>1, <1>2, <1>3 DEF CurrentIsOut
<1>8. SlotsTaken'
    BY <1>1 DEF Inv, SlotsTaken
<1>9. \A id \in Ids : Unstarted(id) => Unstarted(id)'
    BY <1>1 DEF Unstarted, InSlot
<1>10. Inv'
    BY <1>1, <1>4, <1>5, <1>6, <1>7, <1>8, <1>9, StartsByLeaving
<1> QED
    BY <1>1, <1>3, <1>10

LEMMA BeginUpdateKeeps ==
    ASSUME Inv, BeginUpdate
    PROVE  Inv' /\ \A t : t \in Range(queue') <=> t = NextResponse
<1>1. /\ pc = "pop" /\ queue = <<>> /\ queue' = <<NextResponse>> /\ pc' = "batch"
      /\ UNCHANGED <<deferred, current, slotTask, slotState, reader, outcome>>
    BY DEF BeginUpdate
<1>2. NextResponse \in Task /\ NextResponse \notin Posted
    BY TaskKinds
<1>3. /\ queue' \in Seq(Task) /\ \A t : t \in Range(queue') <=> t = NextResponse
      /\ Once(queue', Posted)
    <2> DEFINE q == <<NextResponse>>
    <2>1. q \in Seq(Task) /\ Len(q) = 1 /\ DOMAIN q = {1} /\ q[1] = NextResponse
        BY <1>2
    <2> HIDE DEF q
    <2>2. \A t : t \in Range(q) <=> t = NextResponse
        BY <2>1 DEF Range
    <2>3. Once(q, Posted)
        BY <2>1 DEF Once
    <2> QED
        BY <1>1, <2>1, <2>2, <2>3 DEF q
<1>4. Queued(Both)'
    <2>1. deferred' \in Seq(Posted) /\ Once(deferred', Posted)
        BY <1>1, QueuedBoth DEF Inv
    <2>2. \A t \in Posted : ~(t \in Range(queue') /\ t \in Range(deferred'))
        BY <1>2, <1>3
    <2> QED
        BY <1>3, <2>1, <2>2, BothQueued DEF Both
<1>5. \A t \in Posted : Waits(t)' => Waits(t)
    BY <1>1, <1>2, <1>3 DEF Waits
<1>6. Shapes' /\ OneCurrent'
    BY <1>1 DEF Inv, Shapes, OneCurrent
<1>7. CurrentIsOut'
    BY <1>1 DEF Inv, OneCurrent, CurrentIsOut
<1>8. SlotsTaken'
    BY <1>1 DEF Inv, SlotsTaken
<1>9. \A id \in Ids : Unstarted(id) => Unstarted(id)'
    BY <1>1 DEF Unstarted, InSlot
<1>10. Inv'
    BY <1>1, <1>4, <1>5, <1>6, <1>7, <1>8, <1>9, StartsByLeaving
<1> QED
    BY <1>3, <1>10

(* Neither the queues nor the places of tasks change.                       *)
LEMMA StayKeeps ==
    ASSUME Inv, UNCHANGED <<queue, deferred, current, slotTask, outcome>>, Shapes', OneCurrent',
           \A s \in Slots : slotState'[s] = "idle" <=> slotState[s] = "idle",
           \A r \in Readers : reader'[r] = "new" => reader[r] = "new"
    PROVE  Inv'
<1>1. Queued(Both)'
    BY DEF Inv, Both
<1>2. CurrentIsOut'
    BY DEF Inv, CurrentIsOut
<1>3. SlotsTaken'
    BY DEF Inv, SlotsTaken
<1>4. \A t : Waits(t)' => Waits(t)
    BY DEF Waits
<1>5. \A id \in Ids : Unstarted(id) => Unstarted(id)'
    BY DEF Unstarted, InSlot
<1> QED
    BY <1>1, <1>2, <1>3, <1>4, <1>5, StartsByLeaving

LEMMA DonePromptKeeps ==
    ASSUME Inv, NEW s \in Slots, DonePrompt(s)
    PROVE  Inv'
<1>1. /\ slotState[s] = "prompt"
      /\ slotState' = [x \in Slots |-> IF x \in StartTogether(s) THEN "generating" ELSE slotState[x]]
      /\ UNCHANGED <<queue, deferred, current, pc, slotTask, reader, outcome>>
    BY DEF DonePrompt
<1>2. \A x \in StartTogether(s) : x \in Slots /\ slotState[x] # "idle"
    BY <1>1 DEF StartTogether
<1>3. Shapes' /\ OneCurrent'
    BY <1>1 DEF Inv, Shapes, OneCurrent
<1>4. \A x \in Slots : slotState'[x] = "idle" <=> slotState[x] = "idle"
    BY <1>1, <1>2
<1> QED
    BY <1>1, <1>3, <1>4, StayKeeps

LEMMA InvInit == Init => Inv
<1> SUFFICES ASSUME Init PROVE Inv
    OBVIOUS
<1>1. /\ queue = <<>> /\ deferred = <<>> /\ current = {} /\ pc = "pop"
      /\ slotTask = [s \in Slots |-> None] /\ slotState = [s \in Slots |-> "idle"]
      /\ reader = [r \in Readers |-> "new"] /\ outcome = [id \in Ids |-> "none"]
    BY DEF Init
<1>2. Range(queue) = {} /\ Range(deferred) = {} /\ Len(queue) = 0 /\ Len(deferred) = 0 /\ 1..0 = {}
    BY <1>1 DEF Range
<1>3. Queued(Both)
    <2>1. Once(queue, Posted) /\ Once(deferred, Posted)
        BY <1>2 DEF Once
    <2>2. queue \in Seq(Task) /\ deferred \in Seq(Posted)
        BY <1>1
    <2> QED
        BY <1>2, <2>1, <2>2, BothQueued DEF Both
<1>4. Shapes /\ OneCurrent /\ CurrentIsOut
    BY <1>1 DEF Shapes, OneCurrent, CurrentIsOut
<1>5. SlotsTaken
    BY <1>1 DEF SlotsTaken
<1>6. \A t : ~Waits(t)
    BY <1>1, <1>2 DEF Waits
<1>7. \A id \in Ids : Unstarted(id)
    BY <1>1, OneFamily DEF Unstarted, InSlot
<1>8. NotPosted
    BY <1>6, <1>7, OwnerOfId DEF NotPosted
<1> QED
    BY <1>3, <1>4, <1>5, <1>6, <1>8 DEF Inv, WaitsUnstarted

LEMMA InvStep == Inv /\ [Next]_vars => Inv'
<1> SUFFICES ASSUME Inv, [Next]_vars PROVE Inv'
    OBVIOUS
<1>1. CASE TakeTask
    BY <1>1, TakeTaskKeeps
<1>2. CASE ProcessSingleTask
    <2>1. pc = "callback" /\ pc' = "pop" /\ current' = {} /\ UNCHANGED reader
        BY <1>2 DEF ProcessSingleTask
    <2>2. PICK task \in current : \/ ProcessCompletion(task) \/ ProcessSlotAction(task)
                                  \/ ProcessCancel(task)     \/ ProcessNext(task)
        BY <1>2 DEF ProcessSingleTask
    <2> QED
        BY <2>1, <2>2, ProcessCompletionKeeps, ProcessSlotActionKeeps, ProcessCancelKeeps, ProcessNextKeeps
<1>3. CASE BeginUpdate
    BY <1>3, BeginUpdateKeeps
<1>4. CASE EndUpdate
    <2>1. /\ pc' = "pop" /\ pc = "batch"
          /\ UNCHANGED <<queue, deferred, current, slotTask, slotState, reader, outcome>>
        BY <1>4 DEF EndUpdate
    <2>2. Shapes' /\ OneCurrent'
        BY <2>1 DEF Inv, Shapes, OneCurrent
    <2> QED
        BY <2>1, <2>2, StayKeeps
<1>5. CASE FailBatch
    <2>1. Processing \subseteq Slots /\ EndTurn(Processing, "error")
        BY <1>5 DEF FailBatch, Processing
    <2> QED
        BY <2>1, EndTurnKeeps
<1>6. ASSUME NEW s \in Slots, SlotStep(s) \/ FailSlot(s) PROVE Inv'
    <2>1. CASE DonePrompt(s)
        BY <2>1, DonePromptKeeps
    <2>2. CASE EndTurn({s}, "final") \/ EndTurn({s}, "error")
        <3>1. {s} \subseteq Slots
            OBVIOUS
        <3> QED
            BY <2>2, <3>1, EndTurnKeeps
    <2> QED
        BY <1>6, <2>1, <2>2 DEF SlotStep, AnswerEmptyPrompt, Finish, FailSlot
<1>7. ASSUME NEW r \in Readers, PostTasks(r) PROVE Inv'
    BY <1>7, PostTasksKeeps
<1>8. ASSUME NEW r \in Readers, StopReader(r) PROVE Inv'
    BY <1>8, StopReaderKeeps
<1>9. ASSUME NEW r \in Readers, ReceiveAll(r) PROVE Inv'
    <2>1. /\ reader' = [reader EXCEPT ![r] = "closed"]
          /\ UNCHANGED <<queue, deferred, current, pc, slotTask, slotState, outcome>>
        BY <1>9 DEF ReceiveAll
    <2>2. Shapes' /\ OneCurrent' /\ \A x \in Readers : reader'[x] = "new" => reader[x] = "new"
        BY <2>1 DEF Inv, Shapes, OneCurrent
    <2> QED
        BY <2>1, <2>2, StayKeeps
<1>10. CASE UNCHANGED vars
    <2>1. UNCHANGED <<queue, deferred, current, pc, slotTask, slotState, reader, outcome>>
        BY <1>10 DEF vars
    <2>2. Shapes' /\ OneCurrent'
        BY <2>1 DEF Inv, Shapes, OneCurrent
    <2> QED
        BY <2>1, <2>2, StayKeeps
<1> QED
    BY <1>1, <1>2, <1>3, <1>4, <1>5, <1>6, <1>7, <1>8, <1>9, <1>10 DEF Next, LoopStep

(* Only a task that is put off enters the history, and nothing leaves it.   *)
LEMMA DeferSurvivors ==
    ASSUME NEW task \in Posted, Defer(task), NEW r, r = Owner[task.id]
    PROVE  /\ survivors \subseteq survivors'
           /\ survivors \subseteq Ids => survivors' \subseteq Ids
           /\ reader[r] = "closed" => FamilyOf(task) \subseteq survivors'
<1>1. survivors' = survivors \cup {id \in FamilyOf(task) : reader[Owner[id]] = "closed"}
    BY DEF Defer
<1>2. \A id \in FamilyOf(task) : id \in Ids
    BY OneFamily
<1>3. task \in ToSet(Batch[r]) /\ r \in Readers
    BY OneFamily, OwnerOfId
<1>4. \A id \in FamilyOf(task) : Owner[id] = r
    BY <1>3, IdsOfRequest, OwnerOfId
<1> QED
    BY <1>1, <1>2, <1>4

LEMMA SurvivorsGrow ==
    ASSUME Inv, [Next]_vars
    PROVE  survivors \subseteq survivors' /\ (survivors \subseteq Ids => survivors' \subseteq Ids)
<1>1. CASE ProcessSingleTask
    <2>1. PICK task \in current : \/ ProcessCompletion(task) \/ ProcessSlotAction(task)
                                  \/ ProcessCancel(task)     \/ ProcessNext(task)
        BY <1>1 DEF ProcessSingleTask
    <2>2. task \in Task
        BY DEF Inv, OneCurrent
    <2>3. CASE ProcessCompletion(task)
        <3>1. task \in Posted
            BY <2>2, <2>3, TaskKinds DEF ProcessCompletion
        <3>2. ASSUME NEW s \in Free, Launch(task, s) PROVE UNCHANGED survivors
            BY <3>1, <3>2, LaunchCases DEF LaunchAll, LaunchFails, Free
        <3>3. Defer(task) \/ UNCHANGED survivors
            BY <2>3, <3>2 DEF ProcessCompletion
        <3> QED
            BY <3>1, <3>3, DeferSurvivors
    <2>4. CASE ProcessSlotAction(task)
        <3>1. task \in Posted
            BY <2>2, <2>4, TaskKinds DEF ProcessSlotAction
        <3>2. Defer(task) \/ UNCHANGED survivors
            BY <2>4 DEF ProcessSlotAction
        <3> QED
            BY <3>1, <3>2, DeferSurvivors
    <2>5. CASE ProcessCancel(task) \/ ProcessNext(task)
        BY <2>5 DEF ProcessCancel, ProcessNext
    <2> QED
        BY <2>1, <2>3, <2>4, <2>5
<1>2. CASE TakeTask \/ BeginUpdate \/ EndUpdate \/ FailBatch \/ UNCHANGED vars
    BY <1>2 DEF TakeTask, BeginUpdate, EndUpdate, FailBatch, EndTurn, vars
<1>3. ASSUME NEW s \in Slots, SlotStep(s) \/ FailSlot(s) PROVE UNCHANGED survivors
    BY <1>3 DEF SlotStep, AnswerEmptyPrompt, DonePrompt, Finish, FailSlot, EndTurn
<1>4. ASSUME NEW r \in Readers, PostTasks(r) \/ ReceiveAll(r) \/ StopReader(r)
      PROVE  UNCHANGED survivors
    BY <1>4 DEF PostTasks, ReceiveAll, StopReader
<1> QED
    BY <1>1, <1>2, <1>3, <1>4 DEF Next, LoopStep

(* Queues, slots, readers and results stay within their types, and the loop *)
(* has at most one task in process.                                         *)
THEOREM TypeCorrect == Spec => []TypeOK
<1>1. Inv /\ survivors \subseteq Ids => TypeOK
    <2> SUFFICES ASSUME Inv, survivors \subseteq Ids PROVE TypeOK
        OBVIOUS
    <2>1. queue \in Seq(Task) /\ deferred \in Seq(Posted)
        BY QueuedBoth DEF Inv
    <2>2. current \subseteq Task /\ (current = {} \/ \E t : current = {t})
        BY DEF Inv, OneCurrent
    <2>3. Cardinality(current) = 0 \/ Cardinality(current) = 1
        BY <2>2, FS_EmptySet, FS_Singleton
    <2> QED
        BY <2>1, <2>2, <2>3 DEF TypeOK, Inv, Shapes
<1>2. Init => survivors \subseteq Ids
    BY DEF Init
<1>3. Inv /\ survivors \subseteq Ids /\ [Next]_vars => (survivors \subseteq Ids)'
    BY SurvivorsGrow
<1> QED
    BY <1>1, <1>2, <1>3, InvInit, InvStep, PTL DEF Spec

-----------------------------------------------------------------------------
(* One place                                                                *)

LEMMA TaskOfId ==
    ASSUME NEW t \in Posted, NEW id \in FamilyOf(t)
    PROVE  \A x \in Task : x.kind # "cancel" /\ id \in FamilyOf(x) <=> x = t
<1>1. id # None /\ \A x \in Posted : id \in FamilyOf(x) => x = t
    BY OneFamily
<1>2. \A x \in Posted : x.kind # "cancel"
    BY PostedIsWork DEF Work
<1>3. id \notin FamilyOf(NextResponse)
    BY <1>1 DEF NextResponse, FamilyOf, ToSet
<1>4. \A c \in Ids : Cancel(c).kind = "cancel"
    BY DEF Cancel
<1>5. \A x \in Task : x \in Posted \/ (\E c \in Ids : x = Cancel(c)) \/ x = NextResponse
    BY DEF Task
<1> QED
    BY <1>1, <1>2, <1>3, <1>4, <1>5

(* How often an id occurs in a queue: once if its task is there.            *)
LEMMA Occurs ==
    ASSUME NEW q \in Seq(Task), Once(q, Posted), NEW t \in Posted, NEW id \in FamilyOf(t)
    PROVE  Occurrences(q, id) = IF t \in Range(q) THEN 1 ELSE 0
<1> DEFINE I == {i \in DOMAIN q : q[i].kind # "cancel" /\ id \in FamilyOf(q[i])}
<1>1. DOMAIN q = 1..Len(q) /\ \A i \in 1..Len(q) : q[i] \in Task
    BY LenProperties, ElementOfSeq
<1>4. \A x \in Task : x.kind # "cancel" /\ id \in FamilyOf(x) <=> x = t
    BY TaskOfId
<1>5. \A i : i \in I <=> i \in 1..Len(q) /\ q[i] = t
    BY <1>1, <1>4
<1>6. CASE t \in Range(q)
    <2>1. PICK i \in 1..Len(q) : q[i] = t
        BY <1>1, <1>6 DEF Range
    <2>2. I = {i}
        BY <1>5, <2>1 DEF Once
    <2> QED
        BY <1>6, <2>2, FS_Singleton DEF Occurrences
<1>7. CASE t \notin Range(q)
    <2>1. I = {}
        BY <1>1, <1>5, <1>7 DEF Range
    <2> QED
        BY <1>7, <2>1, FS_EmptySet DEF Occurrences
<1> QED
    BY <1>6, <1>7

LEMMA OccursInProcess ==
    ASSUME OneCurrent, NEW t \in Posted, NEW id \in FamilyOf(t)
    PROVE  Cardinality({x \in current : x.kind # "cancel" /\ id \in FamilyOf(x)})
             = IF t \in current THEN 1 ELSE 0
<1> DEFINE I == {x \in current : x.kind # "cancel" /\ id \in FamilyOf(x)}
<1>3. \A x \in Task : x.kind # "cancel" /\ id \in FamilyOf(x) <=> x = t
    BY TaskOfId
<1>4. I = IF t \in current THEN {t} ELSE {}
    BY <1>3 DEF OneCurrent
<1> QED
    BY <1>4, FS_EmptySet, FS_Singleton

LEMMA HeldOnce ==
    ASSUME SlotsTaken, NEW id, id # None
    PROVE  HeldBySlots(id) = IF InSlot(id) THEN 1 ELSE 0
<1> DEFINE I == {s \in Slots : slotTask[s] = id}
<1>1. CASE InSlot(id)
    <2>1. PICK s \in Slots : slotTask[s] = id
        BY <1>1 DEF InSlot
    <2>2. I = {s}
        BY <2>1 DEF SlotsTaken
    <2> QED
        BY <1>1, <2>2, FS_Singleton DEF HeldBySlots
<1>2. CASE ~InSlot(id)
    <2>1. I = {}
        BY <1>2 DEF InSlot
    <2> QED
        BY <1>2, <2>1, FS_EmptySet DEF HeldBySlots
<1> QED
    BY <1>1, <1>2

(* An id is pending as long as its task waits, and only once.               *)
LEMMA PendingOnce ==
    ASSUME Inv, NEW t \in Posted, NEW id \in FamilyOf(t)
    PROVE  Pending(id) = IF Waits(t) THEN 1 ELSE 0
<1>1. /\ queue \in Seq(Task) /\ deferred \in Seq(Posted)
      /\ Once(queue, Posted) /\ Once(deferred, Posted)
      /\ ~(t \in Range(queue) /\ t \in Range(deferred))
    BY QueuedBoth DEF Inv
<1>2. deferred \in Seq(Task)
    <2>1. Posted \subseteq Task
        BY TaskKinds
    <2> QED
        BY <1>1, <2>1
<1>3. Occurrences(queue, id) = IF t \in Range(queue) THEN 1 ELSE 0
    BY <1>1, Occurs
<1>4. Occurrences(deferred, id) = IF t \in Range(deferred) THEN 1 ELSE 0
    BY <1>1, <1>2, Occurs
<1>5. Cardinality({x \in current : x.kind # "cancel" /\ id \in FamilyOf(x)})
        = IF t \in current THEN 1 ELSE 0
    BY OccursInProcess DEF Inv
<1>6. t \in current => t \notin Range(queue) /\ t \notin Range(deferred)
    BY DEF Inv, CurrentIsOut
<1> QED
    BY <1>1, <1>3, <1>4, <1>5, <1>6 DEF Pending, Waits

(* A task is queued, deferred, in process or in a slot, never in two of     *)
(* these, whatever is posted, cancelled, deferred or refused in between;    *)
(* and once a final result went out it is in none of them.                  *)
THEOREM OnePlaceAlways == Spec => []OnePlace
<1>1. Inv => OnePlace
    <2> SUFFICES ASSUME Inv, NEW id \in Ids
                 PROVE  /\ Pending(id) + HeldBySlots(id) <= 1
                        /\ outcome[id] # "none" => HeldBySlots(id) = 0
                        /\ outcome[id] = "final" => Pending(id) = 0
        BY DEF OnePlace
    <2>1. PICK t \in Posted : id \in FamilyOf(t)
        BY OneFamily
    <2>2. id # None
        BY OneFamily
    <2>3. Pending(id) = IF Waits(t) THEN 1 ELSE 0
        BY <2>1, PendingOnce
    <2>4. HeldBySlots(id) = IF InSlot(id) THEN 1 ELSE 0
        BY <2>2, HeldOnce DEF Inv
    <2>5. Waits(t) => ~InSlot(id) /\ outcome[id] = "none"
        BY <2>1 DEF Inv, WaitsUnstarted, Unstarted
    <2>6. InSlot(id) => outcome[id] = "none"
        BY <2>2 DEF Inv, SlotsTaken, InSlot
    <2> QED
        BY <2>3, <2>4, <2>5, <2>6
<1> QED
    BY <1>1, InvInit, InvStep, PTL DEF Spec

-----------------------------------------------------------------------------
(* Deferred tasks are not forgotten                                         *)

OnlyCompletions ==
    /\ \A t \in Posted : t.kind = "completion"
    /\ Refused = {} /\ ~MayFail /\ ~MayStop

(* What is deferred waits for a slot at work, or for a task that will take  *)
(* one.                                                                     *)
CalledBack ==
    deferred # <<>> => Processing # {} \/ HasWork(Range(queue)) \/ HasWork(current)
NoErrors == \A id \in Ids : outcome[id] # "error"

(* A completion is put off only while a slot is at work.                    *)
LEMMA PutOffByWork ==
    ASSUME Inv, NEW task \in Posted, Processing = {}
    PROVE  /\ Candidates(task) \cap Free # {}
           /\ \A s \in Free : ~(Cardinality(ChildSlots(s)) < Len(task.children))
<1>1. Free = Slots /\ NSlots \in Nat \ {0} /\ task.pin \in Int
    BY SchedulerAssumption, PostedIsWork DEF Free, Work
<1>2. Candidates(task) \cap Free # {}
    <2>1. 0 \in Slots /\ task.pin % NSlots \in Slots
        BY <1>1 DEF Slots
    <2> QED
        BY <1>1, <2>1 DEF Candidates
<1>3. ASSUME NEW s \in Slots PROVE ~(Cardinality(Slots \ {s}) < Len(task.children))
    <2>1. IsFiniteSet(Slots) /\ Cardinality(Slots) = NSlots
        <3>1. NSlots - 1 \in Int /\ NSlots - 1 - 0 + 1 = NSlots /\ 0 <= NSlots - 1
            BY <1>1
        <3> QED
            BY <1>1, <3>1, FS_Interval DEF Slots
    <2>2. Cardinality(Slots \ {s}) = NSlots - 1
        BY <2>1, FS_RemoveElement
    <2>3. Len(task.children) < NSlots /\ Len(task.children) \in Nat
        BY SchedulerAssumption, LaunchOrder
    <2> QED
        BY <1>1, <2>2, <2>3
<1> QED
    BY <1>1, <1>2, <1>3 DEF ChildSlots

(* A slot that is released calls a deferred task back; none is put off.     *)
LEMMA ReleaseCallsBack ==
    ASSUME Inv, NEW S, S \subseteq Slots, S # {}, Release(S)
    PROVE  deferred' # <<>> => HasWork(Range(queue'))
<1>1. Shapes /\ Queued(Both)
    BY DEF Inv
<1>2. Moved(Both, Both') /\ (deferred # <<>> => HasWork(Range(queue')))
    BY <1>1, ReleaseMoves
<1>3. ASSUME deferred' # <<>> PROVE deferred # <<>>
    <2>1. /\ \A t : t \in Range(queue') \/ t \in Range(deferred') <=> t \in Range(queue) \/ t \in Range(deferred)
          /\ \A t \in Range(queue) : t \in Range(queue')
          /\ \A t \in Posted : ~(t \in Range(queue') /\ t \in Range(deferred'))
          /\ deferred' \in Seq(Posted)
        BY <1>2 DEF Moved, Queued, Both
    <2>2. \E t \in Posted : t \in Range(deferred')
        BY <1>3, <2>1, EmptySeq, LenProperties, ElementOfSeq DEF Range
    <2>3. \E t : t \in Range(deferred)
        BY <2>1, <2>2
    <2>4. deferred = <<>> => Range(deferred) = {}
        BY DEF Range
    <2> QED
        BY <2>3, <2>4
<1> QED
    BY <1>2, <1>3

LEMMA CompletionCallsBack ==
    ASSUME Inv, CalledBack, NoErrors, OnlyCompletions, pc' = "pop", current' = {}, UNCHANGED reader,
           NEW task \in current, task \in Posted, ProcessCompletion(task)
    PROVE  CalledBack' /\ NoErrors'
<1>1. CASE Defer(task) /\ Processing # {}
    BY <1>1 DEF Defer, CalledBack, NoErrors, Processing
<1>2. ASSUME NEW s \in Free, ~(Cardinality(ChildSlots(s)) < Len(task.children)), Launch(task, s)
      PROVE  CalledBack' /\ NoErrors'
    <2>1. s \in Slots
        BY DEF Free
    <2>2. LaunchAll(task, s, Append(task.children, task.id))
        BY <1>2, <2>1, LaunchCases DEF OnlyCompletions
    <2>3. slotState'[s] = "prompt" /\ UNCHANGED outcome
        BY <1>2, <2>2, LaunchStarts DEF LaunchAll
    <2>4. Processing' # {}
        BY <2>1, <2>3 DEF Processing
    <2> QED
        BY <2>3, <2>4 DEF CalledBack, NoErrors
<1> QED
    BY <1>1, <1>2, PutOffByWork DEF ProcessCompletion

LEMMA EndTurnCallsBack ==
    ASSUME Inv, NoErrors, NEW s \in Slots, EndTurn({s}, "final")
    PROVE  CalledBack' /\ NoErrors'
<1>1. Send({slotTask[x] : x \in {s}}, "final") /\ Release({s})
    BY DEF EndTurn
<1>2. {s} \subseteq Slots /\ {s} # {}
    OBVIOUS
<1>3. CalledBack'
    BY <1>1, <1>2, ReleaseCallsBack DEF CalledBack
<1>4. NoErrors'
    BY <1>1, SendSets DEF NoErrors, Inv
<1> QED
    BY <1>3, <1>4

LEMMA CallsBackStep ==
    ASSUME OnlyCompletions, Inv, CalledBack, NoErrors, [Next]_vars
    PROVE  CalledBack' /\ NoErrors'
<1>1. CASE TakeTask
    <2>1. /\ current' = {Head(queue)} /\ UNCHANGED <<deferred, slotState, outcome>> /\ current = {}
          /\ \A t : t \in Range(queue) <=> t = Head(queue) \/ t \in Range(queue')
        BY <1>1, TakeTaskKeeps DEF TakeTask, Inv, OneCurrent
    <2>2. HasWork(Range(queue)) => HasWork(Range(queue')) \/ HasWork(current')
        BY <2>1 DEF HasWork
    <2>3. ~HasWork(current)
        BY <2>1 DEF HasWork
    <2> QED
        BY <2>1, <2>2, <2>3 DEF CalledBack, NoErrors, Processing
<1>2. CASE ProcessSingleTask
    <2>1. pc = "callback" /\ pc' = "pop" /\ current' = {} /\ UNCHANGED reader
        BY <1>2 DEF ProcessSingleTask
    <2>2. PICK task \in current : \/ ProcessCompletion(task) \/ ProcessSlotAction(task)
                                  \/ ProcessCancel(task)     \/ ProcessNext(task)
        BY <1>2 DEF ProcessSingleTask
    <2>3. current = {task} /\ task \in Task
        BY <2>1 DEF Inv, OneCurrent
    <2>4. CASE ProcessCompletion(task)
        <3>1. task \in Posted
            BY <2>3, <2>4, TaskKinds DEF ProcessCompletion
        <3> QED
            BY <2>1, <2>4, <3>1, CompletionCallsBack
    <2>5. CASE ProcessSlotAction(task)
        <3>1. task \in Posted /\ task.kind = "slot"
            BY <2>3, <2>5, TaskKinds DEF ProcessSlotAction
        <3> QED
            BY <3>1 DEF OnlyCompletions
    <2>6. CASE ProcessCancel(task) \/ ProcessNext(task)
        <3>1. task.kind \in {"cancel", "next"} /\ UNCHANGED outcome
            BY <2>6 DEF ProcessCancel, ProcessNext
        <3>2. ~HasWork(current)
            BY <2>3, <3>1, TaskKinds DEF HasWork
        <3>3. CASE UNCHANGED <<queue, deferred, slotState>>
            BY <3>1, <3>2, <3>3 DEF CalledBack, NoErrors, Processing
        <3>4. ASSUME NEW S, S \subseteq Slots, Release(S) PROVE CalledBack' /\ NoErrors'
            <4>1. CASE S = {}
                <5>1. /\ queue' = queue /\ deferred' = deferred
                      /\ \A x \in Slots : slotState'[x] = slotState[x]
                    BY <3>4, <4>1, ReleaseMoves DEF Inv
                <5> QED
                    BY <3>1, <3>2, <5>1 DEF CalledBack, NoErrors, Processing
            <4>2. CASE S # {}
                BY <3>1, <3>4, <4>2, ReleaseCallsBack DEF CalledBack, NoErrors
            <4> QED
                BY <4>1, <4>2
        <3>5. {x \in Slots : slotTask[x] = task.id} \subseteq Slots
            OBVIOUS
        <3> QED
            BY <2>6, <3>3, <3>4, <3>5 DEF ProcessCancel, ProcessNext
    <2> QED
        BY <2>2, <2>4, <2>5, <2>6
<1>3. CASE BeginUpdate \/ EndUpdate \/ UNCHANGED vars
    BY <1>3 DEF BeginUpdate, EndUpdate, vars, CalledBack, NoErrors, Processing, HasWork
<1>4. ASSUME NEW s \in Slots, SlotStep(s) PROVE CalledBack' /\ NoErrors'
    <2>1. CASE DonePrompt(s)
        <3>1. UNCHANGED <<queue, deferred, current, outcome>>
            BY <2>1 DEF DonePrompt
        <3>2. Processing # {} => Processing' # {}
            BY <2>1 DEF DonePrompt, Processing
        <3> QED
            BY <3>1, <3>2 DEF CalledBack, NoErrors
    <2>2. CASE EndTurn({s}, "final")
        BY <2>2, EndTurnCallsBack
    <2> QED
        BY <1>4, <2>1, <2>2 DEF SlotStep, AnswerEmptyPrompt, Finish
<1>5. ASSUME NEW r \in Readers, PostTasks(r) PROVE CalledBack' /\ NoErrors'
    <2>1. queue' = queue \o Batch[r] /\ UNCHANGED <<deferred, current, slotState, outcome>>
        BY <1>5 DEF PostTasks
    <2>2. HasWork(Range(queue)) => HasWork(Range(queue'))
        <3>1. queue \in Seq(Task) /\ Batch[r] \in Seq(Work)
            BY QueuedBoth, SchedulerAssumption DEF Inv
        <3>2. \A t \in Range(queue) : t \in Range(queue')
            BY <2>1, <3>1, ConcatProperties DEF Range
        <3> QED
            BY <3>2 DEF HasWork
    <2> QED
        BY <2>1, <2>2 DEF CalledBack, NoErrors, Processing
<1>6. ASSUME NEW r \in Readers, ReceiveAll(r) PROVE CalledBack' /\ NoErrors'
    BY <1>6 DEF ReceiveAll, CalledBack, NoErrors, Processing
<1>7. ASSUME NEW r \in Readers, StopReader(r) PROVE FALSE
    <2>1. IdsOf(r) \subseteq Ids
        BY OwnerOfId
    <2> QED
        BY <1>7, <2>1 DEF StopReader, OnlyCompletions, NoErrors
<1>8. ~FailBatch /\ \A s \in Slots : ~FailSlot(s)
    BY DEF OnlyCompletions, FailBatch, FailSlot
<1> QED
    BY <1>1, <1>2, <1>3, <1>4, <1>5, <1>6, <1>7, <1>8 DEF Next, LoopStep

(* The loop rests only with nothing deferred when every task is a           *)
(* completion and none is refused, fails or is stopped: each slot that is   *)
(* released calls one of them back, which takes a slot or finds one at work.*)
THEOREM NothingStarves ==
    ASSUME OnlyCompletions
    PROVE  Spec => []NothingDeferredAtRest
<1>1. Init => CalledBack /\ NoErrors
    BY DEF Init, CalledBack, NoErrors
<1>2. Inv /\ CalledBack => NothingDeferredAtRest
    BY DEF Inv, OneCurrent, CalledBack, NothingDeferredAtRest, HasWork, Range
<1>3. Inv /\ CalledBack /\ NoErrors /\ [Next]_vars => CalledBack' /\ NoErrors'
    BY CallsBackStep
<1> QED
    BY <1>1, <1>2, <1>3, InvInit, InvStep, PTL DEF Spec

-----------------------------------------------------------------------------
(* No slot works for nobody or waits for nobody                             *)

(* Only what somebody waits for is queued, but for what was in process when *)
(* its CANCEL was posted; and only what nobody waits for is cancelled.      *)
Minded(t) ==
    \/ reader[Owner[t.id]] = "waiting"
    \/ FamilyOf(t) \subseteq survivors
    \/ t \in current /\ \A id \in FamilyOf(t) : CancelComing(id)
WaitsOpen == \A t \in Posted : Waits(t) => Minded(t)
CancelsClosed == \A id \in Ids : CancelComing(id) => reader[Owner[id]] = "closed"
WaitingIsChild == \A s \in Slots : slotState[s] = "wait_other" => IsChild(slotTask[s])
WorkIsCancelled ==
    \A s \in Slots : slotState[s] # "idle" /\ reader[Owner[slotTask[s]]] = "closed"
        => CancelComing(slotTask[s]) \/ slotTask[s] \in survivors

(* What a child waits for when its parent processes the prompt no more.     *)
Fostered(id) ==
    \/ outcome[ParentOf[id]] = "error"
    \/ CancelComing(id)
    \/ id \in survivors
    \/ ParentOf[id] \in EmptyPrompt /\ outcome[ParentOf[id]] = "final"
ChildrenMinded ==
    \A s \in Slots : slotState[s] = "wait_other" =>
        \/ \E p \in Slots : slotState[p] = "prompt" /\ slotTask[p] = ParentOf[slotTask[s]]
        \/ Fostered(slotTask[s])

Watched ==
    WaitsOpen /\ CancelsClosed /\ WaitingIsChild /\ WorkIsCancelled /\ ChildrenMinded

LEMMA CancelsInQueue ==
    /\ \A id : CancelComing(id) <=> Cancel(id) \in Range(queue) \/ Cancel(id) \in current
    /\ \A id : CancelComing(id)' <=> Cancel(id) \in Range(queue') \/ Cancel(id) \in current'
    BY DEF CancelComing, ToSet, Range

(* A family has one owner.                                                  *)
LEMMA FamilyOwner ==
    ASSUME NEW id \in Ids
    PROVE  ParentOf[id] \in Ids /\ Owner[ParentOf[id]] = Owner[id] /\ Owner[id] \in Readers
<1>1. PICK t \in Posted : id \in FamilyOf(t)
    BY OneFamily
<1>2. ParentOf[id] = t.id /\ t.id \in FamilyOf(t) /\ t.id \in Ids
    BY <1>1, OwnerOfId, OneFamily
<1>3. t \in ToSet(Batch[Owner[id]]) /\ Owner[id] \in Readers
    BY <1>1, OwnerOfId
<1>4. t.id \in IdsOf(Owner[id])
    BY <1>2, <1>3, IdsOfRequest
<1> QED
    BY <1>2, <1>3, <1>4, OwnerOfId

LEMMA OwnerOfTask ==
    ASSUME NEW r \in Readers, NEW t \in ToSet(Batch[r])
    PROVE  t \in Posted /\ Owner[t.id] = r /\ \A id \in FamilyOf(t) : Owner[id] = r
<1>1. t \in Posted /\ t.id \in FamilyOf(t)
    BY PostedElements, OneFamily
<1>2. \A id \in FamilyOf(t) : id \in IdsOf(r)
    BY IdsOfRequest
<1> QED
    BY <1>1, <1>2, OwnerOfId

(* What was queued and not in process is as before, or less of it.          *)
LEMMA WaitsLess ==
    ASSUME WaitsOpen, UNCHANGED reader, survivors \subseteq survivors',
           \A t \in Posted : Waits(t)' => Waits(t) /\ t \notin current
    PROVE  WaitsOpen'
<1> SUFFICES ASSUME NEW t \in Posted, Waits(t)' PROVE Minded(t)'
    BY DEF WaitsOpen
<1>1. reader[Owner[t.id]] = "waiting" \/ FamilyOf(t) \subseteq survivors
    BY DEF WaitsOpen, Minded
<1> QED
    BY <1>1 DEF Minded

(* No task starts: the slots of S are released, and a child that loses its  *)
(* parent has something else to wait for.                                   *)
LosesParent(s, p) ==
    slotState[s] = "wait_other" /\ ParentOf[slotTask[s]] = slotTask[p] /\ slotState[p] = "prompt"
Kept(out) == \A id \in Ids : outcome[id] # "none" => out[id] = outcome[id]
LEMMA ReleaseWatched ==
    ASSUME Inv, Watched, WaitsOpen', UNCHANGED reader, survivors \subseteq survivors',
           NEW S, S \subseteq Slots,
           \A s \in Slots : /\ slotTask'[s] = IF s \in S THEN None ELSE slotTask[s]
                            /\ slotState'[s] = IF s \in S THEN "idle" ELSE slotState[s],
           \A id \in Ids : CancelComing(id)' => CancelComing(id),
           \A s \in Slots \ S : \A id \in Ids :
                slotTask[s] = id /\ CancelComing(id) => CancelComing(id)',
           Kept(outcome'),
           \A s \in Slots \ S : \A p \in S : \A id \in Ids :
                slotTask[s] = id /\ LosesParent(s, p) => Fostered(id)'
    PROVE  Watched'
<1>1. \A s \in Slots : slotState'[s] # "idle" =>
        s \notin S /\ slotTask'[s] = slotTask[s] /\ slotState'[s] = slotState[s] /\ slotTask[s] \in Ids
    BY DEF Inv, Shapes, SlotsTaken
<1>3. CancelsClosed'
    BY DEF Watched, CancelsClosed
<1>4. WaitingIsChild'
    BY <1>1 DEF Watched, WaitingIsChild, IsChild
<1>5. WorkIsCancelled'
    <2> SUFFICES ASSUME NEW s \in Slots, slotState'[s] # "idle", NEW id, id = slotTask'[s],
                        reader'[Owner[id]] = "closed"
                 PROVE  CancelComing(id)' \/ id \in survivors'
        BY DEF WorkIsCancelled, CancelComing
    <2>1. s \notin S /\ slotTask[s] = id /\ id \in Ids /\ slotState[s] # "idle"
        BY <1>1
    <2>2. CancelComing(id) \/ id \in survivors
        BY <2>1 DEF Watched, WorkIsCancelled
    <2> QED
        BY <2>1, <2>2
<1>6. ChildrenMinded'
    <2> SUFFICES ASSUME NEW s \in Slots, slotState'[s] = "wait_other", NEW id, id = slotTask'[s]
                 PROVE  \/ \E p \in Slots : slotState'[p] = "prompt" /\ slotTask'[p] = ParentOf[id]
                        \/ Fostered(id)'
        BY DEF ChildrenMinded, Fostered, CancelComing
    <2>1. s \notin S /\ slotState[s] = "wait_other" /\ slotTask[s] = id /\ id \in Ids
        BY <1>1
    <2>2. ParentOf[id] \in Ids
        BY <2>1, FamilyOwner
    <2>3. CASE \E p \in Slots : slotState[p] = "prompt" /\ slotTask[p] = ParentOf[id]
        BY <2>1, <2>3 DEF LosesParent
    <2>4. CASE Fostered(id)
        <3>1. CASE outcome[ParentOf[id]] # "none"
            BY <2>1, <2>2, <2>4, <3>1 DEF Kept, Fostered
        <3>2. CASE outcome[ParentOf[id]] = "none"
            BY <2>1, <2>4, <3>2 DEF Fostered
        <3> QED
            BY <3>1, <3>2
    <2> QED
        BY <2>1, <2>3, <2>4 DEF Watched, ChildrenMinded
<1> QED
    BY <1>3, <1>4, <1>5, <1>6 DEF Watched

LEMMA MovedKeepsCancels ==
    ASSUME Queued(Both), Moved(Both, Both'), NEW id \in Ids
    PROVE  Cancel(id) \in Range(queue') <=> Cancel(id) \in Range(queue)
<1>1. /\ \A t : t \in Range(queue') \/ t \in Range(deferred') <=> t \in Range(queue) \/ t \in Range(deferred)
      /\ \A t \in Range(queue) : t \in Range(queue')
      /\ deferred' \in Seq(Posted)
    BY DEF Moved, Queued, Both
<1>2. \A t \in Range(deferred) : t \in Posted
    BY QueuedBoth
<1>3. \A t \in Range(deferred') : t \in Posted
    BY <1>1, LenProperties, ElementOfSeq DEF Range
<1>4. Cancel(id) \notin Posted
    BY TaskKinds
<1> QED
    BY <1>1, <1>2, <1>3, <1>4

LEMMA MovedOpen ==
    ASSUME Inv, WaitsOpen, UNCHANGED reader, survivors \subseteq survivors', Moved(Both, Both'),
           \A t \in Posted : t \notin current'
    PROVE  WaitsOpen'
<1>1. \A t : t \in Range(queue') \/ t \in Range(deferred') <=> t \in Range(queue) \/ t \in Range(deferred)
    BY DEF Moved, Both
<1>2. \A t \in Posted : Waits(t)' => Waits(t) /\ t \notin current
    BY <1>1 DEF Waits, Inv, CurrentIsOut
<1> QED
    BY <1>2, WaitsLess

LEMMA EndTurnWatched ==
    ASSUME Inv, Watched, pc = "batch",
           NEW S, S \subseteq Slots, NEW result \in {"final", "error"}, EndTurn(S, result),
           \A s \in Slots \ S : \A p \in S :
                LosesParent(s, p) => result = "error" \/ slotTask[p] \in EmptyPrompt
    PROVE  Watched'
<1>1. /\ Send({slotTask[s] : s \in S}, result) /\ Release(S)
      /\ UNCHANGED <<current, reader, survivors>> /\ current = {}
    BY DEF EndTurn, Inv, OneCurrent
<1>2. Shapes /\ Queued(Both)
    BY DEF Inv
<1>3. \A id \in Ids : outcome'[id] = IF id \in {slotTask[s] : s \in S} /\ reader[Owner[id]] = "waiting"
                                     THEN result ELSE outcome[id]
    BY <1>1, <1>2, SendSets
<1>4. /\ Moved(Both, Both')
      /\ \A s \in Slots : /\ slotTask'[s] = IF s \in S THEN None ELSE slotTask[s]
                          /\ slotState'[s] = IF s \in S THEN "idle" ELSE slotState[s]
    BY <1>1, <1>2, ReleaseMoves
<1>5. WaitsOpen'
    BY <1>1, <1>4, MovedOpen DEF Watched
<1>6. \A id \in Ids : CancelComing(id)' <=> CancelComing(id)
    BY <1>1, <1>2, <1>4, MovedKeepsCancels, CancelsInQueue
<1>7. \A id \in Ids : id # None
    BY OneFamily
<1>8. \A id \in Ids : CancelComing(id) => CancelComing(id)'
    BY <1>6
<1>9. Kept(outcome')
    <2>1. \A s \in S : slotTask[s] # None => outcome[slotTask[s]] = "none"
        BY DEF Inv, SlotsTaken
    <2> QED
        BY <1>3, <1>7, <2>1 DEF Kept
<1>10. ASSUME NEW s \in Slots \ S, NEW p \in S, NEW id \in Ids, slotTask[s] = id, LosesParent(s, p)
       PROVE  Fostered(id)'
    <2>1. slotTask[p] = ParentOf[id] /\ slotState[s] # "idle"
        BY <1>10 DEF LosesParent
    <2>2. slotTask[p] \in Ids /\ Owner[slotTask[p]] = Owner[id] /\ Owner[id] \in Readers
        BY <2>1, FamilyOwner
    <2>3. CASE reader[Owner[slotTask[p]]] = "waiting"
        <3>1. outcome'[ParentOf[id]] = result
            BY <1>3, <2>1, <2>2, <2>3
        <3>2. result = "error" \/ ParentOf[id] \in EmptyPrompt
            BY <1>10, <2>1
        <3> QED
            BY <3>1, <3>2 DEF Fostered
    <2>4. CASE reader[Owner[slotTask[p]]] = "closed"
        <3>1. CancelComing(id) \/ id \in survivors
            BY <1>10, <2>1, <2>2, <2>4 DEF Watched, WorkIsCancelled
        <3> QED
            BY <1>1, <1>8, <3>1 DEF Fostered
    <2>5. CASE reader[Owner[slotTask[p]]] = "new"
        BY <1>10, <2>1, <2>2, <2>5, OwnerOfId DEF Inv, NotPosted, Unstarted, InSlot
    <2> QED
        BY <1>2, <2>2, <2>3, <2>4, <2>5 DEF Shapes
<1>11. \A id \in Ids : CancelComing(id)' => CancelComing(id)
    BY <1>6
<1>12. \A s \in Slots \ S : \A id \in Ids : slotTask[s] = id /\ CancelComing(id) => CancelComing(id)'
    BY <1>8
<1>13. survivors \subseteq survivors'
    BY <1>1
<1> QED
    BY <1>1, <1>4, <1>5, <1>9, <1>10, <1>11, <1>12, <1>13, ReleaseWatched

(* The callback ends without a start: the same, no slot losing its task     *)
(* but by a CANCEL, which reaches the children too.                         *)
LEMMA CancelWatched ==
    ASSUME Inv, Watched, pc = "callback", current' = {}, UNCHANGED reader,
           NEW task \in current, ProcessCancel(task)
    PROVE  Watched'
<1> DEFINE S == {s \in Slots : slotTask[s] = task.id}
<1>1. /\ task.kind = "cancel" /\ Release(S) /\ UNCHANGED <<outcome, survivors>>
      /\ S \subseteq Slots
    BY DEF ProcessCancel
<1>2. current = {task} /\ task.id \in Ids /\ task = Cancel(task.id)
    BY <1>1, TaskKinds DEF Inv, OneCurrent
<1>3. \A s \in Slots : s \in S <=> slotTask[s] = task.id
    OBVIOUS
<1> HIDE DEF S
<1>4. Shapes /\ Queued(Both)
    BY DEF Inv
<1>5. /\ Moved(Both, Both')
      /\ \A s \in Slots : /\ slotTask'[s] = IF s \in S THEN None ELSE slotTask[s]
                          /\ slotState'[s] = IF s \in S THEN "idle" ELSE slotState[s]
    BY <1>1, <1>4, ReleaseMoves
<1>6. current' \subseteq current
    BY <1>2
<1>7. WaitsOpen'
    BY <1>1, <1>5, MovedOpen DEF Watched
<1>8. \A id \in Ids : Cancel(id) \in current <=> id = task.id
    BY <1>2, TaskKinds
<1>9. \A id \in Ids : CancelComing(id)' => CancelComing(id)
    BY <1>4, <1>5, <1>6, MovedKeepsCancels, CancelsInQueue
<1>10. \A id \in Ids : id # task.id /\ CancelComing(id) => CancelComing(id)'
    BY <1>4, <1>5, <1>8, MovedKeepsCancels, CancelsInQueue
<1>11. \A s \in Slots \ S : \A id \in Ids : slotTask[s] = id /\ CancelComing(id) => CancelComing(id)'
    BY <1>3, <1>10
<1>12. ASSUME NEW s \in Slots \ S, NEW p \in S, NEW id \in Ids, slotTask[s] = id, LosesParent(s, p)
       PROVE  Fostered(id)'
    <2>1. ParentOf[id] = task.id /\ slotState[s] # "idle" /\ id # task.id
        BY <1>1, <1>3, <1>12 DEF LosesParent
    <2>2. Owner[task.id] = Owner[id]
        BY <2>1, FamilyOwner
    <2>3. reader[Owner[task.id]] = "closed"
        BY <1>2, <1>8, CancelsInQueue DEF Watched, CancelsClosed
    <2>4. CancelComing(id) \/ id \in survivors
        BY <1>12, <2>1, <2>2, <2>3 DEF Watched, WorkIsCancelled
    <2> QED
        BY <1>1, <1>10, <2>1, <2>4 DEF Fostered
<1>13. Kept(outcome') /\ survivors \subseteq survivors'
    BY <1>1 DEF Kept
<1> QED
    BY <1>1, <1>5, <1>7, <1>9, <1>11, <1>12, <1>13, ReleaseWatched

(* No slot that works loses its task.                                       *)
LEMMA StayWatched ==
    ASSUME Inv, Watched, WaitsOpen', UNCHANGED reader, survivors \subseteq survivors',
           \A s \in Slots : slotTask'[s] = slotTask[s] /\ slotState'[s] = slotState[s],
           \A id \in Ids : CancelComing(id)' <=> CancelComing(id),
           Kept(outcome')
    PROVE  Watched'
<1> DEFINE S == {}
<1>1. S \subseteq Slots /\ \A s : s \notin S
    OBVIOUS
<1> HIDE DEF S
<1>2. \A s \in Slots \ S : \A id \in Ids : slotTask[s] = id /\ CancelComing(id) => CancelComing(id)'
    OBVIOUS
<1>3. \A id \in Ids : CancelComing(id)' => CancelComing(id)
    OBVIOUS
<1>4. \A s \in Slots \ S : \A p \in S : \A id \in Ids :
        slotTask[s] = id /\ LosesParent(s, p) => Fostered(id)'
    BY <1>1
<1>5. \A s \in Slots : /\ slotTask'[s] = IF s \in S THEN None ELSE slotTask[s]
                       /\ slotState'[s] = IF s \in S THEN "idle" ELSE slotState[s]
    BY <1>1
<1> QED
    BY <1>1, <1>2, <1>3, <1>4, <1>5, ReleaseWatched

LEMMA NotStartedWatched ==
    ASSUME Inv, Watched, WaitsOpen', pc = "callback", current' = {}, UNCHANGED reader,
           survivors \subseteq survivors',
           NEW task \in current, task \in Posted \/ task = NextResponse,
           \A s \in Slots : slotTask'[s] = slotTask[s] /\ slotState'[s] = slotState[s],
           Moved(Both, Both') \/ queue' = queue,
           Kept(outcome')
    PROVE  Watched'
<1>1. current = {task} /\ Shapes /\ Queued(Both)
    BY DEF Inv, OneCurrent
<1>2. \A id \in Ids : Cancel(id) \notin current
    BY <1>1, TaskKinds
<1>3. \A id \in Ids : Cancel(id) \in Range(queue') <=> Cancel(id) \in Range(queue)
    BY <1>1, MovedKeepsCancels
<1>4. \A id \in Ids : CancelComing(id)' <=> CancelComing(id)
    BY <1>2, <1>3, CancelsInQueue
<1> QED
    BY <1>4, StayWatched

(* A task put off has a reader that waits, or enters the history.           *)
LEMMA DeferWatched ==
    ASSUME Inv, Watched, pc = "callback", current' = {}, UNCHANGED reader,
           NEW task \in current, task \in Posted, Defer(task)
    PROVE  Watched'
<1>1. deferred' = Append(deferred, task) /\ UNCHANGED <<queue, slotTask, slotState, outcome>>
    BY DEF Defer
<1>2. deferred \in Seq(Posted) /\ Once(deferred, Posted) /\ task \notin Range(deferred)
    BY QueuedBoth DEF Inv, CurrentIsOut
<1>3. Range(deferred') = Range(deferred) \cup {task}
    BY <1>1, <1>2, AppendOnce
<1>4. current = {task}
    BY DEF Inv, OneCurrent
<1>5. /\ survivors \subseteq survivors'
      /\ reader[Owner[task.id]] = "closed" => FamilyOf(task) \subseteq survivors'
    BY DeferSurvivors
<1>6. WaitsOpen'
    <2> SUFFICES ASSUME NEW t \in Posted, Waits(t)' PROVE Minded(t)'
        BY DEF WaitsOpen
    <2>1. Waits(t) /\ Minded(t)
        BY <1>1, <1>3 DEF Waits, Watched, WaitsOpen
    <2>2. CASE t = task
        <3>1. task.id \in FamilyOf(task) /\ task.id \in Ids
            BY OneFamily
        <3>2. \/ reader[Owner[task.id]] = "waiting" \/ FamilyOf(task) \subseteq survivors
              \/ reader[Owner[task.id]] = "closed"
            BY <2>1, <2>2, <3>1 DEF Minded, Watched, CancelsClosed
        <3> QED
            BY <1>5, <2>2, <3>2 DEF Minded
    <2>3. CASE t # task
        BY <1>4, <1>5, <2>1, <2>3 DEF Minded
    <2> QED
        BY <2>2, <2>3
<1>7. Kept(outcome')
    BY <1>1 DEF Kept
<1> QED
    BY <1>1, <1>5, <1>6, <1>7, NotStartedWatched

LEMMA SlotActionWatched ==
    ASSUME Inv, Watched, pc = "callback", current' = {}, UNCHANGED reader,
           NEW task \in current, ProcessSlotAction(task)
    PROVE  Watched'
<1>1. task \in Posted /\ task.id \in FamilyOf(task)
    <2>1. task \in Task /\ task.kind = "slot"
        BY DEF Inv, OneCurrent, ProcessSlotAction
    <2> QED
        BY <2>1, TaskKinds DEF FamilyOf
<1>2. CASE Defer(task)
    BY <1>1, <1>2, DeferWatched
<1>3. CASE /\ \E result \in {"final", "error"} : Send({task.id}, result)
           /\ UNCHANGED <<queue, deferred, slotTask, slotState, survivors>>
    <2>1. \A id \in Ids : id # task.id => outcome'[id] = outcome[id]
        BY <1>3, SendSets DEF Inv
    <2>2. outcome[task.id] = "none"
        BY <1>1 DEF Inv, WaitsUnstarted, Waits, Unstarted
    <2>3. Kept(outcome')
        BY <2>1, <2>2 DEF Kept
    <2>4. Moved(Both, Both') /\ survivors \subseteq survivors'
        BY <1>3, NothingMoved DEF Inv
    <2>5. WaitsOpen'
        BY <2>4, MovedOpen DEF Watched
    <2> QED
        BY <1>1, <1>3, <2>3, <2>4, <2>5, NotStartedWatched
<1> QED
    BY <1>2, <1>3 DEF ProcessSlotAction, SlotResults

LEMMA LaunchFailsWatched ==
    ASSUME Inv, Watched, pc = "callback", current' = {}, UNCHANGED reader,
           NEW task \in current, task \in Posted, NEW id \in FamilyOf(task), LaunchFails(task, id)
    PROVE  Watched'
<1>1. PICK S \in SUBSET Free : Release(S)
    BY DEF LaunchFails
<1>2. Shapes /\ Queued(Both) /\ S \subseteq Slots
    BY DEF Inv, Free
<1>3. \A s \in S : slotState[s] = "idle" /\ slotTask[s] = None
    BY DEF Free, Processing, Inv, SlotsTaken
<1>4. /\ Moved(Both, Both')
      /\ \A s \in Slots : /\ slotTask'[s] = IF s \in S THEN None ELSE slotTask[s]
                          /\ slotState'[s] = IF s \in S THEN "idle" ELSE slotState[s]
    BY <1>1, <1>2, ReleaseMoves
<1>5. \A s \in Slots : slotTask'[s] = slotTask[s] /\ slotState'[s] = slotState[s]
    BY <1>3, <1>4
<1>6. \A x \in Ids : x # id => outcome'[x] = outcome[x]
    BY <1>2, SendSets DEF LaunchFails
<1>7. outcome[id] = "none"
    BY DEF Inv, WaitsUnstarted, Waits, Unstarted
<1>8. Kept(outcome')
    BY <1>6, <1>7 DEF Kept
<1>9. survivors \subseteq survivors'
    BY DEF LaunchFails
<1>10. WaitsOpen'
    BY <1>4, <1>9, MovedOpen DEF Watched
<1> QED
    BY <1>4, <1>5, <1>8, <1>9, <1>10, NotStartedWatched

(* A family starts, its children with their parent, for a reader that waits *)
(* or with a CANCEL of every one of them in the queue, or it survived.      *)
LEMMA LaunchAllWatched ==
    ASSUME Inv, Watched, pc = "callback", current' = {}, UNCHANGED reader,
           NEW task \in current, task \in Posted, NEW s \in Free,
           ~(Cardinality(ChildSlots(s)) < Len(task.children)),
           LaunchAll(task, s, Append(task.children, task.id))
    PROVE  Watched'
<1>1. UNCHANGED <<queue, deferred, outcome, survivors>> /\ s \in Slots
    BY DEF LaunchAll, Free
<1>2. StartedIdle(task, s) /\ slotTask'[s] = task.id /\ slotState'[s] = "prompt"
    BY LaunchStarts DEF LaunchAll
<1>3. \A x \in Slots :
        \/ slotTask'[x] = slotTask[x] /\ slotState'[x] = slotState[x]
        \/ slotState[x] = "idle" /\ slotTask'[x] \in FamilyOf(task) /\ Started(task, s, x)
    BY <1>2 DEF StartedIdle
<1>4. \A id \in FamilyOf(task) : id \in Ids /\ ParentOf[id] = task.id
    BY OneFamily, OwnerOfId
<1>5. current = {task} /\ \A id \in Ids : Cancel(id) \notin current
    BY TaskKinds DEF Inv, OneCurrent
<1>6. \A id \in Ids : CancelComing(id)' <=> CancelComing(id)
    BY <1>1, <1>5, CancelsInQueue
<1>7. \A id \in FamilyOf(task) :
        reader[Owner[id]] = "closed" => CancelComing(id) \/ id \in survivors
    <2>1. Minded(task)
        BY DEF Watched, WaitsOpen, Waits
    <2>2. \A id \in FamilyOf(task) : Owner[id] = Owner[task.id]
        BY <1>4, FamilyOwner
    <2> QED
        BY <2>1, <2>2 DEF Minded
<1>9. \A x \in Slots : slotState[x] # "idle" => slotTask[x] \in Ids
    BY DEF Inv, Shapes, SlotsTaken
<1>8. WaitsOpen'
    <2>1. Moved(Both, Both')
        BY <1>1, NothingMoved DEF Inv
    <2> QED
        BY <1>1, <2>1, MovedOpen DEF Watched
<1>10. CancelsClosed'
    BY <1>6 DEF Watched, CancelsClosed
<1>11. WaitingIsChild'
    BY <1>3, <1>4 DEF Watched, WaitingIsChild, IsChild, Started
<1>12. WorkIsCancelled'
    <2> SUFFICES ASSUME NEW x \in Slots, slotState'[x] # "idle", NEW id, id = slotTask'[x],
                        reader'[Owner[id]] = "closed"
                 PROVE  CancelComing(id)' \/ id \in survivors'
        BY DEF WorkIsCancelled, CancelComing
    <2>1. CASE id \in FamilyOf(task)
        BY <1>1, <1>4, <1>6, <1>7, <2>1
    <2>2. CASE id \notin FamilyOf(task)
        <3>1. slotTask[x] = id /\ slotState[x] # "idle"
            BY <1>3, <2>2
        <3>2. (CancelComing(id) \/ id \in survivors) /\ id \in Ids
            BY <1>9, <3>1 DEF Watched, WorkIsCancelled
        <3> QED
            BY <1>1, <1>6, <3>2
    <2> QED
        BY <2>1, <2>2
<1>13. ChildrenMinded'
    <2> SUFFICES ASSUME NEW x \in Slots, slotState'[x] = "wait_other", NEW id, id = slotTask'[x]
                 PROVE  \/ \E p \in Slots : slotState'[p] = "prompt" /\ slotTask'[p] = ParentOf[id]
                        \/ Fostered(id)'
        BY DEF ChildrenMinded, Fostered, CancelComing
    <2>1. CASE id \in FamilyOf(task)
        BY <1>1, <1>2, <1>4, <2>1
    <2>2. CASE id \notin FamilyOf(task)
        <3>1. slotTask[x] = id /\ slotState[x] = "wait_other" /\ id \in Ids
            BY <1>3, <1>9, <2>2
        <3>2. CASE \E p \in Slots : slotState[p] = "prompt" /\ slotTask[p] = ParentOf[id]
            BY <1>3, <3>2
        <3>3. CASE Fostered(id)
            <4>1. CancelComing(id)' <=> CancelComing(id)
                BY <1>6, <3>1
            <4> QED
                BY <1>1, <3>3, <4>1 DEF Fostered
        <3> QED
            BY <3>1, <3>2, <3>3 DEF Watched, ChildrenMinded
    <2> QED
        BY <2>1, <2>2
<1> QED
    BY <1>8, <1>10, <1>11, <1>12, <1>13 DEF Watched

LEMMA ProcessWatched ==
    ASSUME Inv, Watched, ProcessSingleTask
    PROVE  Watched'
<1>1. pc = "callback" /\ current' = {} /\ UNCHANGED reader
    BY DEF ProcessSingleTask
<1>2. PICK task \in current : \/ ProcessCompletion(task) \/ ProcessSlotAction(task)
                              \/ ProcessCancel(task)     \/ ProcessNext(task)
    BY DEF ProcessSingleTask
<1>3. task \in Task
    BY <1>1 DEF Inv, OneCurrent
<1>4. CASE ProcessCompletion(task)
    <2>1. task \in Posted
        BY <1>3, <1>4, TaskKinds DEF ProcessCompletion
    <2>2. CASE Defer(task)
        BY <1>1, <2>1, <2>2, DeferWatched
    <2>3. ASSUME NEW s \in Free, ~(Cardinality(ChildSlots(s)) < Len(task.children)), Launch(task, s)
          PROVE  Watched'
        <3>1. s \in Slots
            BY DEF Free
        <3>2. CASE LaunchAll(task, s, Append(task.children, task.id))
            BY <1>1, <2>1, <2>3, <3>2, LaunchAllWatched
        <3>3. CASE \E id \in FamilyOf(task) : LaunchFails(task, id)
            BY <1>1, <2>1, <3>3, LaunchFailsWatched
        <3> QED
            BY <2>1, <2>3, <3>1, <3>2, <3>3, LaunchCases
    <2> QED
        BY <1>4, <2>2, <2>3 DEF ProcessCompletion
<1>5. CASE ProcessNext(task)
    <2>1. task = NextResponse /\ UNCHANGED <<queue, deferred, slotTask, slotState, outcome, survivors>>
        BY <1>3, <1>5, TaskKinds DEF ProcessNext
    <2>2. Moved(Both, Both') /\ survivors \subseteq survivors'
        BY <2>1, NothingMoved DEF Inv
    <2>3. WaitsOpen'
        BY <1>1, <2>2, MovedOpen DEF Watched
    <2>4. Kept(outcome')
        BY <2>1 DEF Kept
    <2> QED
        BY <1>1, <2>1, <2>2, <2>3, <2>4, NotStartedWatched
<1> QED
    BY <1>1, <1>2, <1>4, <1>5, SlotActionWatched, CancelWatched

LEMMA DonePromptWatched ==
    ASSUME Inv, Watched, NEW s \in Slots, DonePrompt(s)
    PROVE  Watched'
<1>1. /\ slotState[s] = "prompt"
      /\ slotState' = [x \in Slots |-> IF x \in StartTogether(s) THEN "generating" ELSE slotState[x]]
      /\ UNCHANGED <<queue, deferred, current, slotTask, reader, outcome, survivors>>
      /\ current = {}
    BY DEF DonePrompt, Inv, OneCurrent
<1>2. \A x \in StartTogether(s) : x \in Slots /\ slotState[x] # "idle"
    BY <1>1 DEF StartTogether
<1>3. \A x \in Slots : slotState'[x] = "idle" <=> slotState[x] = "idle"
    BY <1>1, <1>2
<1>4. ASSUME NEW x \in Slots, slotState'[x] = "wait_other"
      PROVE  slotState[x] = "wait_other" /\ ParentOf[slotTask[x]] # slotTask[s]
    BY <1>1, <1>4 DEF StartTogether
<1>5. \A p \in Slots : slotState[p] = "prompt" /\ p # s => slotState'[p] = "prompt"
    BY <1>1 DEF StartTogether
<1>6. \A id : CancelComing(id)' <=> CancelComing(id)
    BY <1>1, CancelsInQueue
<1>7. CancelsClosed' /\ WaitingIsChild'
    BY <1>1, <1>4, <1>6 DEF Watched, CancelsClosed, WaitingIsChild
<1>8. WorkIsCancelled'
    BY <1>1, <1>3, <1>6 DEF Watched, WorkIsCancelled, CancelComing
<1>9. ChildrenMinded'
    BY <1>1, <1>4, <1>5 DEF Watched, ChildrenMinded, Fostered, CancelComing
<1>10. WaitsOpen'
    <2>1. Moved(Both, Both')
        BY <1>1, NothingMoved DEF Inv
    <2> QED
        BY <1>1, <2>1, MovedOpen DEF Watched
<1> QED
    BY <1>7, <1>8, <1>9, <1>10 DEF Watched

LEMMA TakeTaskWatched ==
    ASSUME Inv, Watched, TakeTask
    PROVE  Watched'
<1>1. /\ current = {} /\ current' = {Head(queue)}
      /\ UNCHANGED <<deferred, slotTask, slotState, reader, outcome, survivors>>
      /\ \A t : t \in Range(queue) <=> t = Head(queue) \/ t \in Range(queue')
    BY TakeTaskKeeps DEF TakeTask, Inv, OneCurrent
<1>2. \A id \in Ids : CancelComing(id)' <=> CancelComing(id)
    BY <1>1, CancelsInQueue
<1>3. \A t \in Posted : Waits(t)' => Waits(t) /\ t \notin current
    BY <1>1 DEF Waits
<1>4. WaitsOpen'
    BY <1>1, <1>3, WaitsLess DEF Watched
<1>5. Kept(outcome') /\ survivors \subseteq survivors'
    BY <1>1 DEF Kept
<1> QED
    BY <1>1, <1>2, <1>4, <1>5, StayWatched

LEMMA BeginUpdateWatched ==
    ASSUME Inv, Watched, BeginUpdate
    PROVE  Watched'
<1>1. /\ queue = <<>> /\ current = {} /\ UNCHANGED <<deferred, current, slotTask, slotState, reader, outcome, survivors>>
      /\ \A t : t \in Range(queue') <=> t = NextResponse
    BY BeginUpdateKeeps DEF BeginUpdate, Inv, OneCurrent
<1>2. \A id \in Ids : CancelComing(id)' <=> CancelComing(id)
    <2>1. Range(queue) = {}
        BY <1>1 DEF Range
    <2> QED
        BY <1>1, <2>1, CancelsInQueue, TaskKinds
<1>3. \A t \in Posted : Waits(t)' => Waits(t) /\ t \notin current
    BY <1>1, TaskKinds DEF Waits
<1>4. WaitsOpen'
    BY <1>1, <1>3, WaitsLess DEF Watched
<1>5. Kept(outcome') /\ survivors \subseteq survivors'
    BY <1>1 DEF Kept
<1> QED
    BY <1>1, <1>2, <1>4, <1>5, StayWatched

(* The tasks of a reader that stops wait no more, but the one in process;   *)
(* those of others still do.                                                *)
LEMMA StopReaderWaits ==
    ASSUME Inv, NEW r \in Readers, StopReader(r)
    PROVE  \A t \in Posted : Waits(t)' <=> Waits(t) /\ (t.id \notin IdsOf(r) \/ t \in current)
<1>1. UNCHANGED current
    BY DEF StopReader
<1>2. /\ \A t : t \in Range(queue')
            <=> CancelFor(r, t) \/ (t \in Range(queue) /\ (t.kind = "cancel" \/ t.id \notin IdsOf(r)))
      /\ \A t : t \in Range(deferred')
            <=> t \in Range(deferred) /\ (t.kind = "cancel" \/ t.id \notin IdsOf(r))
    BY StopReaderKeeps
<1>3. \A t \in Posted : t.kind # "cancel" /\ ~CancelFor(r, t)
    BY OwnerOfId, TaskKinds, PostedIsWork DEF CancelFor, Work
<1> QED
    BY <1>1, <1>2, <1>3 DEF Waits

(* A reader posts, takes its last result or stops: no slot changes.         *)
LEMMA ReaderWatched ==
    ASSUME Inv, Watched, UNCHANGED <<current, slotTask, slotState, outcome, survivors>>,
           \A t \in Posted : Waits(t)' => Minded(t) \/ Minded(t)',
           \A t \in Posted : Waits(t)' /\ reader[Owner[t.id]] = "waiting" => Minded(t)',
           \A id \in Ids : CancelComing(id) => CancelComing(id)',
           \A id \in Ids : CancelComing(id)' => reader'[Owner[id]] = "closed",
           \A id \in Ids : InSlot(id) /\ reader'[Owner[id]] = "closed"
                => reader[Owner[id]] = "closed" \/ CancelComing(id)'
    PROVE  Watched'
<1>1. CancelsClosed' /\ WaitingIsChild'
    BY DEF Watched, CancelsClosed, WaitingIsChild
<1>2. \A x \in Slots : slotState[x] # "idle" => slotTask[x] \in Ids
    BY DEF Inv, Shapes, SlotsTaken
<1>3. WorkIsCancelled'
    <2> SUFFICES ASSUME NEW x \in Slots, slotState[x] # "idle", NEW id, id = slotTask[x],
                        reader'[Owner[id]] = "closed"
                 PROVE  CancelComing(id)' \/ id \in survivors
        BY DEF WorkIsCancelled, CancelComing
    <2>1. id \in Ids /\ InSlot(id)
        BY <1>2 DEF InSlot
    <2>2. CASE reader[Owner[id]] = "closed"
        <3>1. CancelComing(id) \/ id \in survivors
            BY <2>2 DEF Watched, WorkIsCancelled
        <3> QED
            BY <2>1, <3>1
    <2> QED
        BY <2>1, <2>2
<1>4. ChildrenMinded'
    <2> SUFFICES ASSUME NEW x \in Slots, slotState[x] = "wait_other", NEW id, id = slotTask[x]
                 PROVE  \/ \E p \in Slots : slotState[p] = "prompt" /\ slotTask[p] = ParentOf[id]
                        \/ Fostered(id)'
        BY DEF ChildrenMinded, Fostered, CancelComing
    <2>1. id \in Ids
        BY <1>2
    <2>2. Fostered(id) => Fostered(id)'
        BY <2>1 DEF Fostered
    <2> QED
        BY <2>2 DEF Watched, ChildrenMinded
<1>5. WaitsOpen'
    <2> SUFFICES ASSUME NEW t \in Posted, Waits(t)' PROVE Minded(t)'
        BY DEF WaitsOpen
    <2>1. CASE Minded(t)
        <3>1. \A id \in FamilyOf(t) : id \in Ids
            BY OneFamily
        <3>2. CASE t \in current /\ \A id \in FamilyOf(t) : CancelComing(id)
            BY <3>1, <3>2 DEF Minded
        <3>3. CASE FamilyOf(t) \subseteq survivors
            BY <3>3 DEF Minded
        <3> QED
            BY <2>1, <3>2, <3>3 DEF Minded
    <2> QED
        BY <2>1
<1> QED
    BY <1>1, <1>3, <1>4, <1>5 DEF Watched

LEMMA PostTasksWatched ==
    ASSUME Inv, Watched, NEW r \in Readers, PostTasks(r)
    PROVE  Watched'
<1>1. /\ reader[r] = "new" /\ reader' = [reader EXCEPT ![r] = "waiting"]
      /\ UNCHANGED <<deferred, current, slotTask, slotState, outcome, survivors>>
    BY DEF PostTasks
<1>2. \A t : t \in Range(queue') <=> t \in Range(queue) \/ t \in ToSet(Batch[r])
    BY PostTasksKeeps
<1>3. \A x \in Readers : reader'[x] = IF x = r THEN "waiting" ELSE reader[x]
    BY <1>1 DEF Inv, Shapes
<1>4. \A t \in Posted : Owner[t.id] \in Readers
    BY OneFamily, OwnerOfId
<1>5. \A t \in ToSet(Batch[r]) : t \in Posted /\ Owner[t.id] = r
    BY OwnerOfTask
<1>6. /\ \A t \in Posted : Waits(t)' => Minded(t) \/ Minded(t)'
      /\ \A t \in Posted : reader[Owner[t.id]] = "waiting" => Minded(t)'
    <2>1. \A t \in Posted : Waits(t)' => Waits(t) \/ t \in ToSet(Batch[r])
        BY <1>1, <1>2 DEF Waits
    <2>2. \A t \in Posted : Waits(t) => Minded(t)
        BY DEF Watched, WaitsOpen
    <2>3. \A t \in ToSet(Batch[r]) : Minded(t)'
        BY <1>3, <1>5 DEF Minded
    <2>4. \A t \in Posted : reader[Owner[t.id]] = "waiting" => Minded(t)'
        BY <1>3, <1>4 DEF Minded
    <2> QED
        BY <2>1, <2>2, <2>3, <2>4
<1>7. \A id \in Ids : CancelComing(id)' <=> CancelComing(id)
    BY <1>1, <1>2, <1>5, TaskKinds, CancelsInQueue
<1>8. \A id \in Ids : CancelComing(id)' => reader'[Owner[id]] = "closed"
    BY <1>1, <1>3, <1>7, OwnerOfId DEF Watched, CancelsClosed
<1>9. \A id \in Ids : reader'[Owner[id]] = "closed" => reader[Owner[id]] = "closed"
    BY <1>3, OwnerOfId
<1> QED
    BY <1>1, <1>6, <1>7, <1>8, <1>9, ReaderWatched

LEMMA ReceiveAllWatched ==
    ASSUME Inv, Watched, NEW r \in Readers, ReceiveAll(r)
    PROVE  Watched'
<1>1. /\ reader' = [reader EXCEPT ![r] = "closed"] /\ \A id \in IdsOf(r) : outcome[id] = "final"
      /\ UNCHANGED <<queue, deferred, current, slotTask, slotState, outcome, survivors>>
    BY DEF ReceiveAll
<1>2. \A x \in Readers : reader'[x] = IF x = r THEN "closed" ELSE reader[x]
    BY <1>1 DEF Inv, Shapes
<1>3. \A id \in Ids : Owner[id] \in Readers /\ (Owner[id] = r => outcome[id] = "final")
    BY <1>1, OwnerOfId
<1>4. /\ \A t \in Posted : Waits(t)' => Minded(t)
      /\ \A t \in Posted : Waits(t)' /\ reader[Owner[t.id]] = "waiting" => Minded(t)'
    <2>1. \A t \in Posted : Waits(t)' <=> Waits(t)
        BY <1>1 DEF Waits
    <2>2. ASSUME NEW t \in Posted, Waits(t), reader[Owner[t.id]] = "waiting" PROVE Minded(t)'
        <3>1. t.id \in FamilyOf(t) /\ t.id \in Ids
            BY OneFamily
        <3>2. outcome[t.id] = "none"
            BY <2>2, <3>1 DEF Inv, WaitsUnstarted, Unstarted
        <3>3. Owner[t.id] # r /\ Owner[t.id] \in Readers
            BY <1>3, <3>1, <3>2
        <3> QED
            BY <1>2, <2>2, <3>3 DEF Minded
    <2> QED
        BY <2>1, <2>2 DEF Watched, WaitsOpen
<1>5. \A id \in Ids : CancelComing(id)' <=> CancelComing(id)
    BY <1>1, CancelsInQueue
<1>6. \A id \in Ids : CancelComing(id)' => reader'[Owner[id]] = "closed"
    BY <1>2, <1>3, <1>5 DEF Watched, CancelsClosed
<1>7. \A id \in Ids : InSlot(id) => outcome[id] = "none"
    BY OneFamily DEF Inv, SlotsTaken, InSlot
<1>8. \A id \in Ids : InSlot(id) /\ reader'[Owner[id]] = "closed" => reader[Owner[id]] = "closed"
    BY <1>2, <1>3, <1>7
<1> QED
    BY <1>1, <1>4, <1>5, <1>6, <1>8, ReaderWatched

LEMMA StopReaderWatched ==
    ASSUME Inv, Watched, NEW r \in Readers, StopReader(r)
    PROVE  Watched'
<1>1. /\ reader' = [reader EXCEPT ![r] = "closed"]
      /\ UNCHANGED <<current, slotTask, slotState, outcome, survivors>>
    BY DEF StopReader
<1>2. /\ \A t : t \in Range(queue')
            <=> CancelFor(r, t) \/ (t \in Range(queue) /\ (t.kind = "cancel" \/ t.id \notin IdsOf(r)))
      /\ \A t : t \in Range(deferred')
            <=> t \in Range(deferred) /\ (t.kind = "cancel" \/ t.id \notin IdsOf(r))
    BY StopReaderKeeps
<1>3. \A x \in Readers : reader'[x] = IF x = r THEN "closed" ELSE reader[x]
    BY <1>1 DEF Inv, Shapes
<1>4. \A id \in Ids : Owner[id] \in Readers /\ (Owner[id] = r <=> id \in IdsOf(r))
    BY OwnerOfId
<1>6. \A id : Cancel(id).kind = "cancel"
    BY DEF Cancel
<1>7. \A id \in Ids : CancelComing(id) => CancelComing(id)'
    BY <1>1, <1>2, <1>6, CancelsInQueue
<1>8. \A id \in Ids : CancelFor(r, Cancel(id)) <=> id \in IdsOf(r)
    BY OwnerOfId, TaskKinds DEF CancelFor
<1>9. \A id \in Ids : CancelComing(id)' => id \in IdsOf(r) \/ CancelComing(id)
    BY <1>1, <1>2, <1>8, CancelsInQueue
<1>10. \A id \in Ids : CancelComing(id)' => reader'[Owner[id]] = "closed"
    BY <1>3, <1>4, <1>9 DEF Watched, CancelsClosed
<1>11. \A id \in Ids : id \in IdsOf(r) => CancelComing(id)'
    BY <1>2, <1>8, CancelsInQueue
<1>12. \A id \in Ids : reader'[Owner[id]] = "closed" => reader[Owner[id]] = "closed" \/ CancelComing(id)'
    BY <1>3, <1>4, <1>11
<1>13. /\ \A t \in Posted : Waits(t)' => Minded(t)
       /\ \A t \in Posted : Waits(t)' /\ reader[Owner[t.id]] = "waiting" => Minded(t)'
    <2>1. \A t \in Posted : Waits(t)' <=> Waits(t) /\ (t.id \notin IdsOf(r) \/ t \in current)
        BY StopReaderWaits
    <2>2. ASSUME NEW t \in Posted, Waits(t)', reader[Owner[t.id]] = "waiting" PROVE Minded(t)'
        <3>1. t.id \in Ids /\ \A id \in FamilyOf(t) : id \in Ids
            BY OneFamily
        <3>2. CASE t.id \notin IdsOf(r)
            BY <1>3, <1>4, <2>2, <3>1, <3>2 DEF Minded
        <3>3. CASE t.id \in IdsOf(r) /\ t \in current
            <4>1. t \in ToSet(Batch[r])
                BY <3>3, OneFamily, OwnerOfId
            <4>2. \A id \in FamilyOf(t) : id \in IdsOf(r)
                BY <4>1, IdsOfRequest
            <4> QED
                BY <1>1, <1>11, <3>1, <3>3, <4>2 DEF Minded
        <3> QED
            BY <2>1, <2>2, <3>2, <3>3
    <2> QED
        BY <2>1, <2>2 DEF Watched, WaitsOpen
<1> QED
    BY <1>1, <1>7, <1>10, <1>12, <1>13, ReaderWatched

(* Slots that end their turn: a shared prompt ends with an error, together  *)
(* with its children, or it was empty.                                      *)
LEMMA SlotStepWatched ==
    ASSUME Inv, Watched, NEW s \in Slots, SlotStep(s) \/ FailSlot(s)
    PROVE  Watched'
<1>1. {s} \subseteq Slots /\ pc = "batch"
    BY DEF SlotStep, AnswerEmptyPrompt, DonePrompt, Finish, FailSlot
<1>2. CASE DonePrompt(s)
    BY <1>2, DonePromptWatched
<1>3. CASE EndTurn({s}, "error")
    BY <1>1, <1>3, EndTurnWatched
<1>4. CASE Finish(s)
    <2>1. EndTurn({s}, "final") /\ slotState[s] = "generating"
        BY <1>4 DEF Finish
    <2>2. \A x \in Slots \ {s} : \A p \in {s} : ~LosesParent(x, p)
        BY <2>1 DEF LosesParent
    <2> QED
        BY <1>1, <2>1, <2>2, EndTurnWatched
<1>5. CASE AnswerEmptyPrompt(s)
    <2>1. EndTurn({s}, "final") /\ slotTask[s] \in EmptyPrompt
        BY <1>5 DEF AnswerEmptyPrompt
    <2>2. \A p \in {s} : slotTask[p] \in EmptyPrompt
        BY <2>1
    <2> QED
        BY <1>1, <2>1, <2>2, EndTurnWatched
<1> QED
    BY <1>2, <1>3, <1>4, <1>5 DEF SlotStep, FailSlot

LEMMA WatchedStep ==
    ASSUME Inv, Watched, [Next]_vars
    PROVE  Watched'
<1>1. CASE FailBatch
    <2>1. Processing \subseteq Slots /\ EndTurn(Processing, "error") /\ pc = "batch"
        BY <1>1 DEF FailBatch, Processing
    <2> QED
        BY <2>1, EndTurnWatched
<1>2. CASE EndUpdate
    <2>1. /\ UNCHANGED <<queue, deferred, current, slotTask, slotState, reader, outcome, survivors>>
          /\ current = {}
        BY <1>2 DEF EndUpdate, Inv, OneCurrent
    <2>2. Moved(Both, Both')
        BY <2>1, NothingMoved DEF Inv
    <2>3. WaitsOpen' /\ Kept(outcome')
        BY <2>1, <2>2, MovedOpen DEF Watched, Kept
    <2>4. \A id : CancelComing(id)' <=> CancelComing(id)
        BY <2>1, CancelsInQueue
    <2> QED
        BY <2>1, <2>3, <2>4, StayWatched
<1>3. CASE UNCHANGED vars
    <2>1. UNCHANGED <<queue, deferred, current, slotTask, slotState, reader, outcome, survivors>>
        BY <1>3 DEF vars
    <2>2. \A t : Waits(t)' => Waits(t)
        BY <2>1 DEF Waits
    <2>3. \A t : Minded(t) => Minded(t)'
        BY <2>1 DEF Minded, CancelComing
    <2>4. WaitsOpen' /\ Kept(outcome')
        BY <2>1, <2>2, <2>3 DEF Watched, WaitsOpen, Kept
    <2>5. \A id : CancelComing(id)' <=> CancelComing(id)
        BY <2>1, CancelsInQueue
    <2> QED
        BY <2>1, <2>4, <2>5, StayWatched
<1> QED
    BY <1>1, <1>2, <1>3, TakeTaskWatched, ProcessWatched, BeginUpdateWatched, SlotStepWatched,
       PostTasksWatched, ReceiveAllWatched, StopReaderWatched DEF Next, LoopStep

LEMMA WatchedIsNoOrphans ==
    ASSUME Inv, Watched
    PROVE  NoOrphans
<1>1. NoOrphanWork
    <2> SUFFICES ASSUME NEW id \in Ids, reader[Owner[id]] = "closed", id \notin survivors
                 PROVE  ~InQueues(id) /\ (InSlot(id) => CancelComing(id))
        BY DEF NoOrphanWork
    <2>1. PICK t \in Posted : id \in FamilyOf(t)
        BY OneFamily
    <2>2. t \in ToSet(Batch[Owner[id]]) /\ Owner[id] \in Readers
        BY <2>1, OwnerOfId
    <2>3. reader[Owner[t.id]] = "closed"
        BY <2>2, OwnerOfTask
    <2>4. Waits(t) => t \in current
        BY <2>1, <2>3 DEF Watched, WaitsOpen, Minded
    <2>5. t \notin Range(queue) /\ t \notin Range(deferred)
        BY <2>4 DEF Waits, Inv, CurrentIsOut
    <2>6. /\ queue \in Seq(Task) /\ deferred \in Seq(Task)
          /\ Once(queue, Posted) /\ Once(deferred, Posted)
        <3>1. Posted \subseteq Task
            BY TaskKinds
        <3>2. queue \in Seq(Task) /\ deferred \in Seq(Posted) /\ Once(queue, Posted) /\ Once(deferred, Posted)
            BY QueuedBoth DEF Inv
        <3> QED
            BY <3>1, <3>2
    <2>7. Occurrences(queue, id) = 0 /\ Occurrences(deferred, id) = 0
        BY <2>1, <2>5, <2>6, Occurs
    <2>8. ASSUME InSlot(id) PROVE CancelComing(id)
        <3>1. PICK s \in Slots : slotTask[s] = id
            BY <2>8 DEF InSlot
        <3>2. slotState[s] # "idle"
            BY <3>1, OneFamily DEF Inv, SlotsTaken
        <3> QED
            BY <3>1, <3>2 DEF Watched, WorkIsCancelled
    <2> QED
        BY <2>7, <2>8 DEF InQueues
<1>2. ChildHasParent
    BY DEF Watched, ChildrenMinded, Fostered, ChildHasParent
<1> QED
    BY <1>1, <1>2 DEF NoOrphans

(* Of a request nobody waits for no task is in a queue and what is in a     *)
(* slot has its CANCEL on the way, save a task that was in process when the *)
(* CANCEL was posted and was then deferred; and a child that waits has a    *)
(* parent that processes the prompt, or one of the ends ChildHasParent      *)
(* lists.  Whatever the readers post and stop in between.                   *)
THEOREM NoOrphansAlways == Spec => []NoOrphans
<1>1. Init => Watched
    <2> SUFFICES ASSUME Init PROVE Watched
        OBVIOUS
    <2>1. /\ queue = <<>> /\ deferred = <<>> /\ current = {}
          /\ slotState = [s \in Slots |-> "idle"]
        BY DEF Init
    <2>2. Range(queue) = {} /\ Range(deferred) = {}
        BY <2>1 DEF Range
    <2>3. \A s \in Slots : slotState[s] = "idle"
        BY <2>1
    <2>4. \A id : ~CancelComing(id)
        BY <2>1, <2>2, CancelsInQueue
    <2> QED
        BY <2>1, <2>2, <2>3, <2>4 DEF Watched, WaitsOpen, Waits, CancelsClosed, WaitingIsChild,
           WorkIsCancelled, ChildrenMinded
<1>2. Inv /\ Watched => NoOrphans
    BY WatchedIsNoOrphans
<1>3. Inv /\ Watched /\ [Next]_vars => Watched'
    BY WatchedStep
<1> QED
    BY <1>1, <1>2, <1>3, InvInit, InvStep, PTL DEF Spec

-----------------------------------------------------------------------------
(* The scheduler implements TaskLifecycle                                   *)

(* What a step of the loop does to the families: slots end the work on the  *)
(* ids of S, or the task in process starts, or it ends unstarted.           *)
Ended(S) ==
    /\ \A t \in Posted : Waits(t)' <=> Waits(t)
    /\ \A id \in S : id \in Ids /\ InSlot(id)
    /\ \A id \in Ids : InSlot(id)' <=> InSlot(id) /\ id \notin S
Gone(task) ==
    Waits(task) /\ \A t \in Posted : Waits(t)' <=> Waits(t) /\ t # task
Launched(task) ==
    Gone(task) /\ \A id \in Ids : InSlot(id)' <=> InSlot(id) \/ id \in FamilyOf(task)
Dropped(task) ==
    Gone(task) /\ \A id \in Ids : InSlot(id)' <=> InSlot(id)
LoopMove ==
    \/ \E S \in SUBSET Ids : Ended(S)
    \/ \E task \in Posted : Launched(task) \/ Dropped(task)

LEMMA ReleaseEnds ==
    ASSUME Inv, Moved(Both, Both'), \A t \in Posted : t \in current' <=> t \in current,
           NEW S, S \subseteq Slots,
           \A s \in Slots : slotTask'[s] = IF s \in S THEN None ELSE slotTask[s]
    PROVE  \E I \in SUBSET Ids : Ended(I)
<1> DEFINE I == {id \in Ids : \E s \in S : slotTask[s] = id}
<1>1. \A t \in Posted : Waits(t)' <=> Waits(t)
    <2>1. \A t : t \in Range(queue') \/ t \in Range(deferred') <=> t \in Range(queue) \/ t \in Range(deferred)
        BY DEF Moved, Both
    <2> QED
        BY <2>1 DEF Waits
<1>2. \A id : id \in I <=> id \in Ids /\ \E s \in S : slotTask[s] = id
    OBVIOUS
<1> HIDE DEF I
<1>3. \A id \in I : id \in Ids /\ InSlot(id)
    BY <1>2 DEF InSlot
<1>4. \A id \in Ids : id # None
    BY OneFamily
<1>5. \A s1, s2 \in Slots : slotTask[s1] = slotTask[s2] /\ slotTask[s1] # None => s1 = s2
    BY DEF Inv, SlotsTaken
<1>6. \A id \in Ids : InSlot(id)' <=> InSlot(id) /\ id \notin I
    BY <1>2, <1>4, <1>5 DEF InSlot
<1> QED
    BY <1>1, <1>2, <1>3, <1>6 DEF Ended

LEMMA NothingEnds ==
    ASSUME Inv, \A s \in Slots : slotTask'[s] = slotTask[s],
           \A t \in Posted : Waits(t)' <=> Waits(t)
    PROVE  \E I \in SUBSET Ids : Ended(I)
<1>1. \A id \in Ids : InSlot(id)' <=> InSlot(id)
    BY DEF InSlot
<1>2. Ended({})
    BY <1>1 DEF Ended
<1> QED
    BY <1>2

(* The task in process is put off, starts or is refused.                    *)
LEMMA DeferMoves ==
    ASSUME Inv, pc = "callback", current' = {}, NEW task \in current, task \in Posted, Defer(task)
    PROVE  LoopMove
<1>1. deferred' = Append(deferred, task) /\ UNCHANGED <<queue, slotTask>> /\ current = {task}
    BY DEF Defer, Inv, OneCurrent
<1>2. deferred \in Seq(Posted) /\ Once(deferred, Posted) /\ task \notin Range(deferred)
    BY QueuedBoth DEF Inv, CurrentIsOut
<1>3. Range(deferred') = Range(deferred) \cup {task}
    BY <1>1, <1>2, AppendOnce
<1>4. \A t \in Posted : Waits(t)' <=> Waits(t)
    BY <1>1, <1>3 DEF Waits
<1> QED
    BY <1>1, <1>4, NothingEnds DEF LoopMove

LEMMA TaskGoes ==
    ASSUME Inv, pc = "callback", current' = {}, NEW task \in current, task \in Posted, Moved(Both, Both')
    PROVE  Gone(task)
<1>1. current = {task} /\ task \notin Range(queue) /\ task \notin Range(deferred)
    BY DEF Inv, OneCurrent, CurrentIsOut
<1>2. \A t : t \in Range(queue') \/ t \in Range(deferred') <=> t \in Range(queue) \/ t \in Range(deferred)
    BY DEF Moved, Both
<1> QED
    BY <1>1, <1>2 DEF Gone, Waits

LEMMA CompletionMoves ==
    ASSUME Inv, pc = "callback", current' = {}, NEW task \in current, ProcessCompletion(task)
    PROVE  LoopMove
<1>1. task \in Posted
    <2>1. task \in Task /\ task.kind = "completion"
        BY DEF Inv, OneCurrent, ProcessCompletion
    <2> QED
        BY <2>1, TaskKinds
<1>2. CASE Defer(task)
    BY <1>1, <1>2, DeferMoves
<1>3. ASSUME NEW s \in Free, ~(Cardinality(ChildSlots(s)) < Len(task.children)), Launch(task, s)
      PROVE  LoopMove
    <2>1. s \in Slots /\ Shapes /\ Queued(Both)
        BY DEF Free, Inv
    <2>2. CASE LaunchAll(task, s, Append(task.children, task.id))
        <3>1. StartedIdle(task, s) /\ AllStarted(task) /\ UNCHANGED <<queue, deferred>>
            BY <1>1, <1>3, <2>2, LaunchStarts DEF LaunchAll
        <3>2. Gone(task)
            BY <1>1, <2>1, <3>1, NothingMoved, TaskGoes
        <3>3. \A x \in Slots : slotState[x] = "idle" => slotTask[x] = None
            BY DEF Inv, SlotsTaken
        <3>4. \A id \in Ids : id # None
            BY OneFamily
        <3>5. \A id \in Ids : InSlot(id)' <=> InSlot(id) \/ id \in FamilyOf(task)
            BY <3>1, <3>3, <3>4 DEF InSlot, StartedIdle, AllStarted
        <3> QED
            BY <1>1, <3>2, <3>5 DEF Launched, LoopMove
    <2>3. ASSUME NEW id \in FamilyOf(task), LaunchFails(task, id) PROVE LoopMove
        <3>1. PICK S \in SUBSET Free : Release(S)
            BY <2>3 DEF LaunchFails
        <3>2. S \subseteq Slots /\ \A x \in S : slotTask[x] = None
            BY DEF Free, Processing, Inv, SlotsTaken
        <3>3. Moved(Both, Both') /\ \A x \in Slots : slotTask'[x] = IF x \in S THEN None ELSE slotTask[x]
            BY <2>1, <3>1, <3>2, ReleaseMoves
        <3>4. \A x \in Ids : InSlot(x)' <=> InSlot(x)
            BY <3>2, <3>3 DEF InSlot
        <3> QED
            BY <1>1, <3>3, <3>4, TaskGoes DEF Dropped, LoopMove
    <2> QED
        BY <1>1, <1>3, <2>1, <2>2, <2>3, LaunchCases
<1> QED
    BY <1>2, <1>3 DEF ProcessCompletion

LEMMA LoopMoves ==
    ASSUME Inv, \/ LoopStep \/ FailBatch \/ UNCHANGED vars
                \/ \E s \in Slots : SlotStep(s) \/ FailSlot(s)
    PROVE  UNCHANGED reader /\ LoopMove
<1>1. CASE TakeTask
    <2>1. /\ current = {} /\ current' = {Head(queue)} /\ UNCHANGED <<deferred, slotTask, reader>>
          /\ \A t : t \in Range(queue) <=> t = Head(queue) \/ t \in Range(queue')
        BY <1>1, TakeTaskKeeps DEF TakeTask, Inv, OneCurrent
    <2>2. \A t \in Posted : Waits(t)' <=> Waits(t)
        BY <2>1 DEF Waits
    <2> QED
        BY <2>1, <2>2, NothingEnds DEF LoopMove
<1>2. CASE ProcessSingleTask
    <2>1. pc = "callback" /\ current' = {} /\ UNCHANGED reader
        BY <1>2 DEF ProcessSingleTask
    <2>2. PICK task \in current : \/ ProcessCompletion(task) \/ ProcessSlotAction(task)
                                  \/ ProcessCancel(task)     \/ ProcessNext(task)
        BY <1>2 DEF ProcessSingleTask
    <2>3. current = {task} /\ task \in Task /\ Shapes /\ Queued(Both)
        BY <2>1 DEF Inv, OneCurrent
    <2>4. CASE ProcessSlotAction(task)
        <3>1. task \in Posted
            BY <2>3, <2>4, TaskKinds DEF ProcessSlotAction
        <3>2. CASE UNCHANGED <<queue, deferred, slotTask>>
            <4>1. \A id \in Ids : InSlot(id)' <=> InSlot(id)
                BY <3>2 DEF InSlot
            <4> QED
                BY <2>1, <2>3, <3>1, <3>2, <4>1, NothingMoved, TaskGoes DEF Dropped, LoopMove
        <3> QED
            BY <2>1, <2>4, <3>1, <3>2, DeferMoves DEF ProcessSlotAction
    <2>5. CASE ProcessCancel(task) \/ ProcessNext(task)
        <3>1. task \notin Posted
            BY <2>3, <2>5, TaskKinds DEF ProcessCancel, ProcessNext
        <3>2. \A t \in Posted : t \in current' <=> t \in current
            BY <2>1, <2>3, <3>1
        <3>3. CASE UNCHANGED <<queue, deferred, slotTask>>
            <4>1. \A t \in Posted : Waits(t)' <=> Waits(t)
                BY <3>2, <3>3 DEF Waits
            <4> QED
                BY <2>1, <3>3, <4>1, NothingEnds DEF LoopMove
        <3>4. ASSUME NEW S, S \subseteq Slots, Release(S) PROVE LoopMove
            <4>1. /\ Moved(Both, Both')
                  /\ \A s \in Slots : slotTask'[s] = IF s \in S THEN None ELSE slotTask[s]
                BY <2>3, <3>4, ReleaseMoves
            <4> QED
                BY <3>2, <3>4, <4>1, ReleaseEnds DEF LoopMove
        <3>5. {x \in Slots : slotTask[x] = task.id} \subseteq Slots
            OBVIOUS
        <3> QED
            BY <2>1, <2>5, <3>3, <3>4, <3>5 DEF ProcessCancel, ProcessNext
    <2> QED
        BY <2>1, <2>2, <2>4, <2>5, CompletionMoves
<1>3. CASE BeginUpdate
    <2>1. /\ queue = <<>> /\ UNCHANGED <<deferred, current, slotTask, reader>>
          /\ \A t : t \in Range(queue') <=> t = NextResponse
        BY <1>3, BeginUpdateKeeps DEF BeginUpdate
    <2>2. \A t \in Posted : t \notin Range(queue) /\ t \notin Range(queue')
        BY <2>1, TaskKinds DEF Range
    <2>3. \A t \in Posted : Waits(t)' <=> Waits(t)
        BY <2>1, <2>2 DEF Waits
    <2> QED
        BY <2>1, <2>3, NothingEnds DEF LoopMove
<1>4. CASE EndUpdate \/ UNCHANGED vars \/ \E s \in Slots : DonePrompt(s)
    <2>1. UNCHANGED <<queue, deferred, current, slotTask, reader>>
        BY <1>4 DEF EndUpdate, vars, DonePrompt
    <2>2. \A t \in Posted : Waits(t)' <=> Waits(t)
        BY <2>1 DEF Waits
    <2> QED
        BY <2>1, <2>2, NothingEnds DEF LoopMove
<1>5. ASSUME NEW S, S \subseteq Slots, NEW result, EndTurn(S, result) PROVE UNCHANGED reader /\ LoopMove
    <2>1. Release(S) /\ UNCHANGED <<current, reader>> /\ Shapes /\ Queued(Both)
        BY <1>5 DEF EndTurn, Inv
    <2>2. /\ Moved(Both, Both')
          /\ \A s \in Slots : slotTask'[s] = IF s \in S THEN None ELSE slotTask[s]
        BY <1>5, <2>1, ReleaseMoves
    <2> QED
        BY <1>5, <2>1, <2>2, ReleaseEnds DEF LoopMove
<1>6. CASE FailBatch
    <2>1. Processing \subseteq Slots /\ EndTurn(Processing, "error")
        BY <1>6 DEF FailBatch, Processing
    <2> QED
        BY <1>5, <2>1
<1>7. ASSUME NEW s \in Slots, SlotStep(s) \/ FailSlot(s), ~DonePrompt(s) PROVE UNCHANGED reader /\ LoopMove
    <2>1. {s} \subseteq Slots /\ (EndTurn({s}, "final") \/ EndTurn({s}, "error"))
        BY <1>7 DEF SlotStep, AnswerEmptyPrompt, Finish, FailSlot
    <2> QED
        BY <1>5, <2>1
<1> QED
    BY <1>1, <1>2, <1>3, <1>4, <1>6, <1>7 DEF LoopStep

(* What TaskLifecycle sees of an id: the phase of its task.                 *)
PhasesAre ==
    \A t \in Posted : \A id \in FamilyOf(t) :
        Phase(id) = IF InSlot(id) THEN "running"
                    ELSE IF Waits(t) THEN "pending"
                    ELSE IF reader[Owner[id]] = "new" THEN "absent" ELSE "ended"

LEMMA PhaseOfTask == Inv => PhasesAre
<1> SUFFICES ASSUME Inv, NEW t \in Posted, NEW id \in FamilyOf(t)
             PROVE  Phase(id) = IF InSlot(id) THEN "running"
                                ELSE IF Waits(t) THEN "pending"
                                ELSE IF reader[Owner[id]] = "new" THEN "absent" ELSE "ended"
    BY DEF PhasesAre
<1>1. Pending(id) = IF Waits(t) THEN 1 ELSE 0
    BY PendingOnce
<1> QED
    BY <1>1 DEF Phase

LEMMA PhaseOfTaskNext == Inv' => PhasesAre'
    BY PhaseOfTask, PTL

(* TaskLifecycle's ids and families are the scheduler's.                    *)
LEMMA FamilyNames ==
    /\ \A r \in Readers : \A id : id \in UNION Families[r] <=> id \in IdsOf(r)
    /\ \A r \in Readers : \A t \in ToSet(Batch[r]) : FamilyOf(t) \in Families[r]
    /\ Lifecycle!Ids = Ids
<1>1. ASSUME NEW r \in Readers
      PROVE  \A id : id \in UNION Families[r] <=> id \in IdsOf(r)
    BY IdsOfRequest DEF Families
<1>2. \A r \in Readers : \A t \in ToSet(Batch[r]) : FamilyOf(t) \in Families[r]
    BY DEF Families
<1>3. \A id : id \in Lifecycle!Ids <=> \E r \in Readers : id \in UNION Families[r]
    BY DEF Lifecycle!Ids
<1>4. \A id : id \in Ids <=> \E r \in Readers : id \in IdsOf(r)
    BY DEF Ids
<1>5. Lifecycle!Ids = Ids
    BY <1>1, <1>3, <1>4
<1> QED
    BY <1>1, <1>2, <1>5

LEMMA SameCardinality ==
    ASSUME NEW S
    PROVE  Lifecycle!Cardinality(S) = Cardinality(S)
    BY DEF Lifecycle!Cardinality, Cardinality

LEMMA MovesPhases ==
    ASSUME NEW S, NEW to, \A id \in Ids : Phase(id)' = IF id \in S THEN to ELSE Phase(id)
    PROVE  Lifecycle!Move(S, to)
    BY FamilyNames DEF Lifecycle!Move

LEMMA AtPhase ==
    ASSUME NEW where
    PROVE  \A id : id \in Lifecycle!At(where) <=> id \in Ids /\ Phase(id) = where
    BY FamilyNames DEF Lifecycle!At

OpenReaders == {r \in Readers : reader[r] = "waiting"}

(* Slots that end their turn end a set of running ids, or none.             *)
LEMMA EndedImplements ==
    ASSUME Inv, PhasesAre, PhasesAre', UNCHANGED reader, NEW S \in SUBSET Ids, Ended(S)
    PROVE  \/ Lifecycle!End
           \/ UNCHANGED <<[id \in Ids |-> Phase(id)], OpenReaders>>
<1>1. OpenReaders' = OpenReaders
    BY DEF OpenReaders
<1>2. ASSUME NEW id \in Ids
      PROVE  /\ Phase(id)' = IF id \in S THEN "ended" ELSE Phase(id)
             /\ id \in S => Phase(id) = "running"
    <2>1. PICK t \in Posted : id \in FamilyOf(t)
        BY OneFamily
    <2>2. /\ Phase(id) = IF InSlot(id) THEN "running" ELSE IF Waits(t) THEN "pending"
                         ELSE IF reader[Owner[id]] = "new" THEN "absent" ELSE "ended"
          /\ Phase(id)' = IF InSlot(id)' THEN "running" ELSE IF Waits(t)' THEN "pending"
                          ELSE IF reader'[Owner[id]] = "new" THEN "absent" ELSE "ended"
        BY <2>1 DEF PhasesAre
    <2>3. /\ Waits(t)' <=> Waits(t) /\ reader' = reader
          /\ id \in S => InSlot(id)
          /\ InSlot(id)' <=> InSlot(id) /\ id \notin S
        BY DEF Ended
    <2>4. InSlot(id) => ~Waits(t)
        BY <2>1 DEF Inv, WaitsUnstarted, Unstarted
    <2>5. InSlot(id) => reader[Owner[id]] # "new"
        BY OwnerOfId DEF Inv, NotPosted, Unstarted
    <2> QED
        BY <2>2, <2>3, <2>4, <2>5
<1>3. CASE S = {}
    <2>1. \A id \in Ids : Phase(id)' = Phase(id)
        BY <1>2, <1>3
    <2> QED
        BY <1>1, <2>1
<1>4. CASE S # {}
    <2>1. Lifecycle!Move(S, "ended")
        BY <1>2, MovesPhases
    <2>2. S \in SUBSET Lifecycle!At("running")
        BY <1>2, AtPhase
    <2> QED
        BY <1>1, <1>4, <2>1, <2>2 DEF Lifecycle!End, OpenReaders
<1> QED
    BY <1>3, <1>4

(* The phases of a family whose task leaves the callback.                   *)
LEMMA GonePhases ==
    ASSUME Inv, PhasesAre, PhasesAre', UNCHANGED reader, NEW task \in Posted, Gone(task)
    PROVE  /\ \A id \in FamilyOf(task) :
                /\ id \in Ids /\ Phase(id) = "pending"
                /\ Phase(id)' = IF InSlot(id)' THEN "running" ELSE "ended"
           /\ \A id \in Ids \ FamilyOf(task) : (InSlot(id)' <=> InSlot(id)) => Phase(id)' = Phase(id)
           /\ Owner[task.id] \in Readers /\ FamilyOf(task) \in Families[Owner[task.id]]
<1>1. /\ task.id \in FamilyOf(task) /\ task.id \in Ids /\ Owner[task.id] \in Readers
      /\ task \in ToSet(Batch[Owner[task.id]])
    BY OneFamily, OwnerOfId
<1>2. Waits(task) /\ reader[Owner[task.id]] # "new"
    BY <1>1 DEF Gone, Inv, NotPosted
<1>3. \A id \in FamilyOf(task) : Owner[id] = Owner[task.id]
    BY <1>1, OwnerOfTask
<1>4. ASSUME NEW id \in FamilyOf(task)
      PROVE  /\ id \in Ids /\ Phase(id) = "pending"
             /\ Phase(id)' = IF InSlot(id)' THEN "running" ELSE "ended"
    <2>1. id \in Ids /\ ~InSlot(id)
        BY <1>2, OneFamily DEF Inv, WaitsUnstarted, Unstarted
    <2>2. ~Waits(task)' /\ reader'[Owner[id]] # "new"
        BY <1>2, <1>3 DEF Gone
    <2>3. Phase(id) = "pending"
        BY <1>2, <2>1 DEF PhasesAre
    <2>4. Phase(id)' = IF InSlot(id)' THEN "running" ELSE "ended"
        BY <2>2 DEF PhasesAre
    <2> QED
        BY <2>1, <2>3, <2>4
<1>5. ASSUME NEW id \in Ids \ FamilyOf(task), InSlot(id)' <=> InSlot(id) PROVE Phase(id)' = Phase(id)
    <2>1. PICK t \in Posted : id \in FamilyOf(t)
        BY OneFamily
    <2>2. Waits(t)' <=> Waits(t)
        BY <2>1 DEF Gone
    <2>3. /\ Phase(id) = IF InSlot(id) THEN "running" ELSE IF Waits(t) THEN "pending"
                         ELSE IF reader[Owner[id]] = "new" THEN "absent" ELSE "ended"
          /\ Phase(id)' = IF InSlot(id)' THEN "running" ELSE IF Waits(t)' THEN "pending"
                          ELSE IF reader'[Owner[id]] = "new" THEN "absent" ELSE "ended"
        BY <2>1 DEF PhasesAre
    <2> QED
        BY <1>5, <2>2, <2>3
<1>6. FamilyOf(task) \in Families[Owner[task.id]]
    BY <1>1, FamilyNames
<1> QED
    BY <1>1, <1>4, <1>5, <1>6

LEMMA DroppedImplements ==
    ASSUME Inv, PhasesAre, PhasesAre', UNCHANGED reader, NEW task \in Posted, Dropped(task)
    PROVE  \E r \in Readers : \E F \in Families[r] : Lifecycle!Refuse(F)
<1> DEFINE F == FamilyOf(task)
<1>1. Gone(task) /\ \A id \in Ids : InSlot(id)' <=> InSlot(id)
    BY DEF Dropped
<1>2. /\ \A id \in F : id \in Ids /\ Phase(id) = "pending"
                       /\ Phase(id)' = IF InSlot(id)' THEN "running" ELSE "ended"
      /\ \A id \in Ids \ F : (InSlot(id)' <=> InSlot(id)) => Phase(id)' = Phase(id)
      /\ Owner[task.id] \in Readers /\ F \in Families[Owner[task.id]]
    BY <1>1, GonePhases
<1>3. \A id \in F : ~InSlot(id)
    BY <1>1 DEF Gone, Inv, WaitsUnstarted, Unstarted
<1> HIDE DEF F
<1>4. \A id \in Ids : Phase(id)' = IF id \in F THEN "ended" ELSE Phase(id)
    BY <1>1, <1>2, <1>3
<1>5. Lifecycle!Move(F, "ended")
    BY <1>4, MovesPhases
<1>6. F \subseteq Lifecycle!At("pending")
    BY <1>2, AtPhase
<1>7. Lifecycle!Refuse(F)
    BY <1>5, <1>6 DEF Lifecycle!Refuse
<1> QED
    BY <1>2, <1>7

(* Families that run have slots of their own: no more run than slots are.   *)
LEMMA RunningFits ==
    ASSUME NEW A, \A id \in A : \E s \in Slots : slotTask'[s] = id
    PROVE  IsFiniteSet(A) /\ Cardinality(A) <= NSlots
<1> DEFINE B == {s \in Slots : slotTask'[s] \in A}
           f == [s \in B |-> slotTask'[s]]
<1>1. IsFiniteSet(Slots) /\ Cardinality(Slots) = NSlots /\ NSlots \in Nat
    <2>1. NSlots \in Nat \ {0}
        BY SchedulerAssumption
    <2>2. NSlots - 1 - 0 + 1 = NSlots /\ 0 <= NSlots - 1
        BY <2>1
    <2> QED
        BY <2>1, <2>2, FS_Interval DEF Slots
<1>2. IsFiniteSet(B) /\ Cardinality(B) <= Cardinality(Slots)
    BY <1>1, FS_Subset
<1>3. f \in Surjection(B, A)
    BY DEF Surjection
<1>4. IsFiniteSet(A) /\ Cardinality(A) <= Cardinality(B)
    BY <1>2, <1>3, FS_Surjection
<1>5. Cardinality(A) \in Nat /\ Cardinality(B) \in Nat
    BY <1>2, <1>4, FS_CardinalityType
<1> QED
    BY <1>1, <1>2, <1>4, <1>5

LEMMA LaunchedImplements ==
    ASSUME Inv, PhasesAre, PhasesAre', UNCHANGED reader, NEW task \in Posted, Launched(task)
    PROVE  \E r \in Readers : \E F \in Families[r] : Lifecycle!Start(F)
<1> DEFINE F == FamilyOf(task)
           A == Lifecycle!At("running")
<1>1. Gone(task) /\ \A id \in Ids : InSlot(id)' <=> InSlot(id) \/ id \in F
    BY DEF Launched
<1>2. /\ \A id \in F : id \in Ids /\ Phase(id) = "pending"
                       /\ Phase(id)' = IF InSlot(id)' THEN "running" ELSE "ended"
      /\ \A id \in Ids \ F : (InSlot(id)' <=> InSlot(id)) => Phase(id)' = Phase(id)
      /\ Owner[task.id] \in Readers /\ F \in Families[Owner[task.id]]
    BY <1>1, GonePhases
<1> HIDE DEF F
<1>3. \A id \in Ids : Phase(id)' = IF id \in F THEN "running" ELSE Phase(id)
    BY <1>1, <1>2
<1>4. Lifecycle!Move(F, "running")
    BY <1>3, MovesPhases
<1>5. F \subseteq Lifecycle!At("pending")
    BY <1>2, AtPhase
<1>6. \A id : id \in A <=> id \in Ids /\ Phase(id) = "running"
    BY AtPhase
<1> HIDE DEF A
<1>7. A \cap F = {}
    BY <1>2, <1>6
<1>8. ASSUME NEW id \in A \cup F PROVE \E s \in Slots : slotTask'[s] = id
    <2>1. (id \in Ids /\ InSlot(id)) \/ id \in F
        <3>1. CASE id \in A
            <4>1. PICK t \in Posted : id \in FamilyOf(t)
                BY <1>6, <3>1, OneFamily
            <4> QED
                BY <1>6, <3>1, <4>1 DEF PhasesAre
        <3> QED
            BY <3>1
    <2> QED
        BY <1>1, <1>2, <2>1 DEF InSlot
<1>9. IsFiniteSet(A \cup F) /\ Cardinality(A \cup F) <= NSlots
    BY <1>8, RunningFits
<1>10. Cardinality(A) + Cardinality(F) <= NSlots
    <2>1. A \subseteq A \cup F /\ F \subseteq A \cup F
        OBVIOUS
    <2>2. IsFiniteSet(A) /\ IsFiniteSet(F)
        BY <1>9, <2>1, FS_Subset
    <2>3. Cardinality(A \cup F) = Cardinality(A) + Cardinality(F) - Cardinality(A \cap F)
        BY <2>2, FS_Union
    <2>4. Cardinality(A \cap F) = 0
        BY <1>7, FS_EmptySet
    <2>5. Cardinality(A) \in Nat /\ Cardinality(F) \in Nat
        BY <2>2, FS_CardinalityType
    <2> QED
        BY <1>9, <2>3, <2>4, <2>5
<1>11. Lifecycle!Cardinality(Lifecycle!At("running")) + Lifecycle!Cardinality(F) <= NSlots
    BY <1>10, SameCardinality DEF A
<1>12. Lifecycle!Start(F)
    BY <1>4, <1>5, <1>11 DEF Lifecycle!Start, OpenReaders
<1> QED
    BY <1>2, <1>12

(* A reader that posts submits its families; one that has its last result   *)
(* or stops closes.                                                         *)
LEMMA PostTasksImplements ==
    ASSUME Inv, Inv', PhasesAre, PhasesAre', NEW r \in Readers, PostTasks(r)
    PROVE  Lifecycle!Submit(r)
<1> DEFINE U == UNION Families[r]
<1>1. /\ reader[r] = "new" /\ reader' = [reader EXCEPT ![r] = "waiting"]
      /\ UNCHANGED <<deferred, current, slotTask>>
    BY DEF PostTasks
<1>2. \A x \in Readers : reader'[x] = IF x = r THEN "waiting" ELSE reader[x]
    BY <1>1 DEF Inv, Shapes
<1>3. \A t \in Posted : Waits(t)' <=> Waits(t) \/ t \in ToSet(Batch[r])
    BY <1>1, PostTasksKeeps DEF Waits
<1>4. \A id : id \in U <=> id \in IdsOf(r)
    BY FamilyNames
<1> HIDE DEF U
<1>5. ASSUME NEW id \in Ids
      PROVE  /\ Phase(id)' = IF id \in U THEN "pending" ELSE Phase(id)
             /\ id \in U => Phase(id) = "absent"
    <2>1. PICK t \in Posted : id \in FamilyOf(t)
        BY OneFamily
    <2>2. /\ t \in ToSet(Batch[Owner[id]]) /\ Owner[id] \in Readers
          /\ Owner[id] = r <=> id \in IdsOf(r)
        BY <2>1, OwnerOfId
    <2>3. t \in ToSet(Batch[r]) <=> Owner[id] = r
        BY <2>1, <2>2, OwnerOfTask
    <2>4. /\ Phase(id) = IF InSlot(id) THEN "running" ELSE IF Waits(t) THEN "pending"
                         ELSE IF reader[Owner[id]] = "new" THEN "absent" ELSE "ended"
          /\ Phase(id)' = IF InSlot(id)' THEN "running" ELSE IF Waits(t)' THEN "pending"
                          ELSE IF reader'[Owner[id]] = "new" THEN "absent" ELSE "ended"
        BY <2>1 DEF PhasesAre
    <2>5. InSlot(id)' <=> InSlot(id)
        BY <1>1 DEF InSlot
    <2>6. Owner[id] = r => ~InSlot(id) /\ ~Waits(t)
        BY <1>1, <2>2, <2>3 DEF Inv, NotPosted, Unstarted
    <2> QED
        BY <1>1, <1>2, <1>3, <1>4, <2>2, <2>3, <2>4, <2>5, <2>6
<1>6. Lifecycle!Move(U, "pending")
    BY <1>5, MovesPhases
<1>7. U \subseteq Lifecycle!At("absent")
    BY <1>4, <1>5, AtPhase, OwnerOfId
<1>8. OpenReaders' = OpenReaders \cup {r}
    BY <1>2 DEF OpenReaders
<1> QED
    BY <1>6, <1>7, <1>8 DEF Lifecycle!Submit, OpenReaders, U

LEMMA CloseImplements ==
    ASSUME Inv, PhasesAre, PhasesAre', NEW r \in Readers, reader[r] = "waiting",
           reader' = [reader EXCEPT ![r] = "closed"], UNCHANGED slotTask,
           NEW missed \in Families[r] \cup {{}},
           \A t \in Posted : Waits(t)' <=> Waits(t) /\ (t.id \notin IdsOf(r) \/ FamilyOf(t) = missed)
    PROVE  Lifecycle!Close(r)
<1> DEFINE C == ((UNION Families[r]) \ missed) \cap Lifecycle!At("pending")
<1>1. \A x \in Readers : reader'[x] = IF x = r THEN "closed" ELSE reader[x]
    BY DEF Inv, Shapes
<1>2. \A id \in Ids : id \in C <=> id \in IdsOf(r) /\ id \notin missed /\ Phase(id) = "pending"
    BY FamilyNames, AtPhase
<1> HIDE DEF C
<1>3. ASSUME NEW id \in Ids
      PROVE  Phase(id)' = IF id \in C THEN "ended" ELSE Phase(id)
    <2>1. PICK t \in Posted : id \in FamilyOf(t)
        BY OneFamily
    <2>2. /\ t \in ToSet(Batch[Owner[id]]) /\ Owner[id] \in Readers
          /\ Owner[id] = r <=> id \in IdsOf(r)
        BY <2>1, OwnerOfId
    <2>3. t.id \in IdsOf(r) <=> Owner[id] = r
        BY <2>1, <2>2, OwnerOfTask, OwnerOfId, OneFamily
    <2>4. /\ Phase(id) = IF InSlot(id) THEN "running" ELSE IF Waits(t) THEN "pending"
                         ELSE IF reader[Owner[id]] = "new" THEN "absent" ELSE "ended"
          /\ Phase(id)' = IF InSlot(id)' THEN "running" ELSE IF Waits(t)' THEN "pending"
                          ELSE IF reader'[Owner[id]] = "new" THEN "absent" ELSE "ended"
        BY <2>1 DEF PhasesAre
    <2>5. InSlot(id)' <=> InSlot(id)
        BY DEF InSlot
    <2>6. InSlot(id) => ~Waits(t)
        BY <2>1 DEF Inv, WaitsUnstarted, Unstarted
    <2>9. id \in missed <=> FamilyOf(t) = missed
        <3>1. missed = {} \/ \E u \in Posted : missed = FamilyOf(u)
            BY PostedElements DEF Families
        <3> QED
            BY <2>1, <3>1, OneFamily
    <2>7. Waits(t)' <=> Waits(t) /\ (Owner[id] # r \/ id \in missed)
        BY <2>3, <2>9
    <2>8. reader'[Owner[id]] = "new" <=> reader[Owner[id]] = "new"
        BY <1>1, <2>2
    <2> QED
        BY <1>2, <2>2, <2>4, <2>5, <2>6, <2>7, <2>8
<1>4. Lifecycle!Move(C, "ended")
    BY <1>3, MovesPhases
<1>5. OpenReaders' = OpenReaders \ {r} /\ r \in OpenReaders
    BY <1>1 DEF OpenReaders
<1>6. \E m \in Families[r] \cup {{}} :
        Lifecycle!Move(((UNION Families[r]) \ m) \cap Lifecycle!At("pending"), "ended")
    BY <1>4 DEF C
<1> QED
    BY <1>5, <1>6 DEF Lifecycle!Close, OpenReaders

LEMMA ReceiveAllImplements ==
    ASSUME Inv, PhasesAre, PhasesAre', NEW r \in Readers, ReceiveAll(r)
    PROVE  Lifecycle!Close(r)
<1>1. /\ reader[r] = "waiting" /\ \A id \in IdsOf(r) : outcome[id] = "final"
      /\ reader' = [reader EXCEPT ![r] = "closed"]
      /\ UNCHANGED <<queue, deferred, current, slotTask>>
    BY DEF ReceiveAll
<1>2. \A t \in Posted : Waits(t) => t.id \notin IdsOf(r)
    BY <1>1, OneFamily DEF Inv, WaitsUnstarted, Unstarted
<1>3. \A t \in Posted : Waits(t)' <=> Waits(t) /\ (t.id \notin IdsOf(r) \/ FamilyOf(t) = {})
    BY <1>1, <1>2 DEF Waits
<1>4. {} \in Families[r] \cup {{}}
    OBVIOUS
<1> QED
    BY <1>1, <1>3, <1>4, CloseImplements

(* The family that stays pending is the one whose task is in process.       *)
LEMMA StopReaderImplements ==
    ASSUME Inv, PhasesAre, PhasesAre', NEW r \in Readers, StopReader(r)
    PROVE  Lifecycle!Close(r)
<1>1. /\ reader[r] = "waiting" /\ reader' = [reader EXCEPT ![r] = "closed"]
      /\ UNCHANGED slotTask
    BY DEF StopReader
<1>2. \A t \in Posted : Waits(t)' <=> Waits(t) /\ (t.id \notin IdsOf(r) \/ t \in current)
    BY StopReaderWaits
<1>3. ASSUME NEW u \in Posted, u \in current, u.id \in IdsOf(r) PROVE Lifecycle!Close(r)
    <2>1. \A t \in Posted : t \in current <=> t = u
        BY <1>3 DEF Inv, OneCurrent
    <2>2. \A t \in Posted : t = u <=> FamilyOf(t) = FamilyOf(u)
        BY OneFamily
    <2>3. u \in ToSet(Batch[r])
        BY <1>3, OneFamily, OwnerOfId
    <2>4. FamilyOf(u) \in Families[r] \cup {{}}
        BY <2>3, FamilyNames
    <2>5. \A t \in Posted : Waits(t)' <=> Waits(t) /\ (t.id \notin IdsOf(r) \/ FamilyOf(t) = FamilyOf(u))
        BY <1>2, <2>1, <2>2
    <2> QED
        BY <1>1, <2>4, <2>5, CloseImplements
<1>4. CASE \A t \in Posted : t \in current => t.id \notin IdsOf(r)
    <2>1. \A t \in Posted : FamilyOf(t) # {}
        BY OneFamily
    <2>2. \A t \in Posted : Waits(t)' <=> Waits(t) /\ (t.id \notin IdsOf(r) \/ FamilyOf(t) = {})
        BY <1>2, <1>4, <2>1
    <2>3. {} \in Families[r] \cup {{}}
        OBVIOUS
    <2> QED
        BY <1>1, <2>2, <2>3, CloseImplements
<1> QED
    BY <1>3, <1>4

LEMMA StepImplements ==
    ASSUME Inv, Inv', PhasesAre, PhasesAre', [Next]_vars
    PROVE  [Lifecycle!Next]_<<[id \in Ids |-> Phase(id)], OpenReaders>>
<1>1. ASSUME UNCHANGED reader, LoopMove
      PROVE  [Lifecycle!Next]_<<[id \in Ids |-> Phase(id)], OpenReaders>>
    <2>1. ASSUME NEW S \in SUBSET Ids, Ended(S)
          PROVE  [Lifecycle!Next]_<<[id \in Ids |-> Phase(id)], OpenReaders>>
        BY <1>1, <2>1, EndedImplements DEF Lifecycle!Next
    <2>2. ASSUME NEW task \in Posted, Launched(task) PROVE Lifecycle!Next
        BY <1>1, <2>2, LaunchedImplements DEF Lifecycle!Next
    <2>3. ASSUME NEW task \in Posted, Dropped(task) PROVE Lifecycle!Next
        BY <1>1, <2>3, DroppedImplements DEF Lifecycle!Next
    <2> QED
        BY <1>1, <2>1, <2>2, <2>3 DEF LoopMove
<1>2. ASSUME NEW r \in Readers, PostTasks(r) \/ ReceiveAll(r) \/ StopReader(r) PROVE Lifecycle!Next
    BY <1>2, PostTasksImplements, ReceiveAllImplements, StopReaderImplements DEF Lifecycle!Next
<1> QED
    BY <1>1, <1>2, LoopMoves DEF Next

LEMMA InitImplements == Init => Lifecycle!Init
<1> SUFFICES ASSUME Init PROVE Lifecycle!Init
    OBVIOUS
<1>1. /\ queue = <<>> /\ deferred = <<>> /\ current = {}
      /\ slotTask = [s \in Slots |-> None] /\ reader = [r \in Readers |-> "new"]
    BY DEF Init
<1>2. Range(queue) = {} /\ Range(deferred) = {}
    BY <1>1 DEF Range
<1>3. PhasesAre
    BY InvInit, PhaseOfTask
<1>4. ASSUME NEW id \in Ids PROVE Phase(id) = "absent"
    <2>1. PICK t \in Posted : id \in FamilyOf(t)
        BY OneFamily
    <2>2. ~InSlot(id) /\ ~Waits(t) /\ reader[Owner[id]] = "new"
        BY <1>1, <1>2, OneFamily, OwnerOfId DEF InSlot, Waits
    <2> QED
        BY <1>3, <2>1, <2>2 DEF PhasesAre
<1>5. [id \in Ids |-> Phase(id)] = [id \in Lifecycle!Ids |-> "absent"]
    BY <1>4, FamilyNames
<1>6. {r \in Readers : reader[r] = "waiting"} = {}
    BY <1>1
<1> QED
    BY <1>5, <1>6 DEF Lifecycle!Init

(* The scheduler implements TaskLifecycle: families start together, once,   *)
(* in as many slots as there are, and what has not started ends when its    *)
(* reader stops, save the one family in process; every step of the queues,  *)
(* the loop and the slots is one of TaskLifecycle's or changes nothing it   *)
(* sees.                                                                    *)
THEOREM SchedulerImplements == Spec => ImplementsLifecycle
<1>1. Inv /\ Inv' /\ PhasesAre /\ PhasesAre' /\ [Next]_vars
        => [Lifecycle!Next]_<<[id \in Ids |-> Phase(id)], {r \in Readers : reader[r] = "waiting"}>>
    BY StepImplements DEF OpenReaders
<1> QED
    BY <1>1, InvInit, InvStep, PhaseOfTask, InitImplements, PTL
       DEF Spec, ImplementsLifecycle, Lifecycle!Spec
=============================================================================
