------------------------ MODULE ResponseReader_proofs ------------------------
(***************************************************************************)
(* What ResponseReader says of a reader holds for any number of readers,   *)
(* tasks and partial results: the results of a request reach next() once   *)
(* and in order, and stop() leaves nothing behind.                         *)
(***************************************************************************)
EXTENDS ResponseReader, TLAPS, FiniteSetTheorems, SequenceTheorems,
        WellFoundedInduction

-----------------------------------------------------------------------------
(* What the helpers return, and the order of numbers.                       *)

(* A nonempty set of naturals has a least element: what stands for           *)
(* induction where the induction theorems cannot be instantiated.           *)
LEMMA LeastElement ==
    ASSUME NEW S, S \subseteq Nat, S # {}
    PROVE  \E x \in S : \A y \in S : x =< y
<1>1. \E x \in S : \A y \in S : ~(<<y, x>> \in OpToRel(<, Nat))
    BY NatLessThanWellFounded, WFMin
<1>2. PICK x \in S : \A y \in S : ~(<<y, x>> \in OpToRel(<, Nat))
    BY <1>1
<1>3. \A y \in S : x =< y
    <2> SUFFICES ASSUME NEW y \in S, y < x PROVE FALSE
        OBVIOUS
    <2>1. <<y, x>> \in OpToRel(<, Nat)
        BY DEF OpToRel
    <2> QED
        BY <2>1, <1>2
<1> QED
    BY <1>3

(* Min returns it.                                                          *)
LEMMA MinIsElement ==
    ASSUME NEW S, S \subseteq Nat, S # {}
    PROVE  Min(S) \in S /\ \A y \in S : Min(S) =< y
    BY LeastElement DEF Min

(* What RemoveAt returns, position by position.                             *)
LEMMA RemoveAtElements ==
    ASSUME NEW S, NEW q \in Seq(S), NEW i \in 1..Len(q)
    PROVE  /\ RemoveAt(q, i) \in Seq(S) /\ Len(RemoveAt(q, i)) = Len(q) - 1
           /\ \A k \in 1..(Len(q) - 1) :
                 RemoveAt(q, i)[k] = IF k < i THEN q[k] ELSE q[k + 1]
<1> DEFINE a == SubSeq(q, 1, i - 1)
           b == SubSeq(q, i + 1, Len(q))
<1>1. /\ a \in Seq(S) /\ Len(a) = i - 1
      /\ \A j \in 1..(i - 1) : a[j] = q[j]
    BY SubSeqProperties, ElementOfSeq
<1>2. /\ b \in Seq(S) /\ Len(b) = Len(q) - i
      /\ \A j \in 1..(Len(q) - i) : b[j] = q[i + j]
    BY SubSeqProperties, ElementOfSeq
<1> HIDE DEF a, b
<1>3. /\ a \o b \in Seq(S) /\ Len(a \o b) = Len(a) + Len(b)
      /\ \A j \in 1..(Len(a) + Len(b)) :
            (a \o b)[j] = IF j <= Len(a) THEN a[j] ELSE b[j - Len(a)]
    BY <1>1, <1>2, ConcatProperties
<1>4. Len(a) = i - 1 /\ Len(a) + Len(b) = Len(q) - 1
    BY <1>1, <1>2, LenProperties
<1>5. ASSUME NEW k \in 1..(Len(q) - 1)
      PROVE  (a \o b)[k] = IF k < i THEN q[k] ELSE q[k + 1]
    <2>1. CASE k < i
        BY <2>1, <1>1, <1>3, <1>4
    <2>2. CASE k >= i
        <3> DEFINE n == k - (i - 1)
        <3>1. n \in 1..(Len(q) - i) /\ i + n = k + 1 /\ ~(k <= i - 1) /\ ~(k < i)
            BY <2>2
        <3>2. (a \o b)[k] = b[n]
            BY <3>1, <1>3, <1>4
        <3>3. b[n] = q[i + n]
            <4> HIDE DEF n
            <4> QED
                BY <3>1, <1>2
        <3> QED
            BY <3>1, <3>2, <3>3
    <2>3. k < i \/ k >= i
        OBVIOUS
    <2> QED
        BY <2>1, <2>2, <2>3
<1> QED
    BY <1>3, <1>4, <1>5 DEF RemoveAt, a, b

(* The recursive function of KeepAt exists.                                 *)
IsKept(g, q, K, len) ==
    g = [n \in 0..len |-> IF n = 0 THEN <<>>
                          ELSE IF n \in K THEN Append(g[n - 1], q[n]) ELSE g[n - 1]]

LEMMA KeptExists ==
    ASSUME NEW q, NEW K, NEW len \in Nat
    PROVE  \E g : IsKept(g, q, K, len)
<1> USE DEF IsKept
<1> DEFINE body(g, n) == IF n = 0 THEN <<>>
                         ELSE IF n \in K THEN Append(g[n - 1], q[n]) ELSE g[n - 1]
           Bad == {n \in Nat : ~(\E g : g = [i \in 0..n |-> body(g, i)])}
<1>1. CASE Bad = {}
    BY <1>1
<1>2. CASE Bad # {}
    <2>1. PICK n \in Bad : \A y \in Bad : n =< y
        <3> HIDE DEF Bad
        <3>1. Bad \subseteq Nat
            BY DEF Bad
        <3> QED
            BY <3>1, <1>2, LeastElement
    <2>2. CASE n = 0
        <3> DEFINE g == [i \in 0..0 |-> <<>>]
        <3>1. g = [i \in 0..0 |-> body(g, i)]
            OBVIOUS
        <3> QED
            BY <3>1, <2>2
    <2>3. CASE n # 0
        <3>1. n - 1 \in Nat /\ n - 1 \notin Bad
            <4>1. n \in Nat
                OBVIOUS
            <4> HIDE DEF Bad
            <4> QED
                BY <4>1, <2>1, <2>3
        <3>2. PICK g : g = [i \in 0..(n - 1) |-> body(g, i)]
            BY <3>1
        <3> DEFINE h == [i \in 0..n |-> IF i = n THEN body(g, n) ELSE g[i]]
        <3>3. ASSUME NEW i \in 0..n PROVE h[i] = body(h, i)
            <4>1. CASE i = 0
                BY <4>1, <2>3, <3>2
            <4>2. CASE i # 0
                <5>1. i - 1 \in 0..(n - 1) /\ i - 1 \in 0..n /\ i - 1 # n
                    BY <4>2
                <5>2. h[i - 1] = g[i - 1]
                    BY <5>1
                <5>3. body(h, i) = body(g, i)
                    BY <5>2, <4>2
                <5>4. i # n => i \in 0..(n - 1)
                    OBVIOUS
                <5>5. i # n => g[i] = body(g, i)
                    BY <5>4, <3>2
                <5> QED
                    BY <5>3, <5>5
            <4> QED
                BY <4>1, <4>2
        <3>4. h = [i \in 0..n |-> body(h, i)]
            BY <3>3
        <3>5. n \notin Bad
            BY <3>4
        <3> QED
            BY <3>5
    <2> QED
        BY <2>2, <2>3
<1> QED
    BY <1>1, <1>2

(* KeepAt keeps the positions of K and their order: m lists them.           *)
Lists(m, p, q, K) ==
    /\ m \in [1..Len(p) -> K]
    /\ \A i, j \in 1..Len(p) : i < j => m[i] < m[j]
    /\ \A i \in 1..Len(p) : p[i] = q[m[i]]
    /\ \A k \in K : \E i \in 1..Len(p) : m[i] = k

LEMMA KeepAtProperties ==
    ASSUME NEW S, NEW q \in Seq(S), NEW K, K \subseteq 1..Len(q)
    PROVE  KeepAt(q, K) \in Seq(S) /\ \E m : Lists(m, KeepAt(q, K), q, K)
<1> DEFINE N == Len(q)
           f == CHOOSE g : IsKept(g, q, K, N)
           Order(s, m, n) == s \in Seq(S) /\ Lists(m, s, q, K \cap 1..n)
           Bad == {n \in 0..N : ~(\E m : Order(f[n], m, n))}
<1>1. N \in Nat
    BY LenProperties
<1>2. IsKept(f, q, K, N)
    BY <1>1, KeptExists
<1>3. KeepAt(q, K) = f[N]
    BY DEF KeepAt, IsKept
<1> HIDE DEF N, f
<1> USE DEF Lists
<1>4. f[0] = <<>>
    BY <1>1, <1>2 DEF IsKept
<1>5. ASSUME NEW n \in 0..N, n # 0
      PROVE  f[n] = IF n \in K THEN Append(f[n - 1], q[n]) ELSE f[n - 1]
    BY <1>1, <1>2, <1>5 DEF IsKept
<1>6. CASE Bad # {}
    <2>1. PICK n \in Bad : \A y \in Bad : n =< y
        <3>1. Bad \subseteq Nat
            BY <1>1
        <3> HIDE DEF Bad
        <3> QED
            BY <3>1, <1>6, LeastElement
    <2>2. CASE n = 0
        <3>1. /\ <<>> \in Seq(S) /\ Len(<<>>) = 0
              /\ 1..0 = {} /\ <<>> \in [{} -> K \cap 1..0]
            OBVIOUS
        <3>2. Order(<<>>, <<>>, 0)
            BY <3>1
        <3>3. f[n] = <<>>
            BY <1>4, <2>2
        <3>4. Order(f[n], <<>>, n)
            BY <2>2, <3>2, <3>3
        <3> QED
            BY <3>4
    <2>3. CASE n # 0
        <3>1. n - 1 \in 0..N /\ n - 1 \notin Bad /\ n \in 1..N
            <4>1. n \in 0..N
                OBVIOUS
            <4> HIDE DEF Bad
            <4> QED
                BY <4>1, <2>1, <2>3, <1>1
        <3>2. PICK m : Order(f[n - 1], m, n - 1)
            BY <3>1
        <3> DEFINE s == f[n - 1]
                   L == Len(s)
        <3>3. s \in Seq(S) /\ L \in Nat /\ DOMAIN m = 1..L
            BY <3>2, LenProperties
        <3> HIDE DEF s
        <3>4. CASE n \notin K
            <4>1. f[n] = s
                BY <3>4, <1>5, <2>3 DEF s
            <4>2. K \cap 1..n = K \cap 1..(n - 1)
                BY <3>1, <3>4
            <4>3. Order(s, m, n)
                BY <3>2, <4>2 DEF s
            <4> QED
                BY <4>1, <4>3
        <3>5. CASE n \in K
            <4> DEFINE t == Append(s, q[n])
                       p == [i \in 1..(L + 1) |-> IF i = L + 1 THEN n ELSE m[i]]
            <4>1. f[n] = t
                BY <3>5, <1>5, <2>3 DEF s
            <4>2. q[n] \in S
                BY <3>1, ElementOfSeq DEF N
            <4>3. /\ t \in Seq(S) /\ Len(t) = L + 1
                  /\ \A i \in 1..L : t[i] = s[i]
                  /\ t[L + 1] = q[n]
                BY <3>3, <4>2, AppendProperties
            <4>4. /\ \A i \in 1..L : m[i] \in K /\ m[i] \in 1..(n - 1)
                  /\ \A i, j \in 1..L : i < j => m[i] < m[j]
                  /\ \A i \in 1..L : s[i] = q[m[i]]
                  /\ \A k \in K \cap 1..(n - 1) : \E i \in 1..L : m[i] = k
                BY <3>2 DEF s
            <4> HIDE DEF t, L
            <4>5. \A i \in 1..(L + 1) : i = L + 1 \/ i \in 1..L
                BY <3>3
            <4>6. p[L + 1] = n /\ \A i \in 1..L : p[i] = m[i] /\ i # L + 1
                BY <3>3
            <4>7. p \in [1..(L + 1) -> K \cap 1..n]
                <5>1. ASSUME NEW i \in 1..(L + 1) PROVE p[i] \in K /\ p[i] \in 1..n
                    BY <3>1, <3>5, <4>4, <4>5, <4>6
                <5> QED
                    BY <5>1
            <4> HIDE DEF p
            <4>8. ASSUME NEW i \in 1..(L + 1), NEW j \in 1..(L + 1), i < j
                  PROVE  p[i] < p[j]
                <5>1. i \in 1..L
                    BY <4>8, <3>3
                <5>2. CASE j = L + 1
                    <6>1. m[i] \in 1..(n - 1) /\ p[i] = m[i] /\ p[j] = n
                        BY <5>1, <5>2, <4>4, <4>6
                    <6> QED
                        BY <6>1, <3>1
                <5>3. CASE j \in 1..L
                    BY <5>1, <5>3, <4>4, <4>6, <4>8
                <5> QED
                    BY <5>2, <5>3, <4>5
            <4>9. ASSUME NEW i \in 1..(L + 1) PROVE t[i] = q[p[i]]
                <5>1. CASE i = L + 1
                    BY <5>1, <4>3, <4>6
                <5>2. CASE i \in 1..L
                    <6>1. t[i] = s[i] /\ s[i] = q[m[i]] /\ p[i] = m[i]
                        BY <5>2, <4>3, <4>4, <4>6
                    <6> QED
                        BY <6>1
                <5> QED
                    BY <5>1, <5>2, <4>5
            <4>10. \A k \in K \cap 1..n : \E i \in 1..(L + 1) : p[i] = k
                <5>1. ASSUME NEW k \in K \cap 1..n PROVE \E i \in 1..(L + 1) : p[i] = k
                    <6>1. CASE k = n
                        <7>1. L + 1 \in 1..(L + 1)
                            BY <3>3
                        <7> QED
                            BY <6>1, <7>1, <4>6
                    <6>2. CASE k # n
                        <7>1. k \in K \cap 1..(n - 1)
                            BY <6>2, <3>1
                        <7>2. PICK i \in 1..L : m[i] = k
                            BY <7>1, <4>4
                        <7>3. i \in 1..(L + 1)
                            BY <3>3
                        <7> QED
                            BY <7>2, <7>3, <4>6
                    <6> QED
                        BY <6>1, <6>2
                <5> QED
                    BY <5>1
            <4>11. Order(t, p, n)
                BY <4>3, <4>7, <4>8, <4>9, <4>10
            <4> QED
                BY <4>1, <4>11
        <3> QED
            BY <3>4, <3>5
    <2> QED
        BY <2>2, <2>3
<1>7. CASE Bad = {}
    <2>1. \E m : Order(f[N], m, N)
        BY <1>7, <1>1
    <2>2. K \cap 1..N = K
        BY DEF N
    <2> QED
        BY <2>1, <2>2, <1>3
<1> QED
    BY <1>6, <1>7

(* So does RemoveAt, of all positions but one.                              *)
LEMMA RemoveAtLists ==
    ASSUME NEW S, NEW q \in Seq(S), NEW i \in 1..Len(q)
    PROVE  RemoveAt(q, i) \in Seq(S) /\ \E m : Lists(m, RemoveAt(q, i), q, (1..Len(q)) \ {i})
<1> DEFINE p == RemoveAt(q, i)
           m == [k \in 1..Len(p) |-> IF k < i THEN k ELSE k + 1]
<1>1. /\ p \in Seq(S) /\ Len(p) = Len(q) - 1 /\ Len(q) \in Nat
      /\ \A k \in 1..(Len(q) - 1) : p[k] = IF k < i THEN q[k] ELSE q[k + 1]
    BY RemoveAtElements, LenProperties
<1> HIDE DEF p
<1>2. m \in [1..Len(p) -> (1..Len(q)) \ {i}]
    BY <1>1
<1>3. \A k, l \in 1..Len(p) : k < l => m[k] < m[l]
    BY <1>1
<1>4. \A k \in 1..Len(p) : p[k] = q[m[k]]
    BY <1>1
<1>5. ASSUME NEW k \in (1..Len(q)) \ {i} PROVE \E l \in 1..Len(p) : m[l] = k
    <2>1. CASE k < i
        <3>1. k \in 1..Len(p) /\ m[k] = k
            BY <2>1, <1>1
        <3> QED
            BY <3>1
    <2>2. CASE k > i
        <3>1. k - 1 \in 1..Len(p) /\ ~(k - 1 < i) /\ (k - 1) + 1 = k
            BY <2>2, <1>1
        <3>2. m[k - 1] = k
            BY <3>1
        <3> QED
            BY <3>1, <3>2
    <2> QED
        BY <2>1, <2>2
<1>6. Lists(m, p, q, (1..Len(q)) \ {i})
    BY <1>2, <1>3, <1>4, <1>5 DEF Lists
<1> QED
    BY <1>1, <1>6 DEF p

(* A set that the numbers from a + 1 to b count, each once, has b - a       *)
(* elements.                                                                *)
LEMMA NumberedSet ==
    ASSUME NEW P, NEW a \in Int, NEW b \in Int, a <= b, NEW f \in [P -> (a + 1)..b],
           \A x, y \in P : f[x] = f[y] => x = y,
           \A n \in (a + 1)..b : \E x \in P : f[x] = n
    PROVE  IsFiniteSet(P) /\ Cardinality(P) = b - a
<1>1. IsFiniteSet((a + 1)..b) /\ Cardinality((a + 1)..b) = b - a
    <2>1. a + 1 \in Int
        OBVIOUS
    <2>2. /\ IsFiniteSet((a + 1)..b)
          /\ Cardinality((a + 1)..b) = IF a + 1 > b THEN 0 ELSE b - (a + 1) + 1
        BY <2>1, FS_Interval
    <2> QED
        BY <2>2
<1>2. f \in Injection(P, (a + 1)..b) /\ f \in Surjection(P, (a + 1)..b)
    BY DEF Injection, IsInjective, Surjection
<1> QED
    BY <1>1, <1>2, FS_Injection

-----------------------------------------------------------------------------

(* The places of a reader that waits for its ids, and of one whose tasks    *)
(* are posted and whose results may be in the queue.                        *)
Reading == {"scan", "waiting", "timeout"}
Open == Reading \cup {"registered", "stop"}
Holding == Reading \cup {"stop", "erase"}

Shapes ==
    /\ waiting \subseteq Ids /\ given \subseteq Ids /\ cancels \subseteq Ids
    /\ results \in Seq(Result) /\ pc \in [Readers -> Steps]
    /\ received \in [Readers -> Nat] /\ cancelled \in [Readers -> BOOLEAN]
    /\ sent \in [Ids -> Nat] /\ got \in [Ids -> Nat]

(* An id is in the waiting list from post_tasks to stop(); nothing is known *)
(* of it before, and its CANCEL is posted last.                             *)
Listed ==
    \A r \in Readers : \A id \in IdsOf[r] :
        /\ id \in waiting <=> pc[r] \in Open
        /\ pc[r] \in {"new", "registered"} => id \notin given /\ sent[id] = 0 /\ got[id] = 0
        /\ pc[r] # "closed" => id \notin cancels
Unstopped == \A r \in Readers : pc[r] \notin {"cancel", "closed"} => ~cancelled[r]

(* Only of posted tasks whose reader has not cleaned up are results queued. *)
Held ==
    \A i \in 1..Len(results) : \A r \in Readers :
        results[i].id \in IdsOf[r] => pc[r] \in Holding

(* The last result of an id comes behind all others, when the loop is done  *)
(* with the task; and it does come while the reader waits for it.           *)
LastIsLast ==
    \A i \in 1..Len(results) : results[i].kind # "partial" =>
        /\ results[i].id \notin given
        /\ \A j \in 1..Len(results) : results[j].id = results[i].id => j <= i
LastComes ==
    \A i \in 1..Len(results) : \A r \in Readers :
        pc[r] \in Open /\ results[i].id \in IdsOf[r] /\ results[i].id \notin given =>
            \E j \in 1..Len(results) : results[j].id = results[i].id /\ results[j].kind # "partial"

(* The queued results of an id are the ones after those that were read.     *)
InOrder(id) ==
    /\ got[id] <= sent[id]
    /\ \A i \in 1..Len(results) : results[i].id = id => results[i].n \in (got[id] + 1)..sent[id]
    /\ \A i, j \in 1..Len(results) :
        results[i].id = id /\ results[j].id = id /\ i < j => results[i].n < results[j].n
    /\ \A n \in (got[id] + 1)..sent[id] :
        \E i \in 1..Len(results) : results[i].id = id /\ results[i].n = n
Ordered == \A r \in Readers : pc[r] \in Serving => \A id \in IdsOf[r] : InOrder(id)

(* The tasks of which the last result was read; received counts them, up to *)
(* the error that stops the reader.                                         *)
Over(r) ==
    {id \in IdsOf[r] : /\ id \notin given
                       /\ \A i \in 1..Len(results) : results[i].id = id => results[i].kind = "partial"}
Counted ==
    \A r \in Readers :
        /\ pc[r] \in {"new", "registered"} => received[r] = 0
        /\ pc[r] \in Reading => received[r] = Cardinality(Over(r))
        /\ pc[r] \in Holding => received[r] <= Cardinality(Over(r))
        /\ received[r] <= Cardinality(IdsOf[r])

Places == Listed /\ Unstopped /\ Held
Lasts == LastIsLast /\ LastComes
Inv == Shapes /\ Places /\ Lasts /\ Ordered /\ Counted

-----------------------------------------------------------------------------
(* An id belongs to one reader.                                             *)
LEMMA OneOwner ==
    /\ \A r \in Readers : \A id \in IdsOf[r] : id \in Ids
    /\ \A id \in Ids : \E r \in Readers : id \in IdsOf[r]
    /\ \A r1, r2 \in Readers : \A id : id \in IdsOf[r1] /\ id \in IdsOf[r2] => r1 = r2
    BY ReaderAssumption DEF Ids

LEMMA OverIsFinite ==
    ASSUME NEW r \in Readers
    PROVE  /\ IsFiniteSet(Over(r)) /\ Over(r) \subseteq IdsOf[r]
           /\ Cardinality(Over(r)) \in Nat /\ Cardinality(Over(r)) <= Cardinality(IdsOf[r])
           /\ Cardinality(Over(r)) >= Cardinality(IdsOf[r]) => Over(r) = IdsOf[r]
<1>1. IsFiniteSet(IdsOf[r]) /\ Over(r) \subseteq IdsOf[r]
    BY ReaderAssumption DEF Over
<1> HIDE DEF Over
<1> QED
    BY <1>1, FS_Subset, FS_CardinalityType

-----------------------------------------------------------------------------
(* What one step does, action by action.                                    *)
LEMMA InitInv == Init => Inv
<1> SUFFICES ASSUME Init PROVE Inv
    OBVIOUS
<1>1. results = <<>> /\ Len(results) = 0 /\ 1..Len(results) = {}
    BY DEF Init
<1>2. Shapes
    BY DEF Init, Shapes, Steps
<1>3. Places
    BY <1>1, OneOwner DEF Init, Places, Listed, Unstopped, Held, Open, Reading
<1>4. Lasts
    BY <1>1 DEF Lasts, LastIsLast, LastComes
<1>5. Ordered
    BY DEF Init, Ordered, Serving
<1>6. Counted
    <2>1. \A r \in Readers : Cardinality(IdsOf[r]) \in Nat
        BY ReaderAssumption, FS_CardinalityType
    <2> QED
        BY <2>1 DEF Init, Counted, Reading, Holding
<1> QED
    BY <1>2, <1>3, <1>4, <1>5, <1>6 DEF Inv

(* Waiting, timing out, looking at should_stop and leaving move a reader    *)
(* that reads, and nothing else.                                            *)
LEMMA MoveStep ==
    ASSUME Inv, NEW r \in Readers, Wait(r) \/ Timeout(r) \/ CheckStop(r) \/ Leave(r)
    PROVE  Inv'
<1>1. /\ pc[r] \in Reading
      /\ \E to \in Reading \cup {"stop"} : pc' = [pc EXCEPT ![r] = to]
      /\ UNCHANGED <<waiting, results, received, cancelled, loop, got>>
    <2>1. CASE Wait(r)
        BY <2>1 DEF Wait, Reading
    <2>2. CASE Timeout(r)
        BY <2>2 DEF Timeout, Reading
    <2>3. CASE CheckStop(r)
        BY <2>3 DEF CheckStop, Reading
    <2>4. CASE Leave(r)
        BY <2>4 DEF Leave, Reading
    <2> QED
        BY <2>1, <2>2, <2>3, <2>4
<1>2. PICK to \in Reading \cup {"stop"} : pc' = [pc EXCEPT ![r] = to]
    BY <1>1
<1>3. \A x \in Readers : pc'[x] = IF x = r THEN to ELSE pc[x]
    BY <1>2 DEF Inv, Shapes
<1>4. UNCHANGED <<waiting, results, received, cancelled, given, cancels, sent, got>>
    BY <1>1 DEF loop
<1>5. Shapes'
    BY <1>2, <1>4 DEF Inv, Shapes, Reading, Steps
<1>6. Places'
    BY <1>1, <1>3, <1>4 DEF Inv, Places, Listed, Unstopped, Held, Open, Reading, Holding
<1>7. Lasts'
    BY <1>1, <1>3, <1>4 DEF Inv, Lasts, LastIsLast, LastComes, Open, Reading
<1>8. Ordered'
    BY <1>1, <1>3, <1>4 DEF Inv, Ordered, InOrder, Serving, Reading
<1>9. Counted'
    <2>1. \A x \in Readers : Over(x)' = Over(x)
        BY <1>4 DEF Over
    <2> QED
        BY <2>1, <1>1, <1>3, <1>4, OverIsFinite DEF Inv, Counted, Reading, Holding
<1> QED
    BY <1>5, <1>6, <1>7, <1>8, <1>9 DEF Inv

LEMMA RegisterStep ==
    ASSUME Inv, NEW r \in Readers, Register(r)
    PROVE  Inv'
<1>1. /\ pc[r] = "new" /\ pc' = [pc EXCEPT ![r] = "registered"]
      /\ waiting' = waiting \cup IdsOf[r] /\ given' = given
      /\ UNCHANGED <<results, received, cancelled, cancels, sent, got>>
    BY DEF Register, PostOrder, FirstWait
<1>2. \A x \in Readers : pc'[x] = IF x = r THEN "registered" ELSE pc[x]
    BY <1>1 DEF Inv, Shapes
<1>3. \A i \in 1..Len(results) : results[i].id \notin IdsOf[r]
    BY <1>1 DEF Inv, Places, Held, Holding, Reading
<1>5. Shapes'
    BY <1>1, OneOwner DEF Inv, Shapes, Steps
<1>6. Places'
    <2>1. Listed'
        BY <1>1, <1>2, OneOwner DEF Inv, Places, Listed, Open, Reading
    <2>2. Unstopped' /\ Held'
        BY <1>1, <1>2, <1>3 DEF Inv, Places, Unstopped, Held
    <2> QED
        BY <2>1, <2>2 DEF Places
<1>7. Lasts'
    BY <1>1, <1>2, <1>3 DEF Inv, Lasts, LastIsLast, LastComes
<1>8. Ordered'
    <2>1. ASSUME NEW id \in IdsOf[r] PROVE InOrder(id)'
        <3>1. sent[id] = 0 /\ got[id] = 0
            BY <1>1 DEF Inv, Places, Listed
        <3>2. \A i \in 1..Len(results) : results[i].id # id
            BY <1>3
        <3> QED
            BY <1>1, <3>1, <3>2 DEF InOrder
    <2>2. \A id : InOrder(id) => InOrder(id)'
        BY <1>1 DEF InOrder
    <2> QED
        BY <1>2, <2>1, <2>2 DEF Inv, Ordered
<1>9. Counted'
    <2>1. \A x \in Readers : Over(x)' = Over(x)
        BY <1>1 DEF Over
    <2> QED
        BY <2>1, <1>1, <1>2 DEF Inv, Counted, Reading, Holding
<1> QED
    BY <1>5, <1>6, <1>7, <1>8, <1>9 DEF Inv

LEMMA PostTasksStep ==
    ASSUME Inv, NEW r \in Readers, PostTasks(r)
    PROVE  Inv'
<1>1. /\ pc[r] = "registered" /\ pc' = [pc EXCEPT ![r] = "scan"]
      /\ waiting' = waiting \cup IdsOf[r] /\ given' = given \cup IdsOf[r]
      /\ UNCHANGED <<results, received, cancelled, cancels, sent, got>>
    BY DEF PostTasks, PostOrder, FirstWait
<1>2. \A x \in Readers : pc'[x] = IF x = r THEN "scan" ELSE pc[x]
    BY <1>1 DEF Inv, Shapes
<1>3. \A i \in 1..Len(results) : results[i].id \notin IdsOf[r]
    BY <1>1 DEF Inv, Places, Held, Holding, Reading
<1>4. /\ \A x \in Readers : x # r => \A id \in IdsOf[x] : id \in given' <=> id \in given
      /\ \A i \in 1..Len(results) : results[i].id \in given' <=> results[i].id \in given
    BY <1>1, <1>3, OneOwner
<1>5. Shapes'
    BY <1>1, OneOwner DEF Inv, Shapes, Steps
<1>6. Places'
    <2>1. Listed'
        BY <1>1, <1>2, <1>4, OneOwner DEF Inv, Places, Listed, Open, Reading
    <2>2. Unstopped' /\ Held'
        BY <1>1, <1>2, <1>3 DEF Inv, Places, Unstopped, Held
    <2> QED
        BY <2>1, <2>2 DEF Places
<1>7. Lasts'
    BY <1>1, <1>2, <1>3, <1>4 DEF Inv, Lasts, LastIsLast, LastComes
<1>8. Ordered'
    <2>1. \A id : InOrder(id) => InOrder(id)'
        BY <1>1 DEF InOrder
    <2> QED
        BY <1>1, <1>2, <2>1 DEF Inv, Ordered, Serving
<1>9. Counted'
    <2>1. \A x \in Readers : x # r => Over(x)' = Over(x)
        BY <1>1, <1>4 DEF Over
    <2>2. Over(r)' = {}
        BY <1>1 DEF Over
    <2>3. Cardinality(Over(r)') = 0
        BY <2>2, FS_EmptySet
    <2> QED
        BY <2>1, <2>3, <1>1, <1>2 DEF Inv, Counted, Reading, Holding
<1> QED
    BY <1>5, <1>6, <1>7, <1>8, <1>9 DEF Inv

LEMMA StopWaitingStep ==
    ASSUME Inv, NEW r \in Readers, StopWaiting(r)
    PROVE  Inv'
<1>1. /\ pc[r] = "stop" /\ waiting' = waiting \ IdsOf[r]
      /\ pc' = [pc EXCEPT ![r] = IF HasNext(r) THEN "erase" ELSE "closed"]
      /\ UNCHANGED <<results, received, cancelled, given, cancels, sent, got>>
    BY DEF StopWaiting, loop
<1>2. \A x \in Readers : pc'[x] = IF x = r THEN IF HasNext(r) THEN "erase" ELSE "closed" ELSE pc[x]
    BY <1>1 DEF Inv, Shapes
<1>3. ASSUME ~HasNext(r)
      PROVE  /\ \A id \in IdsOf[r] : id \notin given
             /\ \A i \in 1..Len(results) : results[i].id \notin IdsOf[r]
    <2>1. ~cancelled[r]
        BY <1>1 DEF Inv, Places, Unstopped
    <2>2. received[r] >= Cardinality(IdsOf[r]) /\ received[r] <= Cardinality(Over(r))
        <3>1. received[r] \in Nat /\ Cardinality(IdsOf[r]) \in Nat
            BY ReaderAssumption, FS_CardinalityType DEF Inv, Shapes
        <3>2. received[r] <= Cardinality(Over(r))
            BY <1>1 DEF Inv, Counted, Holding
        <3> QED
            BY <3>1, <3>2, <1>3, <2>1 DEF HasNext
    <2>3. Over(r) = IdsOf[r]
        <3>1. received[r] \in Nat /\ Cardinality(IdsOf[r]) \in Nat
            BY ReaderAssumption, FS_CardinalityType DEF Inv, Shapes
        <3> QED
            BY <3>1, <2>2, OverIsFinite
    <2>4. \A id \in IdsOf[r] : id \notin given
        BY <2>3 DEF Over
    <2>5. \A i \in 1..Len(results) : results[i].id \in IdsOf[r] => results[i].kind = "partial"
        BY <2>3 DEF Over
    <2>6. ASSUME NEW i \in 1..Len(results), results[i].id \in IdsOf[r] PROVE FALSE
        <3>1. \E j \in 1..Len(results) : results[j].id = results[i].id /\ results[j].kind # "partial"
            BY <1>1, <2>4, <2>6 DEF Inv, Lasts, LastComes, Open
        <3> QED
            BY <3>1, <2>5, <2>6
    <2> QED
        BY <2>4, <2>6
<1>5. Shapes'
    BY <1>1 DEF Inv, Shapes, Steps
<1>6. Places'
    <2>1. Listed'
        BY <1>1, <1>2, <1>3, OneOwner DEF Inv, Places, Listed, Open, Reading
    <2>2. Unstopped'
        BY <1>1, <1>2 DEF Inv, Places, Unstopped
    <2>3. Held'
        BY <1>1, <1>2, <1>3 DEF Inv, Places, Held, Holding
    <2> QED
        BY <2>1, <2>2, <2>3 DEF Places
<1>7. Lasts'
    BY <1>1, <1>2 DEF Inv, Lasts, LastIsLast, LastComes, Open, Reading
<1>8. Ordered'
    <2>1. \A id : InOrder(id) => InOrder(id)'
        BY <1>1 DEF InOrder
    <2> QED
        BY <1>1, <1>2, <2>1 DEF Inv, Ordered, Serving
<1>9. Counted'
    <2>1. \A x \in Readers : Over(x)' = Over(x)
        BY <1>1 DEF Over
    <2> QED
        BY <2>1, <1>1, <1>2 DEF Inv, Counted, Reading, Holding
<1> QED
    BY <1>5, <1>6, <1>7, <1>8, <1>9 DEF Inv

LEMMA EraseResultsStep ==
    ASSUME Inv, NEW r \in Readers, EraseResults(r)
    PROVE  Inv'
<1>1. /\ pc[r] = "erase" /\ pc' = [pc EXCEPT ![r] = "cancel"]
      /\ cancelled' = [cancelled EXCEPT ![r] = TRUE] /\ results' = OtherResults(r)
      /\ UNCHANGED <<waiting, received, given, cancels, sent, got>>
    BY DEF EraseResults, loop
<1>2. /\ \A x \in Readers : pc'[x] = IF x = r THEN "cancel" ELSE pc[x]
      /\ \A x \in Readers : x # r => cancelled'[x] = cancelled[x]
    BY <1>1 DEF Inv, Shapes
<1> DEFINE K == {i \in DOMAIN results : results[i].id \notin IdsOf[r]}
<1>3. results \in Seq(Result) /\ K \subseteq 1..Len(results)
    BY DEF Inv, Shapes
<1>k. \A i \in 1..Len(results) : i \in K <=> results[i].id \notin IdsOf[r]
    BY <1>3
<1>4. results' = KeepAt(results, K)
    BY <1>1 DEF OtherResults
<1> HIDE DEF K
<1>5. results' \in Seq(Result)
    BY <1>3, <1>4, KeepAtProperties
<1>l. PICK m : Lists(m, results', results, K)
    BY <1>3, <1>4, KeepAtProperties
<1>6. /\ \A i, j \in 1..Len(results') : i < j => m[i] < m[j]
      /\ \A i \in 1..Len(results') : m[i] \in K /\ results'[i] = results[m[i]]
      /\ \A k \in K : \E i \in 1..Len(results') : m[i] = k
    BY <1>l DEF Lists
<1>7. \A i \in 1..Len(results') : m[i] \in 1..Len(results) /\ results'[i].id \notin IdsOf[r]
    BY <1>3, <1>6, <1>k
(* Of the other ids every result is kept.                                   *)
<1>8. ASSUME NEW k \in 1..Len(results), results[k].id \notin IdsOf[r]
      PROVE  \E i \in 1..Len(results') : m[i] = k /\ results'[i] = results[k]
    BY <1>6, <1>8, <1>k
<1>9. Shapes'
    BY <1>1, <1>5 DEF Inv, Shapes, Steps
<1>10. Places'
    <2>1. Listed'
        BY <1>1, <1>2, OneOwner DEF Inv, Places, Listed, Open, Reading
    <2>2. Unstopped'
        BY <1>1, <1>2 DEF Inv, Places, Unstopped
    <2>3. Held'
        BY <1>2, <1>6, <1>7 DEF Inv, Places, Held
    <2> QED
        BY <2>1, <2>2, <2>3 DEF Places
<1>11. Lasts'
    <2>1. LastIsLast'
        <3> SUFFICES ASSUME NEW i \in 1..Len(results'), results'[i].kind # "partial"
                     PROVE  /\ results'[i].id \notin given
                            /\ \A j \in 1..Len(results') : results'[j].id = results'[i].id => j <= i
            BY <1>1 DEF LastIsLast
        <3>1. /\ results[m[i]].id \notin given
              /\ \A j \in 1..Len(results) : results[j].id = results[m[i]].id => j <= m[i]
            BY <1>6, <1>7 DEF Inv, Lasts, LastIsLast
        <3>2. ASSUME NEW j \in 1..Len(results'), results'[j].id = results'[i].id PROVE j <= i
            <4>1. m[j] <= m[i]
                BY <3>1, <3>2, <1>6, <1>7
            <4>2. ~(m[i] < m[j])
                BY <4>1, <1>7
            <4> QED
                BY <4>2, <1>6
        <3> QED
            BY <3>1, <3>2, <1>6
    <2>2. LastComes'
        <3> SUFFICES ASSUME NEW i \in 1..Len(results'), NEW x \in Readers,
                            pc'[x] \in Open, results'[i].id \in IdsOf[x], results'[i].id \notin given
                     PROVE  \E j \in 1..Len(results') :
                                results'[j].id = results'[i].id /\ results'[j].kind # "partial"
            BY <1>1 DEF LastComes
        <3>1. pc[x] \in Open
            BY <1>2 DEF Open, Reading
        <3>2. PICK k \in 1..Len(results) :
                results[k].id = results[m[i]].id /\ results[k].kind # "partial"
            BY <3>1, <1>6, <1>7 DEF Inv, Lasts, LastComes
        <3>3. results[k].id \notin IdsOf[r]
            BY <3>2, <1>6, <1>7
        <3> QED
            BY <3>2, <3>3, <1>6, <1>8
    <2> QED
        BY <2>1, <2>2 DEF Lasts
<1>12. Ordered'
    <2> SUFFICES ASSUME NEW x \in Readers, pc'[x] \in Serving, NEW id \in IdsOf[x]
                 PROVE  InOrder(id)'
        BY DEF Ordered
    <2>1. x # r /\ pc[x] \in Serving
        BY <1>2 DEF Serving
    <2>2. InOrder(id)
        BY <2>1 DEF Inv, Ordered
    <2>3. id \notin IdsOf[r]
        BY <2>1, OneOwner
    <2>4. \A n \in (got[id] + 1)..sent[id] :
            \E i \in 1..Len(results') : results'[i].id = id /\ results'[i].n = n
        BY <2>2, <2>3, <1>8 DEF InOrder
    <2>5. \A i \in 1..Len(results') : results'[i].id = id => results'[i].n \in (got[id] + 1)..sent[id]
        BY <2>2, <1>6, <1>7 DEF InOrder
    <2>6. ASSUME NEW i \in 1..Len(results'), NEW j \in 1..Len(results'),
                 results'[i].id = id, results'[j].id = id, i < j
          PROVE  results'[i].n < results'[j].n
        <3>1. m[i] \in 1..Len(results) /\ m[j] \in 1..Len(results) /\ m[i] < m[j]
            BY <2>6, <1>6, <1>7
        <3>2. results'[i] = results[m[i]] /\ results'[j] = results[m[j]]
            BY <1>6
        <3> QED
            BY <2>2, <2>6, <3>1, <3>2 DEF InOrder
    <2> QED
        BY <2>2, <2>4, <2>5, <2>6, <1>1 DEF InOrder
<1>13. Counted'
    <2>1. ASSUME NEW x \in Readers, x # r PROVE Over(x)' = Over(x)
        <3>1. \A id \in IdsOf[x] : id \notin IdsOf[r]
            BY <2>1, OneOwner
        <3>2. ASSUME NEW id \in IdsOf[x]
              PROVE  (\A i \in 1..Len(results') : results'[i].id = id => results'[i].kind = "partial")
                     <=> (\A i \in 1..Len(results) : results[i].id = id => results[i].kind = "partial")
            BY <3>1, <1>6, <1>7, <1>8
        <3> QED
            BY <3>2, <1>1 DEF Over
    <2> QED
        BY <2>1, <1>1, <1>2 DEF Inv, Counted, Reading, Holding
<1> QED
    BY <1>9, <1>10, <1>11, <1>12, <1>13 DEF Inv

LEMMA PostCancelStep ==
    ASSUME Inv, NEW r \in Readers, PostCancel(r)
    PROVE  Inv'
<1>1. /\ pc[r] = "cancel" /\ pc' = [pc EXCEPT ![r] = "closed"]
      /\ cancels' = cancels \cup IdsOf[r]
      /\ UNCHANGED <<waiting, results, received, cancelled, given, sent, got>>
    BY DEF PostCancel
<1>2. \A x \in Readers : pc'[x] = IF x = r THEN "closed" ELSE pc[x]
    BY <1>1 DEF Inv, Shapes
<1>5. Shapes'
    BY <1>1, OneOwner DEF Inv, Shapes, Steps
<1>6. Places'
    <2>1. Listed'
        BY <1>1, <1>2, OneOwner DEF Inv, Places, Listed, Open, Reading
    <2>2. Unstopped' /\ Held'
        BY <1>1, <1>2 DEF Inv, Places, Unstopped, Held, Holding, Reading
    <2> QED
        BY <2>1, <2>2 DEF Places
<1>7. Lasts'
    BY <1>1, <1>2 DEF Inv, Lasts, LastIsLast, LastComes, Open, Reading
<1>8. Ordered'
    <2>1. \A id : InOrder(id) => InOrder(id)'
        BY <1>1 DEF InOrder
    <2> QED
        BY <1>1, <1>2, <2>1 DEF Inv, Ordered, Serving
<1>9. Counted'
    <2>1. \A x \in Readers : Over(x)' = Over(x)
        BY <1>1 DEF Over
    <2> QED
        BY <2>1, <1>1, <1>2 DEF Inv, Counted, Reading, Holding
<1> QED
    BY <1>5, <1>6, <1>7, <1>8, <1>9 DEF Inv

(* Waking a reader up changes nothing an invariant asks of its place.       *)
LEMMA Woken ==
    ASSUME Inv, pc' = [r \in Readers |-> Wake(pc[r])]
    PROVE  /\ pc' \in [Readers -> Steps]
           /\ \A r \in Readers : pc'[r] = pc[r] \/ (pc[r] = "waiting" /\ pc'[r] = "scan")
    BY DEF Inv, Shapes, Wake, Steps

(* The loop sends a result of a task it works on, its last one or not.      *)
LEMMA SendStep ==
    ASSUME Inv, NEW id \in Ids, id \in given, NEW kind \in {"partial", "final", "error"},
           Send(id, kind), given' = IF kind = "partial" THEN given ELSE given \ {id},
           UNCHANGED <<waiting, received, cancelled, cancels, got>>
    PROVE  Inv'
<1> DEFINE e == [id |-> id, n |-> sent[id] + 1, kind |-> kind]
<1>1. PICK o \in Readers : id \in IdsOf[o]
    BY OneOwner
<1>2. \A x \in Readers : id \in IdsOf[x] => x = o
    BY <1>1, OneOwner
<1>3. /\ sent \in [Ids -> Nat] /\ results \in Seq(Result) /\ pc \in [Readers -> Steps]
      /\ e \in Result /\ Len(results) \in Nat
    BY LenProperties DEF Inv, Shapes, Result
<1>4. /\ sent' \in [Ids -> Nat]
      /\ \A x \in Ids : sent'[x] = IF x = id THEN sent[id] + 1 ELSE sent[x]
    BY <1>3 DEF Send
<1>5. \A x \in Ids : x # id => (x \in given' <=> x \in given)
    OBVIOUS
<1>6. pc[o] \notin {"new", "registered"}
    BY <1>1 DEF Inv, Places, Listed
<1>7. CASE id \notin waiting
(* Nobody waits for it, and the result is dropped.                          *)
    <2>1. UNCHANGED <<results, pc>>
        BY <1>7 DEF Send
    <2>2. pc[o] \notin Open
        BY <1>1, <1>7 DEF Inv, Places, Listed
    <2>3. Shapes'
        BY <1>4, <2>1 DEF Inv, Shapes
    <2>4. Places'
        BY <1>1, <1>2, <1>4, <1>6, <2>1, OneOwner DEF Inv, Places, Listed, Unstopped, Held
    <2>5. Lasts'
        <3>1. LastIsLast'
            BY <2>1 DEF Inv, Lasts, LastIsLast
        <3>2. LastComes'
            <4> SUFFICES ASSUME NEW i \in 1..Len(results), NEW x \in Readers,
                                pc[x] \in Open, results[i].id \in IdsOf[x], results[i].id \notin given'
                         PROVE  \E j \in 1..Len(results) :
                                    results[j].id = results[i].id /\ results[j].kind # "partial"
                BY <2>1 DEF LastComes
            <4>1. results[i].id # id
                BY <1>2, <2>2
            <4>2. results[i].id \notin given
                BY <4>1
            <4> QED
                BY <4>2 DEF Inv, Lasts, LastComes
        <3> QED
            BY <3>1, <3>2 DEF Lasts
    <2>6. Ordered'
        <3> SUFFICES ASSUME NEW x \in Readers, pc[x] \in Serving, NEW y \in IdsOf[x]
                     PROVE  InOrder(y)'
            BY <2>1 DEF Ordered
        <3>1. y # id /\ y \in Ids
            BY <1>2, <2>2, OneOwner DEF Open, Serving, Reading
        <3>2. InOrder(y)
            BY DEF Inv, Ordered
        <3>3. sent'[y] = sent[y]
            BY <1>4, <3>1
        <3> QED
            BY <3>2, <3>3, <2>1 DEF InOrder
    <2>7. Counted'
        <3>1. ASSUME NEW x \in Readers PROVE Over(x) \subseteq Over(x)'
            BY <2>1 DEF Over
        <3>2. ASSUME NEW x \in Readers, x # o PROVE Over(x)' = Over(x)
            BY <1>2, <2>1, <3>2 DEF Over
        <3>3. ASSUME NEW x \in Readers
              PROVE  Cardinality(Over(x)) <= Cardinality(Over(x)')
            <4>1. IsFiniteSet(Over(x)')
                <5>1. Over(x)' \subseteq IdsOf[x]
                    BY DEF Over
                <5> QED
                    BY <5>1, ReaderAssumption, FS_Subset
            <4> QED
                BY <3>1, <4>1, FS_Subset
        <3>4. ASSUME NEW x \in Readers
              PROVE  /\ Cardinality(Over(x)) \in Nat /\ Cardinality(Over(x)') \in Nat
                     /\ received[x] \in Nat
            <4>1. Over(x)' \subseteq IdsOf[x]
                BY DEF Over
            <4>2. IsFiniteSet(Over(x)')
                BY <4>1, ReaderAssumption, FS_Subset
            <4> QED
                BY <4>2, OverIsFinite, FS_CardinalityType DEF Inv, Shapes
        <3> QED
            BY <2>1, <2>2, <3>2, <3>3, <3>4, <1>6 DEF Inv, Counted, Open, Reading, Holding
    <2> QED
        BY <2>3, <2>4, <2>5, <2>6, <2>7 DEF Inv
<1>8. CASE id \in waiting
    <2>1. results' = Append(results, e) /\ pc' = [r \in Readers |-> Wake(pc[r])]
        BY <1>8 DEF Send
    <2>2. /\ results' \in Seq(Result) /\ Len(results') = Len(results) + 1
          /\ \A i \in 1..Len(results) : results'[i] = results[i]
          /\ results'[Len(results) + 1] = e
        BY <1>3, <2>1, AppendProperties
    <2>3. \A i \in 1..Len(results') : i \in 1..Len(results) \/ i = Len(results) + 1
        BY <1>3, <2>2
    <2>4. \A i \in 1..Len(results) : i \in 1..Len(results') /\ i < Len(results) + 1
        BY <1>3, <2>2
    <2>5. Len(results) + 1 \in 1..Len(results')
        BY <1>3, <2>2
    <2>6. e.id = id /\ e.n = sent[id] + 1 /\ e.kind = kind
        OBVIOUS
    <2> HIDE DEF e
    <2>7. pc[o] \in Reading \cup {"stop"}
        BY <1>1, <1>6, <1>8 DEF Inv, Places, Listed, Open
    <2>8. /\ pc' \in [Readers -> Steps]
          /\ \A r \in Readers : pc'[r] = pc[r] \/ (pc[r] = "waiting" /\ pc'[r] = "scan")
        BY <2>1, Woken
(* No result of the id is the last one yet.                                 *)
    <2>9. \A i \in 1..Len(results) : results[i].id = id => results[i].kind = "partial"
        BY DEF Inv, Lasts, LastIsLast
    <2>10. Shapes'
        BY <1>4, <2>2, <2>8 DEF Inv, Shapes
    <2>11. Places'
        <3>1. Listed'
            BY <1>1, <1>2, <1>4, <1>6, <2>8, OneOwner DEF Inv, Places, Listed, Open, Reading
        <3>2. Unstopped'
            BY <2>8 DEF Inv, Places, Unstopped
        <3>3. Held'
            <4> SUFFICES ASSUME NEW i \in 1..Len(results'), NEW x \in Readers,
                                results'[i].id \in IdsOf[x]
                         PROVE  pc'[x] \in Holding
                BY DEF Held
            <4>1. CASE i = Len(results) + 1
                BY <4>1, <1>2, <2>2, <2>6, <2>7, <2>8 DEF Holding, Reading
            <4>2. CASE i \in 1..Len(results)
                <5>1. pc[x] \in Holding
                    BY <4>2, <2>2 DEF Inv, Places, Held
                <5> QED
                    BY <5>1, <2>8 DEF Holding, Reading
            <4> QED
                BY <4>1, <4>2, <2>3
        <3> QED
            BY <3>1, <3>2, <3>3 DEF Places
    <2>12. Lasts'
        <3>1. LastIsLast'
            <4> SUFFICES ASSUME NEW i \in 1..Len(results'), results'[i].kind # "partial"
                         PROVE  /\ results'[i].id \notin given'
                                /\ \A j \in 1..Len(results') : results'[j].id = results'[i].id => j <= i
                BY DEF LastIsLast
            <4>1. CASE i = Len(results) + 1
                BY <4>1, <1>3, <2>2, <2>3, <2>6
            <4>2. CASE i \in 1..Len(results)
                <5>1. results'[i] = results[i] /\ results[i].id # id
                    BY <4>2, <2>2, <2>9
                <5>2. /\ results[i].id \notin given
                      /\ \A j \in 1..Len(results) : results[j].id = results[i].id => j <= i
                    BY <4>2, <5>1 DEF Inv, Lasts, LastIsLast
                <5>3. \A j \in 1..Len(results') : results'[j].id = results[i].id => j \in 1..Len(results)
                    BY <5>1, <2>2, <2>3, <2>6
                <5> QED
                    BY <5>1, <5>2, <5>3, <2>2
            <4> QED
                BY <4>1, <4>2, <2>3
        <3>2. LastComes'
            <4> SUFFICES ASSUME NEW i \in 1..Len(results'), NEW x \in Readers,
                                pc'[x] \in Open, results'[i].id \in IdsOf[x], results'[i].id \notin given'
                         PROVE  \E j \in 1..Len(results') :
                                    results'[j].id = results'[i].id /\ results'[j].kind # "partial"
                BY DEF LastComes
            <4>1. CASE results'[i].id = id
                <5>1. kind # "partial"
                    BY <4>1
                <5> QED
                    BY <4>1, <5>1, <2>2, <2>5, <2>6
            <4>2. CASE results'[i].id # id
                <5>1. i \in 1..Len(results) /\ results'[i] = results[i] /\ results[i].id \notin given
                    BY <4>2, <2>2, <2>3, <2>6
                <5>2. pc[x] \in Open
                    BY <2>8 DEF Open, Reading
                <5>3. PICK j \in 1..Len(results) :
                        results[j].id = results[i].id /\ results[j].kind # "partial"
                    BY <5>1, <5>2 DEF Inv, Lasts, LastComes
                <5> QED
                    BY <5>1, <5>3, <2>2, <2>4
            <4> QED
                BY <4>1, <4>2
        <3> QED
            BY <3>1, <3>2 DEF Lasts
    <2>13. Ordered'
        <3> SUFFICES ASSUME NEW x \in Readers, pc'[x] \in Serving, NEW y \in IdsOf[x]
                     PROVE  InOrder(y)'
            BY DEF Ordered
        <3>1. InOrder(y) /\ y \in Ids
            <4>1. pc[x] \in Serving
                BY <2>8 DEF Serving
            <4> QED
                BY <4>1, OneOwner DEF Inv, Ordered
        <3>2. sent[y] \in Nat /\ got[y] \in Nat
            BY <3>1 DEF Inv, Shapes
        <3>3. CASE y # id
            <4>1. sent'[y] = sent[y] /\ got'[y] = got[y]
                BY <1>4, <3>1, <3>3
            <4>2. \A i \in 1..Len(results') :
                    results'[i].id = y => i \in 1..Len(results) /\ results'[i] = results[i]
                BY <2>2, <2>3, <2>6, <3>3
            <4>3. /\ got'[y] <= sent'[y]
                  /\ \A i \in 1..Len(results') : results'[i].id = y => results'[i].n \in (got[y] + 1)..sent[y]
                  /\ \A i, j \in 1..Len(results') :
                        results'[i].id = y /\ results'[j].id = y /\ i < j => results'[i].n < results'[j].n
                BY <3>1, <4>1, <4>2 DEF InOrder
            <4>4. \A n \in (got[y] + 1)..sent[y] :
                    \E i \in 1..Len(results') : results'[i].id = y /\ results'[i].n = n
                BY <3>1, <2>2, <2>4 DEF InOrder
            <4> QED
                BY <4>1, <4>3, <4>4 DEF InOrder
        <3>4. CASE y = id
            <4>1. sent'[id] = sent[id] + 1 /\ got'[id] = got[id]
                BY <1>4
            <4>2. got'[id] <= sent'[id]
                BY <3>1, <3>2, <3>4, <4>1 DEF InOrder
            <4>3. ASSUME NEW i \in 1..Len(results'), results'[i].id = id
                  PROVE  results'[i].n \in (got[id] + 1)..(sent[id] + 1)
                <5>1. CASE i = Len(results) + 1
                    BY <5>1, <2>2, <2>6, <3>1, <3>2, <3>4 DEF InOrder
                <5>2. CASE i \in 1..Len(results)
                    <6>1. results[i].n \in (got[id] + 1)..sent[id]
                        BY <5>2, <4>3, <2>2, <3>1, <3>4 DEF InOrder
                    <6> QED
                        BY <5>2, <6>1, <2>2, <3>2, <3>4
                <5> QED
                    BY <5>1, <5>2, <2>3
            <4>4. ASSUME NEW i \in 1..Len(results'), NEW j \in 1..Len(results'),
                         results'[i].id = id, results'[j].id = id, i < j
                  PROVE  results'[i].n < results'[j].n
                <5>1. i \in 1..Len(results)
                    BY <4>4, <1>3, <2>3, <2>2
                <5>2. CASE j = Len(results) + 1
                    <6>1. results[i].n \in (got[id] + 1)..sent[id]
                        BY <5>1, <4>4, <2>2, <3>1, <3>4 DEF InOrder
                    <6>2. results'[i] = results[i] /\ results'[j].n = sent[id] + 1
                        BY <5>1, <5>2, <2>2, <2>6
                    <6> QED
                        BY <6>1, <6>2, <3>2, <3>4
                <5>3. CASE j \in 1..Len(results)
                    BY <5>1, <5>3, <4>4, <2>2, <3>1, <3>4 DEF InOrder
                <5> QED
                    BY <5>2, <5>3, <2>3
            <4>5. ASSUME NEW n \in (got[id] + 1)..(sent[id] + 1)
                  PROVE  \E i \in 1..Len(results') : results'[i].id = id /\ results'[i].n = n
                <5>1. CASE n = sent[id] + 1
                    BY <5>1, <2>2, <2>5, <2>6
                <5>2. CASE n # sent[id] + 1
                    <6>1. n \in (got[id] + 1)..sent[id]
                        BY <5>2, <3>2, <3>4
                    <6>2. PICK i \in 1..Len(results) : results[i].id = id /\ results[i].n = n
                        BY <6>1, <3>1, <3>4 DEF InOrder
                    <6> QED
                        BY <6>2, <2>2, <2>4
                <5> QED
                    BY <5>1, <5>2
            <4> QED
                BY <3>4, <4>1, <4>2, <4>3, <4>4, <4>5 DEF InOrder
        <3> QED
            BY <3>3, <3>4
    <2>14. Counted'
        <3>1. ASSUME NEW x \in Readers PROVE Over(x)' = Over(x)
            <4>1. ASSUME NEW y \in IdsOf[x], y # id PROVE y \in Over(x)' <=> y \in Over(x)
                <5>1. (\A i \in 1..Len(results') : results'[i].id = y => results'[i].kind = "partial")
                      <=> (\A i \in 1..Len(results) : results[i].id = y => results[i].kind = "partial")
                    BY <4>1, <2>2, <2>3, <2>4, <2>6
                <5> QED
                    BY <4>1, <5>1 DEF Over
            <4>2. id \notin Over(x)
                BY DEF Over
            <4>3. id \notin Over(x)'
                BY <2>2, <2>5, <2>6 DEF Over
            <4> QED
                BY <4>1, <4>2, <4>3 DEF Over
        <3> QED
            BY <3>1, <2>8 DEF Inv, Counted, Reading, Holding
    <2> QED
        BY <2>10, <2>11, <2>12, <2>13, <2>14 DEF Inv
<1> QED
    BY <1>7, <1>8

(* A CANCEL is taken up, and ends the task or misses it: nobody reads the   *)
(* results of the task any more.                                            *)
LEMMA ProcessCancelStep ==
    ASSUME Inv, NEW id \in Ids, ProcessCancel(id)
    PROVE  Inv'
<1>1. /\ id \in cancels /\ cancels' = cancels \ {id}
      /\ given' = given \/ given' = given \ {id}
      /\ UNCHANGED <<waiting, results, pc, received, cancelled, sent, got>>
    BY DEF ProcessCancel
<1>2. \A x \in Readers : id \in IdsOf[x] => pc[x] = "closed"
    BY <1>1 DEF Inv, Places, Listed
<1>3. \A x \in Readers : pc[x] # "closed" => \A y \in IdsOf[x] : y \in given' <=> y \in given
    BY <1>1, <1>2
<1>5. Shapes'
    BY <1>1 DEF Inv, Shapes
<1>6. Places'
    BY <1>1 DEF Inv, Places, Listed, Unstopped, Held
<1>7. Lasts'
    BY <1>1, <1>3 DEF Inv, Lasts, LastIsLast, LastComes, Open, Reading
<1>8. Ordered'
    BY <1>1 DEF Inv, Ordered, InOrder
<1>9. Counted'
    <2>1. \A x \in Readers : pc[x] # "closed" => Over(x)' = Over(x)
        BY <1>1, <1>3 DEF Over
    <2> QED
        BY <2>1, <1>1 DEF Inv, Counted, Reading, Holding
<1> QED
    BY <1>5, <1>6, <1>7, <1>8, <1>9 DEF Inv

(* recv_with_timeout takes the first queued result of the reader's ids.     *)
LEMMA FirstResult ==
    ASSUME NEW r, results \in Seq(Result), FirstOf(r) > 0
    PROVE  /\ FirstOf(r) \in 1..Len(results) /\ results[FirstOf(r)].id \in IdsOf[r]
           /\ \A i \in 1..Len(results) : results[i].id \in IdsOf[r] => FirstOf(r) <= i
<1> DEFINE I == {i \in 1..Len(results) : results[i].id \in IdsOf[r]}
<1>1. FirstOf(r) = IF I # {} THEN Min(I) ELSE 0
    BY DEF FirstOf, SelectInSeq
<1>2. I # {} /\ FirstOf(r) = Min(I)
    BY <1>1
<1>3. Min(I) \in I /\ \A i \in I : Min(I) =< i
    <2>1. I \subseteq Nat
        OBVIOUS
    <2> HIDE DEF I
    <2> QED
        BY <2>1, <1>2, MinIsElement
<1> QED
    BY <1>2, <1>3

LEMMA ReceiveStep ==
    ASSUME Inv, NEW r \in Readers, Receive(r)
    PROVE  Inv'
<1> DEFINE p == FirstOf(r)
           id == results[p].id
           to == IF results[p].kind = "error" THEN "stop" ELSE "scan"
<1>1. /\ results \in Seq(Result) /\ Len(results) \in Nat /\ got \in [Ids -> Nat]
      /\ pc \in [Readers -> Steps] /\ received \in [Readers -> Nat] /\ sent \in [Ids -> Nat]
    BY LenProperties DEF Inv, Shapes
<1>2. /\ pc[r] = "scan" /\ results' = RemoveAt(results, p) /\ pc' = [pc EXCEPT ![r] = to]
      /\ UNCHANGED <<waiting, cancelled, given, cancels, sent>>
    BY DEF Receive, loop
<1>3. /\ got' = [got EXCEPT ![id] = IF results[p].n = @ + 1 THEN results[p].n ELSE -1]
      /\ received' = [received EXCEPT ![r] = IF results[p].kind = "final" THEN @ + 1 ELSE @]
    BY DEF Receive
<1>4. /\ p \in 1..Len(results) /\ id \in IdsOf[r] /\ id \in Ids
      /\ \A i \in 1..Len(results) : results[i].id \in IdsOf[r] => p <= i
    <2>1. FirstOf(r) > 0
        BY DEF Receive
    <2>2. /\ FirstOf(r) \in 1..Len(results) /\ results[FirstOf(r)].id \in IdsOf[r]
          /\ \A i \in 1..Len(results) : results[i].id \in IdsOf[r] => FirstOf(r) <= i
        BY <1>1, <2>1, FirstResult
    <2> QED
        BY <2>2, OneOwner
<1> HIDE DEF p
<1>5. results' \in Seq(Result)
    BY <1>1, <1>2, <1>4, RemoveAtLists
<1>l. PICK m : Lists(m, results', results, (1..Len(results)) \ {p})
    BY <1>1, <1>2, <1>4, RemoveAtLists
<1>6. /\ \A i, j \in 1..Len(results') : i < j => m[i] < m[j]
      /\ \A i \in 1..Len(results') :
            m[i] \in 1..Len(results) /\ m[i] # p /\ results'[i] = results[m[i]]
      /\ \A k \in 1..Len(results) : k # p => \E i \in 1..Len(results') : m[i] = k
    BY <1>l DEF Lists
<1>7. \A k \in 1..Len(results) : k # p =>
        \E i \in 1..Len(results') : m[i] = k /\ results'[i] = results[k]
    BY <1>6
(* What is left of the reader's results was queued later.                   *)
<1>8. \A i \in 1..Len(results') : results'[i].id \in IdsOf[r] => p < m[i]
    BY <1>4, <1>6
(* The result is the one next() has to return.                              *)
<1>9. InOrder(id) /\ results[p].n = got[id] + 1
    <2>1. InOrder(id)
        BY <1>2, <1>4 DEF Inv, Ordered, Serving
    <2>2. results[p].n \in (got[id] + 1)..sent[id] /\ got[id] \in Nat /\ sent[id] \in Nat
        BY <2>1, <1>1, <1>4 DEF InOrder
    <2>3. got[id] + 1 \in (got[id] + 1)..sent[id]
        BY <2>2
    <2>4. PICK j \in 1..Len(results) : results[j].id = id /\ results[j].n = got[id] + 1
        BY <2>1, <2>3 DEF InOrder
    <2>5. p <= j
        BY <2>4, <1>4
    <2>6. CASE p = j
        BY <2>1, <2>4, <2>6
    <2>7. CASE p < j
        <3>1. results[p].n < results[j].n
            BY <2>1, <2>4, <2>7, <1>4 DEF InOrder
        <3> QED
            BY <3>1, <2>2, <2>4
    <2> QED
        BY <2>1, <2>5, <2>6, <2>7, <1>4
<1>10. /\ got' \in [Ids -> Nat]
       /\ \A y \in Ids : got'[y] = IF y = id THEN got[id] + 1 ELSE got[y]
    <2>1. got' = [got EXCEPT ![id] = got[id] + 1] /\ got[id] + 1 \in Nat
        BY <1>1, <1>3, <1>4, <1>9
    <2> HIDE DEF id
    <2> QED
        BY <2>1, <1>1, <1>4
<1>11. /\ to \in {"scan", "stop"} /\ \A x \in Readers : pc'[x] = IF x = r THEN to ELSE pc[x]
    BY <1>1, <1>2
<1>12. /\ received' \in [Readers -> Nat]
       /\ \A x \in Readers : received'[x] = IF x = r /\ results[p].kind = "final"
                                            THEN received[x] + 1 ELSE received[x]
    BY <1>1, <1>3
<1>13. Shapes'
    BY <1>1, <1>2, <1>5, <1>10, <1>11, <1>12 DEF Inv, Shapes, Steps
<1>14. Places'
    <2>1. Listed'
        <3> SUFFICES ASSUME NEW x \in Readers, NEW y \in IdsOf[x]
                     PROVE  /\ y \in waiting <=> pc'[x] \in Open
                            /\ pc'[x] \in {"new", "registered"} =>
                                    y \notin given /\ sent[y] = 0 /\ got'[y] = 0
                            /\ pc'[x] # "closed" => y \notin cancels
            BY <1>2 DEF Listed
        <3>1. CASE x = r
            BY <3>1, <1>2, <1>11 DEF Inv, Places, Listed, Open, Reading
        <3>2. CASE x # r
            <4>1. y # id /\ y \in Ids
                BY <3>2, <1>4, OneOwner
            <4>2. got'[y] = got[y] /\ pc'[x] = pc[x]
                BY <4>1, <3>2, <1>10, <1>11
            <4> QED
                BY <4>2 DEF Inv, Places, Listed
        <3> QED
            BY <3>1, <3>2
    <2>2. Unstopped'
        BY <1>2, <1>11 DEF Inv, Places, Unstopped
    <2>3. Held'
        BY <1>6, <1>11 DEF Inv, Places, Held, Holding, Reading
    <2> QED
        BY <2>1, <2>2, <2>3 DEF Places
<1>15. Lasts'
    <2>1. LastIsLast'
        <3> SUFFICES ASSUME NEW i \in 1..Len(results'), results'[i].kind # "partial"
                     PROVE  /\ results'[i].id \notin given
                            /\ \A j \in 1..Len(results') : results'[j].id = results'[i].id => j <= i
            BY <1>2 DEF LastIsLast
        <3>1. /\ results[m[i]].id \notin given
              /\ \A j \in 1..Len(results) : results[j].id = results[m[i]].id => j <= m[i]
            BY <1>6 DEF Inv, Lasts, LastIsLast
        <3>2. ASSUME NEW j \in 1..Len(results'), results'[j].id = results'[i].id PROVE j <= i
            <4>1. m[j] <= m[i]
                BY <3>1, <3>2, <1>6
            <4>2. ~(m[i] < m[j])
                BY <4>1, <1>6
            <4> QED
                BY <4>2, <1>6
        <3> QED
            BY <3>1, <3>2, <1>6
    <2>2. LastComes'
        <3> SUFFICES ASSUME NEW i \in 1..Len(results'), NEW x \in Readers,
                            pc'[x] \in Open, results'[i].id \in IdsOf[x], results'[i].id \notin given
                     PROVE  \E j \in 1..Len(results') :
                                results'[j].id = results'[i].id /\ results'[j].kind # "partial"
            BY <1>2 DEF LastComes
        <3>1. pc[x] \in Open
            BY <1>2, <1>11 DEF Open, Reading
        <3>2. PICK k \in 1..Len(results) :
                results[k].id = results[m[i]].id /\ results[k].kind # "partial"
            BY <3>1, <1>6 DEF Inv, Lasts, LastComes
        <3>3. k # p
            <4> SUFFICES ASSUME k = p PROVE FALSE
                OBVIOUS
            <4>1. results'[i].id \in IdsOf[r]
                BY <3>2, <1>4, <1>6
            <4>2. p < m[i]
                BY <4>1, <1>8
            <4>3. m[i] <= p
                BY <3>2, <1>6 DEF Inv, Lasts, LastIsLast
            <4> QED
                BY <4>2, <4>3, <1>4, <1>6
        <3>4. PICK j \in 1..Len(results') : results'[j] = results[k]
            BY <3>3, <1>7
        <3>5. results'[i].id = results[m[i]].id
            BY <1>6
        <3> QED
            BY <3>2, <3>4, <3>5
    <2> QED
        BY <2>1, <2>2 DEF Lasts
<1>16. Ordered'
    <2> SUFFICES ASSUME NEW x \in Readers, pc'[x] \in Serving, NEW y \in IdsOf[x]
                 PROVE  InOrder(y)'
        BY DEF Ordered
    <2>1. InOrder(y) /\ y \in Ids
        <3>1. pc[x] \in Serving
            BY <1>2, <1>11 DEF Serving
        <3> QED
            BY <3>1, OneOwner DEF Inv, Ordered
    <2>2. sent'[y] = sent[y] /\ sent[y] \in Nat /\ got[y] \in Nat
        BY <2>1, <1>1, <1>2
    <2>3. ASSUME NEW i \in 1..Len(results'), NEW j \in 1..Len(results'),
                 results'[i].id = y, results'[j].id = y, i < j
          PROVE  results'[i].n < results'[j].n
        <3>1. m[i] \in 1..Len(results) /\ m[j] \in 1..Len(results) /\ m[i] < m[j]
            BY <2>3, <1>6
        <3>2. results'[i] = results[m[i]] /\ results'[j] = results[m[j]]
            BY <1>6
        <3> QED
            BY <2>1, <2>3, <3>1, <3>2 DEF InOrder
    <2>4. CASE y # id
        <3>1. got'[y] = got[y]
            BY <2>1, <2>4, <1>10
        <3>2. \A i \in 1..Len(results') : results'[i].id = y => results'[i].n \in (got[y] + 1)..sent[y]
            BY <2>1, <1>6 DEF InOrder
        <3>3. \A n \in (got[y] + 1)..sent[y] :
                \E i \in 1..Len(results') : results'[i].id = y /\ results'[i].n = n
            BY <2>1, <2>4, <1>7 DEF InOrder
        <3> QED
            BY <2>1, <2>2, <2>3, <3>1, <3>2, <3>3 DEF InOrder
    <2>5. CASE y = id
        <3>1. got'[y] = got[y] + 1 /\ y \in IdsOf[r] /\ results[p].n = got[y] + 1
            BY <2>5, <1>4, <1>9, <1>10
        <3>2. got[y] + 1 <= sent[y]
            BY <2>1, <2>2, <2>5, <3>1, <1>4 DEF InOrder
        <3>3. ASSUME NEW i \in 1..Len(results'), results'[i].id = y
              PROVE  results'[i].n \in (got[y] + 2)..sent[y]
            <4>1. p < m[i] /\ m[i] \in 1..Len(results) /\ results'[i] = results[m[i]]
                BY <3>1, <3>3, <1>6, <1>8
            <4>2. results[m[i]].n \in (got[y] + 1)..sent[y]
                BY <3>3, <4>1, <2>1 DEF InOrder
            <4>3. results[p].n < results[m[i]].n
                BY <3>3, <4>1, <2>1, <2>5, <1>4 DEF InOrder
            <4> QED
                BY <4>1, <4>2, <4>3, <3>1, <2>2
        <3>4. ASSUME NEW n \in (got[y] + 2)..sent[y]
              PROVE  \E i \in 1..Len(results') : results'[i].id = y /\ results'[i].n = n
            <4>1. n \in (got[y] + 1)..sent[y] /\ n # got[y] + 1
                BY <2>2
            <4>2. PICK k \in 1..Len(results) : results[k].id = y /\ results[k].n = n
                BY <4>1, <2>1 DEF InOrder
            <4>3. k # p
                BY <4>1, <4>2, <3>1
            <4> QED
                BY <4>2, <4>3, <1>7
        <3>5. (got[y] + 1) + 1 = got[y] + 2
            BY <2>2
        <3> QED
            BY <2>2, <2>3, <3>1, <3>2, <3>3, <3>4, <3>5 DEF InOrder
    <2> QED
        BY <2>4, <2>5
<1>17. Counted'
    <2>1. ASSUME NEW x \in Readers, NEW y \in IdsOf[x], y # id
          PROVE  y \in Over(x)' <=> y \in Over(x)
        <3>1. (\A i \in 1..Len(results') : results'[i].id = y => results'[i].kind = "partial")
              <=> (\A i \in 1..Len(results) : results[i].id = y => results[i].kind = "partial")
            <4>1. ASSUME \A i \in 1..Len(results') : results'[i].id = y => results'[i].kind = "partial",
                         NEW k \in 1..Len(results), results[k].id = y
                  PROVE  results[k].kind = "partial"
                <5>1. k # p
                    BY <2>1, <4>1
                <5> QED
                    BY <5>1, <4>1, <1>7
            <4>2. ASSUME \A i \in 1..Len(results) : results[i].id = y => results[i].kind = "partial",
                         NEW i \in 1..Len(results'), results'[i].id = y
                  PROVE  results'[i].kind = "partial"
                BY <4>2, <1>6
            <4> QED
                BY <4>1, <4>2
        <3> QED
            BY <3>1, <1>2 DEF Over
    <2>2. ASSUME NEW x \in Readers, x # r PROVE Over(x)' = Over(x)
        <3>1. id \notin IdsOf[x]
            BY <2>2, <1>4, OneOwner
        <3>2. \A y \in IdsOf[x] : y \in Over(x)' <=> y \in Over(x)
            BY <2>1, <3>1
        <3> QED
            BY <3>2 DEF Over
    <2>3. CASE results[p].kind = "partial"
        <3>1. (\A i \in 1..Len(results') : results'[i].id = id => results'[i].kind = "partial")
              <=> (\A i \in 1..Len(results) : results[i].id = id => results[i].kind = "partial")
            <4>1. ASSUME \A i \in 1..Len(results') : results'[i].id = id => results'[i].kind = "partial",
                         NEW k \in 1..Len(results), results[k].id = id
                  PROVE  results[k].kind = "partial"
                BY <2>3, <4>1, <1>7
            <4>2. ASSUME \A i \in 1..Len(results) : results[i].id = id => results[i].kind = "partial",
                         NEW i \in 1..Len(results'), results'[i].id = id
                  PROVE  results'[i].kind = "partial"
                BY <4>2, <1>6
            <4> QED
                BY <4>1, <4>2
        <3>2. id \in Over(r)' <=> id \in Over(r)
            BY <3>1, <1>2 DEF Over
        <3>3. Over(r)' = Over(r)
            BY <2>1, <3>2 DEF Over
        <3> QED
            BY <2>2, <2>3, <3>3, <1>2, <1>11, <1>12 DEF Inv, Counted, Reading, Holding
    <2>4. CASE results[p].kind # "partial"
        <3>1. id \notin given /\ \A j \in 1..Len(results) : results[j].id = id => j <= p
            BY <2>4, <1>4 DEF Inv, Lasts, LastIsLast
        <3>2. \A i \in 1..Len(results') : results'[i].id # id
            <4> SUFFICES ASSUME NEW i \in 1..Len(results'), results'[i].id = id PROVE FALSE
                OBVIOUS
            <4>1. m[i] <= p /\ p < m[i] /\ m[i] \in Int /\ p \in Int
                BY <3>1, <1>4, <1>6, <1>8
            <4> QED
                BY <4>1
        <3>3. id \in Over(r)' /\ id \notin Over(r)
            BY <2>4, <3>1, <3>2, <1>2, <1>4 DEF Over
        <3>4. Over(r)' = Over(r) \cup {id}
            BY <2>1, <3>3, <1>4 DEF Over
        <3>5. /\ Cardinality(Over(r)') = Cardinality(Over(r)) + 1 /\ Cardinality(Over(r)) \in Nat
              /\ Cardinality(Over(r)') <= Cardinality(IdsOf[r]) /\ Cardinality(IdsOf[r]) \in Nat
            <4>1. IsFiniteSet(Over(r)) /\ IsFiniteSet(IdsOf[r]) /\ Over(r)' \subseteq IdsOf[r]
                BY OverIsFinite, ReaderAssumption, <3>4, <1>4
            <4> HIDE DEF id
            <4> QED
                BY <4>1, <3>3, <3>4, FS_AddElement, FS_Subset, FS_CardinalityType
        <3>6. received[r] \in Nat /\ received[r] = Cardinality(Over(r))
            BY <1>1, <1>2 DEF Inv, Counted, Reading
        <3>7. /\ pc'[r] \in Reading => results[p].kind = "final"
              /\ results[p].kind \in {"final", "error"}
            <4>1. results[p] \in Result
                BY <1>1, <1>4, ElementOfSeq
            <4>2. results[p].kind \in {"partial", "final", "error"}
                BY <4>1 DEF Result
            <4> QED
                BY <4>2, <2>4, <1>11 DEF Reading
        <3>8. /\ pc'[r] \in {"new", "registered"} => received'[r] = 0
              /\ pc'[r] \in Reading => received'[r] = Cardinality(Over(r)')
              /\ received'[r] <= Cardinality(Over(r)')
              /\ received'[r] <= Cardinality(IdsOf[r])
            BY <3>5, <3>6, <3>7, <1>11, <1>12
        <3>9. ASSUME NEW x \in Readers, x # r
              PROVE  /\ pc'[x] \in {"new", "registered"} => received'[x] = 0
                     /\ pc'[x] \in Reading => received'[x] = Cardinality(Over(x)')
                     /\ pc'[x] \in Holding => received'[x] <= Cardinality(Over(x)')
                     /\ received'[x] <= Cardinality(IdsOf[x])
            BY <2>2, <3>9, <1>11, <1>12 DEF Inv, Counted
        <3> QED
            BY <3>8, <3>9 DEF Counted
    <2> QED
        BY <2>3, <2>4
<1> QED
    BY <1>13, <1>14, <1>15, <1>16, <1>17 DEF Inv

-----------------------------------------------------------------------------
LEMMA InvStep == Inv /\ [Next]_vars => Inv'
<1> SUFFICES ASSUME Inv, [Next]_vars PROVE Inv'
    OBVIOUS
<1>1. ASSUME NEW id \in Ids, LoopStep(id) PROVE Inv'
    <2>1. CASE SendPartial(id)
        BY <2>1, SendStep DEF SendPartial
    <2>2. CASE SendLast(id)
        <3>1. PICK kind \in {"final", "error"} : Send(id, kind)
            BY <2>2 DEF SendLast
        <3>2. kind \in {"partial", "final", "error"} /\ kind # "partial"
            OBVIOUS
        <3> QED
            BY <2>2, <3>1, <3>2, SendStep DEF SendLast
    <2> QED
        BY <1>1, <2>1, <2>2, ProcessCancelStep DEF LoopStep
<1>2. ASSUME NEW r \in Readers, ReaderStep(r) \/ Timeout(r) \/ Leave(r) PROVE Inv'
    BY <1>2, RegisterStep, PostTasksStep, ReceiveStep, MoveStep, StopWaitingStep,
       EraseResultsStep, PostCancelStep DEF ReaderStep
<1>3. CASE UNCHANGED vars
    <2> USE <1>3 DEF vars
    <2>1. Shapes' /\ Lasts'
        BY DEF Inv, Shapes, Lasts, LastIsLast, LastComes
    <2>2. Places'
        BY DEF Inv, Places, Listed, Unstopped, Held
    <2>3. Ordered'
        BY DEF Inv, Ordered, InOrder
    <2>4. \A r \in Readers : Over(r)' = Over(r)
        BY DEF Over
    <2>5. Counted'
        BY <2>4 DEF Inv, Counted
    <2> QED
        BY <2>1, <2>2, <2>3, <2>5 DEF Inv
<1> QED
    BY <1>1, <1>2, <1>3 DEF Next

(* Every variable stays within its type: the readers' progress, the ids     *)
(* they wait for, the results queued and the ids of posted CANCELs.         *)
THEOREM TypeCorrect == Spec => []TypeOK
<1>1. Inv => TypeOK
    <2> SUFFICES ASSUME Inv PROVE TypeOK
        OBVIOUS
    <2>1. \A r \in Readers : received[r] \in 0..Cardinality(IdsOf[r])
        <3> SUFFICES ASSUME NEW r \in Readers PROVE received[r] \in 0..Cardinality(IdsOf[r])
            OBVIOUS
        <3>1. received[r] \in Nat /\ Cardinality(IdsOf[r]) \in Nat
            BY ReaderAssumption, FS_CardinalityType DEF Inv, Shapes
        <3>2. received[r] <= Cardinality(IdsOf[r])
            BY DEF Inv, Counted
        <3> QED
            BY <3>1, <3>2
    <2> QED
        BY <2>1 DEF Inv, Shapes, TypeOK
<1> QED
    BY <1>1, InitInv, InvStep, PTL DEF Spec

(* stop() and the destructor of server_response_reader leave no id waited   *)
(* for and no result of the request queued, and none is queued later, even  *)
(* if a task works on because its CANCEL missed it.                         *)
THEOREM StopLeavesNothing == Spec => []NothingLeaked
<1>1. Inv => NothingLeaked
    <2> SUFFICES ASSUME Inv, NEW r \in Readers, pc[r] = "closed"
                 PROVE  waiting \cap IdsOf[r] = {} /\ \A id \in IdsOf[r] : Pending(id) = {}
        BY DEF NothingLeaked
    <2>1. waiting \cap IdsOf[r] = {}
        BY DEF Inv, Places, Listed, Open, Reading
    <2>2. \A id \in IdsOf[r] : Pending(id) = {}
        <3>1. \A i \in 1..Len(results) : results[i].id \notin IdsOf[r]
            BY DEF Inv, Places, Held, Holding, Reading
        <3>2. DOMAIN results = 1..Len(results)
            BY DEF Inv, Shapes
        <3> QED
            BY <3>1, <3>2 DEF Pending
    <2> QED
        BY <2>1, <2>2
<1> QED
    BY <1>1, InitInv, InvStep, PTL DEF Spec

(* The results of an id in order are as many as their numbers say.          *)
LEMMA InOrderCounts ==
    ASSUME Inv, NEW id \in Ids, InOrder(id)
    PROVE  /\ sent[id] = got[id] + Cardinality(Pending(id))
           /\ \A i \in Pending(id) :
                results[i].n = got[id] + Cardinality({j \in Pending(id) : j <= i})
<1>1. got[id] \in Nat /\ sent[id] \in Nat /\ got[id] <= sent[id]
    BY DEF Inv, Shapes, InOrder
<1>2. /\ \A i : i \in Pending(id) <=> i \in 1..Len(results) /\ results[i].id = id
      /\ Pending(id) \subseteq 1..Len(results) /\ Len(results) \in Nat
    BY LenProperties DEF Inv, Shapes, Pending
<1> HIDE DEF Pending
<1>3. /\ \A i \in Pending(id) : results[i].n \in (got[id] + 1)..sent[id]
      /\ \A i, j \in Pending(id) : i < j => results[i].n < results[j].n
      /\ \A n \in (got[id] + 1)..sent[id] : \E i \in Pending(id) : results[i].n = n
    BY <1>2 DEF InOrder
<1>4. \A i, j \in Pending(id) : results[i].n = results[j].n => i = j
    <2> SUFFICES ASSUME NEW i \in Pending(id), NEW j \in Pending(id), i # j
                 PROVE  results[i].n # results[j].n
        OBVIOUS
    <2>1. i \in Int /\ j \in Int /\ results[i].n \in Int /\ results[j].n \in Int
        BY <1>1, <1>2, <1>3
    <2>2. i < j \/ j < i
        BY <2>1
    <2> QED
        BY <2>1, <2>2, <1>3
<1>5. sent[id] = got[id] + Cardinality(Pending(id))
    <2> DEFINE f == [i \in Pending(id) |-> results[i].n]
    <2>1. f \in [Pending(id) -> (got[id] + 1)..sent[id]]
        BY <1>3
    <2>2. /\ \A x, y \in Pending(id) : f[x] = f[y] => x = y
          /\ \A n \in (got[id] + 1)..sent[id] : \E x \in Pending(id) : f[x] = n
        BY <1>3, <1>4
    <2> HIDE DEF f
    <2>3. Cardinality(Pending(id)) = sent[id] - got[id]
        BY <1>1, <2>1, <2>2, NumberedSet
    <2> QED
        BY <1>1, <2>3
<1>6. ASSUME NEW i \in Pending(id)
      PROVE  results[i].n = got[id] + Cardinality({j \in Pending(id) : j <= i})
    <2> DEFINE b == results[i].n
               P == {j \in Pending(id) : j <= i}
               f == [j \in P |-> results[j].n]
    <2>1. b \in Nat /\ got[id] <= b /\ i \in Int
        BY <1>1, <1>2, <1>3
    <2>2. ASSUME NEW j \in P PROVE results[j].n \in (got[id] + 1)..b
        <3>1. j \in Pending(id) /\ j <= i /\ j \in Int
            BY <1>2
        <3>2. j < i \/ j = i
            BY <3>1, <2>1
        <3>3. results[j].n < results[i].n \/ results[j].n = results[i].n
            BY <3>1, <3>2, <1>3
        <3>4. results[j].n \in (got[id] + 1)..sent[id]
            BY <3>1, <1>3
        <3> QED
            BY <3>3, <3>4, <2>1, <1>1
    <2>3. ASSUME NEW n \in (got[id] + 1)..b PROVE \E j \in P : results[j].n = n
        <3>1. n \in (got[id] + 1)..sent[id]
            BY <1>1, <1>3, <2>1
        <3>2. PICK j \in Pending(id) : results[j].n = n
            BY <3>1, <1>3
        <3>3. ~(i < j) /\ j \in Int
            BY <3>2, <1>2, <1>3, <2>1
        <3>4. j <= i
            BY <3>3, <2>1
        <3> QED
            BY <3>2, <3>4
    <2>4. f \in [P -> (got[id] + 1)..b]
        BY <2>2
    <2>5. /\ \A x, y \in P : f[x] = f[y] => x = y
          /\ \A n \in (got[id] + 1)..b : \E x \in P : f[x] = n
        BY <1>4, <2>3
    <2> HIDE DEF P, f, b
    <2>6. Cardinality(P) = b - got[id]
        BY <1>1, <2>1, <2>4, <2>5, NumberedSet
    <2>7. b = got[id] + Cardinality(P)
        BY <1>1, <2>1, <2>6
    <2> QED
        BY <2>7 DEF P, b
<1> QED
    BY <1>5, <1>6

(* Between send() and recv() no result of an open reader is lost, doubled   *)
(* or overtaken: what is queued for an id are the results between the last  *)
(* one received and the last one sent, in the order they were sent.         *)
THEOREM ResultsInOrder == Spec => []NothingLost
<1>1. Inv => NothingLost
    BY InOrderCounts, OneOwner DEF Inv, Ordered, NothingLost
<1> QED
    BY <1>1, InitInv, InvStep, PTL DEF Spec
==============================================================================
