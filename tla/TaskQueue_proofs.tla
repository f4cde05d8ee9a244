--------------------------- MODULE TaskQueue_proofs ---------------------------
(***************************************************************************)
(* Proofs about TaskQueue for any number of clients, slots and tasks: the  *)
(* types; that the model is unloaded only when no slot works; that a task  *)
(* is in one place until it is answered or cancelled; and that, when woken *)
(* handlers run before the next idle period, nobody but the loop waits for *)
(* the notification that ends a sleep.                                     *)
(***************************************************************************)
EXTENDS TaskQueue, TLAPS, FiniteSetTheorems, SequenceTheorems,
        WellFoundedInduction, Queues

-----------------------------------------------------------------------------
(* What the helpers return, and the order of numbers.                       *)

(* A nonempty set of naturals has a least element: what stands for           *)
(* induction where the induction theorems cannot be instantiated.           *)
LEMMA LeastElement ==
    ASSUME NEW S, S \subseteq Nat, S # {}
    PROVE  \E x \in S : \A y \in S : x =< y
<1>1. \E x \in S : \A y \in S : ~(<<y, x>> \in OpToRel(<, Nat))
    BY NatLessThanWellFounded, WFMin
<1>2. PICK x \in S : \A y \in S : ~(<<y, x>> \in OpToRel(<, Nat))
    BY <1>1
<1>3. \A y \in S : x =< y
    <2> SUFFICES ASSUME NEW y \in S, y < x PROVE FALSE
        OBVIOUS
    <2>1. <<y, x>> \in OpToRel(<, Nat)
        BY DEF OpToRel
    <2> QED
        BY <2>1, <1>2
<1> QED
    BY <1>3

(* Min returns it.                                                          *)
LEMMA MinIsElement ==
    ASSUME NEW S, S \subseteq Nat, S # {}
    PROVE  Min(S) \in S /\ \A y \in S : Min(S) =< y
    BY LeastElement DEF Min

(* What RemoveAt returns, position by position.                             *)
LEMMA RemoveAtElements ==
    ASSUME NEW S, NEW q \in Seq(S), NEW i \in 1..Len(q)
    PROVE  /\ RemoveAt(q, i) \in Seq(S) /\ Len(RemoveAt(q, i)) = Len(q) - 1
           /\ \A k \in 1..(Len(q) - 1) :
                 RemoveAt(q, i)[k] = IF k < i THEN q[k] ELSE q[k + 1]
<1> DEFINE a == SubSeq(q, 1, i - 1)
           b == SubSeq(q, i + 1, Len(q))
<1>1. /\ a \in Seq(S) /\ Len(a) = i - 1
      /\ \A j \in 1..(i - 1) : a[j] = q[j]
    BY SubSeqProperties, ElementOfSeq
<1>2. /\ b \in Seq(S) /\ Len(b) = Len(q) - i
      /\ \A j \in 1..(Len(q) - i) : b[j] = q[i + j]
    BY SubSeqProperties, ElementOfSeq
<1> HIDE DEF a, b
<1>3. /\ a \o b \in Seq(S) /\ Len(a \o b) = Len(a) + Len(b)
      /\ \A j \in 1..(Len(a) + Len(b)) :
            (a \o b)[j] = IF j <= Len(a) THEN a[j] ELSE b[j - Len(a)]
    BY <1>1, <1>2, ConcatProperties
<1>4. Len(a) = i - 1 /\ Len(a) + Len(b) = Len(q) - 1
    BY <1>1, <1>2, LenProperties
<1>5. ASSUME NEW k \in 1..(Len(q) - 1)
      PROVE  (a \o b)[k] = IF k < i THEN q[k] ELSE q[k + 1]
    <2>1. CASE k < i
        BY <2>1, <1>1, <1>3, <1>4
    <2>2. CASE k >= i
        <3> DEFINE n == k - (i - 1)
        <3>1. n \in 1..(Len(q) - i) /\ i + n = k + 1 /\ ~(k <= i - 1) /\ ~(k < i)
            BY <2>2
        <3>2. (a \o b)[k] = b[n]
            BY <3>1, <1>3, <1>4
        <3>3. b[n] = q[i + n]
            <4> HIDE DEF n
            <4> QED
                BY <3>1, <1>2
        <3> QED
            BY <3>1, <3>2, <3>3
    <2>3. k < i \/ k >= i
        OBVIOUS
    <2> QED
        BY <2>1, <2>2, <2>3
<1> QED
    BY <1>3, <1>4, <1>5 DEF RemoveAt, a, b

(* Taking one position out of a sequence leaves a sequence over the same    *)
(* set, in which every other position is still found.                       *)
LEMMA RemoveAtProperties ==
    ASSUME NEW S, NEW q \in Seq(S), NEW i \in 1..Len(q)
    PROVE  /\ RemoveAt(q, i) \in Seq(S)
           /\ \A j \in 1..Len(q) : j # i =>
                \E k \in 1..Len(RemoveAt(q, i)) : RemoveAt(q, i)[k] = q[j]
<1>1. ASSUME NEW j \in 1..Len(q), j # i
      PROVE  \E k \in 1..(Len(q) - 1) : RemoveAt(q, i)[k] = q[j]
    <2>1. CASE j < i
        <3>1. j \in 1..(Len(q) - 1)
            BY <2>1
        <3> QED
            BY <2>1, <3>1, RemoveAtElements
    <2>2. CASE j > i
        <3>1. j - 1 \in 1..(Len(q) - 1) /\ ~(j - 1 < i) /\ (j - 1) + 1 = j
            BY <2>2
        <3> QED
            BY <3>1, RemoveAtElements
    <2> QED
        BY <2>1, <2>2, <1>1
<1> QED
    BY <1>1, RemoveAtElements

(* RemoveFirst keeps the type of a sequence and every other element.        *)
LEMMA RemoveFirstProperties ==
    ASSUME NEW S, NEW q \in Seq(S), NEW e
    PROVE  /\ RemoveFirst(q, e) \in Seq(S)
           /\ \A j \in 1..Len(q) : q[j] # e =>
                \E k \in 1..Len(RemoveFirst(q, e)) : RemoveFirst(q, e)[k] = q[j]
<1> DEFINE I == {i \in 1..Len(q) : q[i] = e}
           r == RemoveFirst(q, e)
<1>1. CASE I = {}
    <2>1. r = q
        BY <1>1 DEF RemoveFirst
    <2> QED
        BY <2>1
<1>2. CASE I # {}
    <2>1. Min(I) \in I
        <3>1. I \subseteq Nat
            OBVIOUS
        <3> HIDE DEF I
        <3> QED
            BY <3>1, <1>2, MinIsElement
    <2>2. r = RemoveAt(q, Min(I))
        BY <1>2 DEF RemoveFirst, SelectInSeq
    <2> HIDE DEF r
    <2>3. Min(I) \in 1..Len(q) /\ q[Min(I)] = e
        BY <2>1
    <2>4. /\ r \in Seq(S)
          /\ \A j \in 1..Len(q) : j # Min(I) => \E k \in 1..Len(r) : r[k] = q[j]
        BY <2>2, <2>3, RemoveAtProperties
    <2> QED
        BY <2>3, <2>4 DEF r
<1> QED
    BY <1>1, <1>2

(* KeepAt keeps the positions of K and their order: m lists them.           *)
Lists(m, p, q, K) ==
    /\ m \in [1..Len(p) -> K]
    /\ \A i, j \in 1..Len(p) : i < j => m[i] < m[j]
    /\ \A i \in 1..Len(p) : p[i] = q[m[i]]
    /\ \A k \in K : \E i \in 1..Len(p) : m[i] = k

(* So does RemoveAt, of all positions but one.                              *)
LEMMA RemoveAtLists ==
    ASSUME NEW S, NEW q \in Seq(S), NEW i \in 1..Len(q)
    PROVE  RemoveAt(q, i) \in Seq(S) /\ \E m : Lists(m, RemoveAt(q, i), q, (1..Len(q)) \ {i})
<1> DEFINE p == RemoveAt(q, i)
           m == [k \in 1..Len(p) |-> IF k < i THEN k ELSE k + 1]
<1>1. /\ p \in Seq(S) /\ Len(p) = Len(q) - 1 /\ Len(q) \in Nat
      /\ \A k \in 1..(Len(q) - 1) : p[k] = IF k < i THEN q[k] ELSE q[k + 1]
    BY RemoveAtElements, LenProperties
<1> HIDE DEF p
<1>2. m \in [1..Len(p) -> (1..Len(q)) \ {i}]
    BY <1>1
<1>3. \A k, l \in 1..Len(p) : k < l => m[k] < m[l]
    BY <1>1
<1>4. \A k \in 1..Len(p) : p[k] = q[m[k]]
    BY <1>1
<1>5. ASSUME NEW k \in (1..Len(q)) \ {i} PROVE \E l \in 1..Len(p) : m[l] = k
    <2>1. CASE k < i
        <3>1. k \in 1..Len(p) /\ m[k] = k
            BY <2>1, <1>1
        <3> QED
            BY <3>1
    <2>2. CASE k > i
        <3>1. k - 1 \in 1..Len(p) /\ ~(k - 1 < i) /\ (k - 1) + 1 = k
            BY <2>2, <1>1
        <3>2. m[k - 1] = k
            BY <3>1
        <3> QED
            BY <3>1, <3>2
    <2> QED
        BY <2>1, <2>2
<1>6. Lists(m, p, q, (1..Len(q)) \ {i})
    BY <1>2, <1>3, <1>4, <1>5 DEF Lists
<1> QED
    BY <1>1, <1>6 DEF p

(* No element of X is in the queue more than once.                          *)
Once(q, X) == \A i, j \in 1..Len(q) : q[i] \in X /\ q[i] = q[j] => i = j

(* What the operations on a queue do to the set of its elements, and when   *)
(* they keep those of X single.                                             *)
LEMMA AppendOnce ==
    ASSUME NEW S, NEW X, NEW q \in Seq(S), NEW e \in S
    PROVE  /\ Range(Append(q, e)) = Range(q) \cup {e}
           /\ Once(q, X) /\ (e \in X => e \notin Range(q)) => Once(Append(q, e), X)
<1> DEFINE a == Append(q, e)
           L == Len(q)
<1>1. /\ L \in Nat /\ DOMAIN q = 1..L /\ a \in Seq(S) /\ Len(a) = L + 1 /\ DOMAIN a = 1..(L + 1)
      /\ a[L + 1] = e /\ \A i \in 1..L : a[i] = q[i]
    BY AppendProperties, LenProperties
<1> HIDE DEF a, L
<1>2. \A i \in 1..(L + 1) : i \in 1..L \/ i = L + 1
    BY <1>1
<1>3. 1..L \subseteq 1..(L + 1) /\ L + 1 \in 1..(L + 1)
    BY <1>1
<1>4. Range(a) = Range(q) \cup {e}
    BY <1>1, <1>2, <1>3 DEF Range
<1>5. ASSUME Once(q, X), e \in X => e \notin Range(q) PROVE Once(a, X)
    <2> SUFFICES ASSUME NEW i \in 1..(L + 1), NEW j \in 1..(L + 1), a[i] \in X, a[i] = a[j]
                 PROVE  i = j
        BY <1>1 DEF Once
    <2>1. CASE i \in 1..L /\ j \in 1..L
        BY <1>1, <1>5, <2>1 DEF Once, L
    <2>2. CASE i = L + 1 /\ j \in 1..L
        BY <1>1, <1>5, <2>2 DEF Range
    <2>3. CASE i \in 1..L /\ j = L + 1
        BY <1>1, <1>5, <2>3 DEF Range
    <2> QED
        BY <1>2, <2>1, <2>2, <2>3
<1> QED
    BY <1>4, <1>5 DEF a

LEMMA TailOnce ==
    ASSUME NEW S, NEW X, NEW q \in Seq(S), q # <<>>
    PROVE  /\ Head(q) \in S /\ Tail(q) \in Seq(S) /\ Range(q) = {Head(q)} \cup Range(Tail(q))
           /\ Once(q, X) => Once(Tail(q), X) /\ (Head(q) \in X => Head(q) \notin Range(Tail(q)))
<1> DEFINE t == Tail(q)
           L == Len(q)
<1>1. /\ L \in Nat \ {0} /\ DOMAIN q = 1..L /\ Head(q) \in S /\ t \in Seq(S) /\ Len(t) = L - 1
      /\ \A i \in 1..Len(t) : t[i] = q[i + 1]
    BY HeadTailProperties, LenProperties, EmptySeq
<1>2. DOMAIN t = 1..Len(t) /\ Head(q) = q[1]
    BY <1>1, LenProperties
<1> HIDE DEF t, L
<1>3. /\ \A i \in 1..(L - 1) : i + 1 \in 1..L /\ i + 1 # 1
      /\ \A i \in 1..L : i = 1 \/ (i - 1 \in 1..(L - 1) /\ (i - 1) + 1 = i)
      /\ 1 \in 1..L
    BY <1>1
<1>4. Range(q) = {Head(q)} \cup Range(t)
    <2>1. ASSUME NEW i \in 1..L PROVE q[i] \in {Head(q)} \cup Range(t)
        <3>1. CASE i = 1
            BY <3>1, <1>2
        <3>2. CASE i - 1 \in 1..(L - 1) /\ (i - 1) + 1 = i
            <4>1. q[i] = t[i - 1]
                BY <1>1, <3>2
            <4> QED
                BY <1>1, <1>2, <3>2, <4>1 DEF Range
        <3> QED
            BY <1>3, <3>1, <3>2
    <2>2. ASSUME NEW i \in 1..(L - 1) PROVE t[i] \in Range(q)
        BY <1>1, <1>3 DEF Range
    <2>3. Head(q) \in Range(q)
        BY <1>1, <1>2, <1>3 DEF Range
    <2>4. /\ \A x \in Range(q) : x \in {Head(q)} \cup Range(t)
          /\ \A x \in Range(t) : x \in Range(q)
        BY <1>1, <1>2, <2>1, <2>2 DEF Range
    <2> QED
        BY <2>3, <2>4
<1>5. ASSUME Once(q, X) PROVE Once(t, X) /\ (Head(q) \in X => Head(q) \notin Range(t))
    <2>1. \A i, j \in 1..L : q[i] \in X /\ q[i] = q[j] => i = j
        BY <1>5 DEF Once, L
    <2>2. ASSUME NEW i \in 1..(L - 1), NEW j \in 1..(L - 1), t[i] \in X, t[i] = t[j] PROVE i = j
        <3>1. q[i + 1] \in X /\ q[i + 1] = q[j + 1] /\ i + 1 \in 1..L /\ j + 1 \in 1..L
            BY <1>1, <1>3, <2>2
        <3>2. i + 1 = j + 1
            BY <2>1, <3>1
        <3> QED
            BY <3>2
    <2>3. ASSUME Head(q) \in X, NEW i \in 1..(L - 1), t[i] = Head(q) PROVE FALSE
        BY <1>1, <1>2, <1>3, <2>1, <2>3
    <2> QED
        BY <1>1, <1>2, <2>2, <2>3 DEF Once, Range
<1> QED
    BY <1>1, <1>4, <1>5 DEF t

LEMMA ConsOnce ==
    ASSUME NEW S, NEW X, NEW q \in Seq(S), NEW e \in S
    PROVE  /\ <<e>> \o q \in Seq(S) /\ Range(<<e>> \o q) = Range(q) \cup {e}
           /\ Once(q, X) /\ (e \in X => e \notin Range(q)) => Once(<<e>> \o q, X)
<1> DEFINE a == <<e>> \o q
           L == Len(q)
<1>1. <<e>> \in Seq(S) /\ Len(<<e>>) = 1 /\ <<e>>[1] = e /\ L \in Nat /\ DOMAIN q = 1..L
    BY LenProperties
<1>2. /\ a \in Seq(S) /\ Len(a) = 1 + L /\ DOMAIN a = 1..(1 + L)
      /\ \A i \in 1..(1 + L) : a[i] = IF i <= 1 THEN <<e>>[i] ELSE q[i - 1]
    BY <1>1, ConcatProperties, LenProperties
<1> HIDE DEF a, L
<1>3. a[1] = e /\ \A i \in 1..(1 + L) : i # 1 => a[i] = q[i - 1] /\ i - 1 \in 1..L
    BY <1>1, <1>2
<1>4. \A i \in 1..L : i + 1 \in 1..(1 + L) /\ i + 1 # 1 /\ a[i + 1] = q[i]
    BY <1>1, <1>2
<1>5. Range(a) = Range(q) \cup {e}
    <2>1. 1 \in 1..(1 + L)
        BY <1>1
    <2>2. \A x \in Range(a) : x \in Range(q) \cup {e}
        BY <1>1, <1>2, <1>3 DEF Range
    <2>3. ASSUME NEW i \in 1..L PROVE q[i] \in Range(a)
        BY <1>2, <1>4 DEF Range
    <2>4. e \in Range(a)
        BY <1>2, <1>3, <2>1 DEF Range
    <2>5. \A x \in Range(q) : x \in Range(a)
        BY <1>1, <2>3 DEF Range
    <2> QED
        BY <2>2, <2>4, <2>5
<1>6. ASSUME Once(q, X), e \in X => e \notin Range(q) PROVE Once(a, X)
    <2> SUFFICES ASSUME NEW i \in 1..(1 + L), NEW j \in 1..(1 + L), a[i] \in X, a[i] = a[j]
                 PROVE  i = j
        BY <1>2 DEF Once
    <2>1. CASE i # 1 /\ j # 1
        <3>1. q[i - 1] \in X /\ q[i - 1] = q[j - 1] /\ i - 1 \in 1..L /\ j - 1 \in 1..L
            BY <1>3, <2>1
        <3>2. i - 1 = j - 1
            BY <1>6, <3>1 DEF Once, L
        <3> QED
            BY <3>2
    <2>2. CASE i = 1 /\ j # 1
        BY <1>1, <1>3, <1>6, <2>2 DEF Range
    <2>3. CASE i # 1 /\ j = 1
        BY <1>1, <1>3, <1>6, <2>3 DEF Range
    <2> QED
        BY <2>1, <2>2, <2>3
<1> QED
    BY <1>2, <1>5, <1>6 DEF a

LEMMA RemoveFirstOnce ==
    ASSUME NEW S, NEW X, NEW q \in Seq(S), Once(q, X), NEW e \in X
    PROVE  /\ RemoveFirst(q, e) \in Seq(S) /\ Once(RemoveFirst(q, e), X)
           /\ Range(RemoveFirst(q, e)) = Range(q) \ {e}
<1> DEFINE r == RemoveFirst(q, e)
           L == Len(q)
<1>1. DOMAIN q = 1..L /\ L \in Nat
    BY LenProperties
<1>2. CASE \A i \in 1..L : q[i] # e
    <2>1. r = q
        BY <1>2 DEF RemoveFirst
    <2>2. e \notin Range(q)
        BY <1>1, <1>2 DEF Range
    <2> QED
        BY <2>1, <2>2
<1>3. CASE \E i \in 1..L : q[i] = e
    <2>1. PICK i \in 1..L : q[i] = e
        BY <1>3
    <2>2. {j \in 1..L : q[j] = e} = {i}
        BY <2>1 DEF Once
    <2>3. r = RemoveAt(q, i)
        <3>1. {i} \subseteq Nat /\ {i} # {}
            OBVIOUS
        <3>2. Min({i}) = i
            BY <3>1, MinIsElement
        <3> QED
            BY <2>1, <2>2, <3>2 DEF RemoveFirst, SelectInSeq
    <2>4. r \in Seq(S)
        BY <2>1, <2>3, RemoveAtLists
    <2>5. PICK m : Lists(m, r, q, (1..L) \ {i})
        BY <2>1, <2>3, RemoveAtLists
    <2>6. DOMAIN r = 1..Len(r) /\ Len(r) \in Nat
        BY <2>4, LenProperties
    <2> HIDE DEF r, L
    <2>7. /\ \A k \in 1..Len(r) : m[k] \in 1..L /\ m[k] # i /\ r[k] = q[m[k]]
          /\ \A j \in 1..L : j # i => \E k \in 1..Len(r) : m[k] = j
          /\ \A k, l \in 1..Len(r) : k < l => m[k] < m[l]
        BY <2>5 DEF Lists
    <2>8. \A k \in 1..L : q[k] = e <=> k = i
        BY <2>2
    <2>9. Range(r) = Range(q) \ {e}
        <3>1. \A x \in Range(r) : x \in Range(q) /\ x # e
            BY <1>1, <2>6, <2>7, <2>8 DEF Range
        <3>2. ASSUME NEW x \in Range(q), x # e PROVE x \in Range(r)
            <4>1. PICK j \in 1..L : q[j] = x
                BY <1>1 DEF Range
            <4>2. j # i
                BY <4>1, <3>2, <2>1
            <4>3. PICK k \in 1..Len(r) : m[k] = j
                BY <4>1, <4>2, <2>7
            <4>4. r[k] = x
                BY <4>1, <4>3, <2>7
            <4> QED
                BY <4>3, <4>4, <2>6 DEF Range
        <3>3. e \notin Range(r)
            BY <3>1
        <3> QED
            BY <3>1, <3>2
    <2>10. Once(r, X)
        <3> SUFFICES ASSUME NEW k \in 1..Len(r), NEW l \in 1..Len(r), r[k] \in X, r[k] = r[l]
                     PROVE  k = l
            BY DEF Once
        <3>1. m[k] = m[l] /\ m[k] \in Int
            BY <1>1, <2>7 DEF Once, L
        <3>2. ~(k < l) /\ ~(l < k)
            BY <2>7, <3>1
        <3> QED
            BY <3>2
    <2> QED
        BY <2>4, <2>9, <2>10 DEF r
<1> QED
    BY <1>2, <1>3

-----------------------------------------------------------------------------

HasNext(q) == \E i \in 1..Len(q) : q[i] = NextResponse

(* A thread inside server_response_reader waits for an id.                  *)
RecvHasId == \A c \in Clients : clientPc[c] = "recv" => clientId[c] \in Ids

(* The model is unloaded only around the wait of the sleeping branch, and   *)
(* after it when terminate() ended that wait.                               *)
UnloadedAsleep ==
    ~loaded => /\ busy = {}
               /\ mainPc = "asleep" \/ (~running /\ mainPc \in {"pop", "returned"})

(* From update_slots to the wait for work, working slots have their         *)
(* NEXT_RESPONSE in the queue.                                              *)
WorkAhead ==
    mainPc \in {"decode", "stamp", "check", "waittask"} /\ busy # {} => HasNext(queueTasks)

TypeInv == TypeOK /\ RecvHasId
SleepInv == UnloadedAsleep /\ WorkAhead

-----------------------------------------------------------------------------
(* The tasks the queue handles, by type.                                    *)
LEMMA TaskTypes ==
    /\ \A id \in Ids : Work(id) \in Task /\ Cancel(id) \in Task /\ Work(id) # NextResponse
    /\ NextResponse \in Task
    /\ \A task \in Task : task.type \in {"work", "cancel"} => task.id \in Ids
<1>1. \A id \in Ids : Work(id) \in Task /\ Cancel(id) \in Task
    BY DEF Task
<1>2. NextResponse \in Task
    BY DEF Task
<1>3. \A id \in Ids : Work(id) # NextResponse
    BY DEF Work, NextResponse
<1>4. ASSUME NEW task \in Task, task.type \in {"work", "cancel"} PROVE task.id \in Ids
    <2>1. CASE \E id \in Ids : task = Work(id)
        BY <2>1 DEF Work
    <2>2. CASE \E id \in Ids : task = Cancel(id)
        BY <2>2 DEF Cancel
    <2>3. task # NextResponse
        BY <1>4 DEF NextResponse
    <2> QED
        BY <2>1, <2>2, <2>3 DEF Task
<1> QED
    BY <1>1, <1>2, <1>3, <1>4

(* Posting, deferring and cleaning up keep the type of a queue.             *)
LEMMA QueueTypes ==
    ASSUME NEW q \in Seq(Task), NEW task \in Task
    PROVE  /\ Append(q, task) \in Seq(Task) /\ <<task>> \o q \in Seq(Task)
           /\ \A id \in Ids : Without(q, id) \in Seq(Task)
           /\ q # <<>> => Head(q) \in Task /\ Tail(q) \in Seq(Task)
<1>1. <<task>> \in Seq(Task)
    OBVIOUS
<1>2. <<task>> \o q \in Seq(Task)
    BY <1>1, ConcatProperties
<1>3. \A id \in Ids : Without(q, id) \in Seq(Task)
    BY RemoveFirstProperties DEF Without
<1> QED
    BY <1>2, <1>3, HeadTailProperties

(* None of them removes the NEXT_RESPONSE of working slots.                 *)
LEMMA NextKept ==
    ASSUME NEW q \in Seq(Task), HasNext(q), NEW task \in Task
    PROVE  /\ HasNext(Append(q, task)) /\ HasNext(<<task>> \o q)
           /\ \A id \in Ids : HasNext(Without(q, id))
<1>1. PICK i \in 1..Len(q) : q[i] = NextResponse
    BY DEF HasNext
<1>2. HasNext(Append(q, task))
    <2>1. Len(q) \in Nat /\ Len(Append(q, task)) = Len(q) + 1 /\ Append(q, task)[i] = q[i]
        BY <1>1, LenProperties
    <2> QED
        BY <1>1, <2>1 DEF HasNext
<1>3. HasNext(<<task>> \o q)
    <2>1. <<task>> \in Seq(Task) /\ Len(<<task>>) = 1 /\ Len(q) \in Nat
        BY LenProperties
    <2>2. /\ Len(<<task>> \o q) = 1 + Len(q)
          /\ \A j \in 1..(1 + Len(q)) : j > 1 => (<<task>> \o q)[j] = q[j - 1]
        BY <2>1, ConcatProperties
    <2>3. i + 1 \in 1..(1 + Len(q)) /\ i + 1 > 1 /\ (i + 1) - 1 = i
        BY <2>1
    <2>4. (<<task>> \o q)[i + 1] = NextResponse
        BY <1>1, <2>2, <2>3
    <2> QED
        BY <2>2, <2>3, <2>4 DEF HasNext
<1>4. ASSUME NEW id \in Ids PROVE HasNext(Without(q, id))
    <2>1. q[i] # Work(id)
        BY <1>1, TaskTypes
    <2> QED
        BY <1>1, <2>1, RemoveFirstProperties DEF Without, HasNext
<1> QED
    BY <1>2, <1>3, <1>4

(* PostNext does what its name says.                                        *)
LEMMA NextPosted ==
    ASSUME NEW q \in Seq(Task) PROVE HasNext(Append(q, NextResponse))
<1>1. /\ Len(q) + 1 \in 1..Len(Append(q, NextResponse))
      /\ Append(q, NextResponse)[Len(q) + 1] = NextResponse
    BY LenProperties
<1> QED
    BY <1>1 DEF HasNext

(* A released slot's pop_deferred_task keeps both.                          *)
LEMMA PopDeferredKeeps ==
    ASSUME queueTasks \in Seq(Task), queueDeferred \in Seq(Task), PopDeferred
    PROVE  /\ queueTasks' \in Seq(Task) /\ queueDeferred' \in Seq(Task)
           /\ HasNext(queueTasks) => HasNext(queueTasks')
<1>1. CASE queueDeferred = <<>>
    BY <1>1 DEF PopDeferred, HasNext
<1>2. CASE queueDeferred # <<>>
    <2>1. Head(queueDeferred) \in Task /\ Tail(queueDeferred) \in Seq(Task)
        BY <1>2, HeadTailProperties
    <2> QED
        BY <1>2, <2>1, QueueTypes, NextKept DEF PopDeferred
<1> QED
    BY <1>1, <1>2

-----------------------------------------------------------------------------
(* Every step keeps the types.                                              *)
LEMMA TypeStep == TypeInv /\ [Next]_vars => TypeInv'
<1> SUFFICES ASSUME TypeInv, [Next]_vars PROVE TypeInv'
    OBVIOUS
<1> USE TaskQueueAssumption
<1>t. /\ queueTasks \in Seq(Task) /\ queueDeferred \in Seq(Task)
      /\ current \subseteq Task /\ Cardinality(current) <= 1
    BY DEF TypeInv, TypeOK
<1>w. waiting \subseteq Threads /\ waiting \ {MainThread} \subseteq Threads
      /\ waiting \cup {MainThread} \subseteq Threads
    BY DEF TypeInv, TypeOK, Threads
<1>n. NotifyOne \/ NotifyAll => waiting' \subseteq Threads
    BY <1>w DEF NotifyOne, NotifyAll
<1>0. CASE UNCHANGED vars
    BY <1>0 DEF TypeInv, TypeOK, RecvHasId, vars, queueVars, flagVars, slotVars, clientVars
<1>1. CASE StartLoop
    BY <1>1 DEF StartLoop, Touch, TypeInv, TypeOK, RecvHasId, MainPcs, queueVars, slotVars, clientVars
<1>2. CASE PopTask
    <2>1. CASE queueTasks # <<>> /\ current' = {Head(queueTasks)} /\ queueTasks' = Tail(queueTasks)
        <3>1. Head(queueTasks) \in Task /\ Tail(queueTasks) \in Seq(Task)
            BY <2>1, <1>t, HeadTailProperties
        <3>2. current' \subseteq Task /\ Cardinality(current') <= 1
            <4>1. Cardinality({Head(queueTasks)}) = 1
                BY FS_Singleton
            <4> QED
                BY <4>1, <3>1, <2>1
        <3> QED
            BY <1>2, <2>1, <3>1, <3>2
            DEF PopTask, TypeInv, TypeOK, RecvHasId, MainPcs, flagVars, clientVars
    <2>2. CASE UNCHANGED <<queueTasks, current>>
        BY <1>2, <2>2 DEF PopTask, TypeInv, TypeOK, RecvHasId, MainPcs, flagVars, clientVars
    <2> QED
        BY <1>2, <2>1, <2>2 DEF PopTask
<1>3. CASE CallbackNewTask
    <2>1. PICK task \in current :
            \/ ProcessWork(task) \/ ProcessCancel(task)
            \/ UNCHANGED <<busy, answered, queueTasks, queueDeferred, idle, waiting>>
        BY <1>3 DEF CallbackNewTask
    <2>2. task \in Task
        BY <1>t
    <2>3. current' \subseteq Task /\ Cardinality(current') <= 1
        BY <1>3, FS_EmptySet DEF CallbackNewTask
    <2>4. /\ queueTasks' \in Seq(Task) /\ queueDeferred' \in Seq(Task)
          /\ busy' \subseteq Ids /\ answered' \subseteq Ids
          /\ idle' \in BOOLEAN /\ waiting' \subseteq Threads
        <3>1. CASE ProcessWork(task)
            <4>1. task.id \in Ids
                BY <3>1, <2>2, TaskTypes DEF ProcessWork
            <4>2. Append(queueDeferred, task) \in Seq(Task)
                BY <1>t, <2>2, QueueTypes
            <4> QED
                BY <3>1, <4>1, <4>2, <1>n DEF ProcessWork, Touch, TypeInv, TypeOK
        <3>2. CASE ProcessCancel(task)
            BY <3>2, <1>t, <1>n, PopDeferredKeeps DEF ProcessCancel, Touch, TypeInv, TypeOK
        <3>3. CASE UNCHANGED <<busy, answered, queueTasks, queueDeferred, idle, waiting>>
            BY <3>3 DEF TypeInv, TypeOK
        <3> QED
            BY <2>1, <3>1, <3>2, <3>3
    <2> QED
        BY <1>3, <2>3, <2>4
        DEF CallbackNewTask, TypeInv, TypeOK, RecvHasId, MainPcs, clientVars
<1>4. CASE UpdateSlots
    <2>1. Append(queueTasks, NextResponse) \in Seq(Task)
        BY <1>t, TaskTypes, QueueTypes
    <2> QED
        BY <1>4, <2>1, <1>n
        DEF UpdateSlots, PostNext, Touch, TypeInv, TypeOK, RecvHasId, MainPcs, slotVars, clientVars
<1>5. ASSUME NEW id \in Ids, FinishSlot(id) PROVE TypeInv'
    BY <1>5, <1>t, <1>n, PopDeferredKeeps
    DEF FinishSlot, Touch, TypeInv, TypeOK, RecvHasId, clientVars
<1>6. CASE EndUpdate
    BY <1>6 DEF EndUpdate, TypeInv, TypeOK, RecvHasId, MainPcs, queueVars, flagVars, slotVars, clientVars
<1>7. CASE StampTime
    BY <1>7 DEF StampTime, Touch, TypeInv, TypeOK, RecvHasId, MainPcs, queueVars, slotVars, clientVars
<1>8. CASE CheckWork
    BY <1>8 DEF CheckWork, TypeInv, TypeOK, RecvHasId, MainPcs, queueVars, flagVars, slotVars, clientVars
<1>9. CASE EnterSleep
    BY <1>9, <1>w DEF EnterSleep, TypeInv, TypeOK, RecvHasId, MainPcs, queueVars, slotVars, clientVars
<1>10. CASE WaitForTask
    BY <1>10, <1>w DEF WaitForTask, TypeInv, TypeOK, RecvHasId, MainPcs, queueVars, flagVars, slotVars, clientVars
<1>11. CASE MainWoken
    BY <1>11, <1>w DEF MainWoken, TypeInv, TypeOK, RecvHasId, MainPcs, queueVars, flagVars, slotVars, clientVars
<1>12. CASE SleepWoken
    BY <1>12, <1>w, <1>n
    DEF SleepWoken, Touch, TypeInv, TypeOK, RecvHasId, MainPcs, queueVars, slotVars, clientVars
<1>13. CASE WaitTimeout
    BY <1>13, <1>w DEF WaitTimeout, TypeInv, TypeOK, RecvHasId, MainPcs, queueVars, flagVars, slotVars, clientVars
<1>14. CASE IdleElapse
    BY <1>14 DEF IdleElapse, TypeInv, TypeOK, RecvHasId, queueVars, slotVars, clientVars
<1>15. CASE Terminate
    BY <1>15, <1>n DEF Terminate, TypeInv, TypeOK, RecvHasId, queueVars, slotVars, clientVars
<1>16. ASSUME NEW c \in Clients, CreateResponse(c) PROVE TypeInv'
    <2>1. waiting' \subseteq Threads
        BY <1>16, <1>w DEF CreateResponse, Threads
    <2> QED
    BY <1>16, <2>1
    DEF CreateResponse, Threads, TypeInv, TypeOK, RecvHasId, ClientPcs, queueVars, slotVars
<1>17. ASSUME NEW c \in Clients, ClientWoken(c) PROVE TypeInv'
    BY <1>17, <1>w
    DEF ClientWoken, Threads, TypeInv, TypeOK, RecvHasId, ClientPcs, queueVars, flagVars, slotVars
<1>18. ASSUME NEW c \in Clients, PostTask(c) PROVE TypeInv'
    <2>1. nextId \in Ids
        BY <1>18 DEF PostTask, TypeInv, TypeOK, Ids
    <2>2. Append(queueTasks, Work(nextId)) \in Seq(Task)
        BY <2>1, <1>t, TaskTypes, QueueTypes
    <2>3. nextId' \in 1..(MaxTasks + 1)
        BY <1>18, <2>1 DEF PostTask, TakeId, Ids
    <2>4. /\ clientPc' \in [Clients -> ClientPcs] /\ clientId' \in [Clients -> 0..MaxTasks]
          /\ RecvHasId'
        BY <1>18, <2>1 DEF PostTask, TypeInv, TypeOK, RecvHasId, ClientPcs, Ids
    <2> QED
        BY <1>18, <1>n, <2>2, <2>3, <2>4 DEF PostTask, Touch, TypeInv, TypeOK, slotVars
<1>19. ASSUME NEW c \in Clients, Receive(c) PROVE TypeInv'
    BY <1>19 DEF Receive, TypeInv, TypeOK, RecvHasId, ClientPcs, queueVars, flagVars, slotVars
<1>20. ASSUME NEW c \in Clients, StopReader(c) PROVE TypeInv'
    <2>1. clientId[c] \in Ids
        BY <1>20 DEF StopReader, TypeInv, RecvHasId
    <2>2. /\ <<Cancel(clientId[c])>> \o Without(queueTasks, clientId[c]) \in Seq(Task)
          /\ Without(queueDeferred, clientId[c]) \in Seq(Task)
        <3>1. Without(queueTasks, clientId[c]) \in Seq(Task)
            BY <2>1, <1>t, TaskTypes, QueueTypes
        <3> QED
            BY <3>1, <2>1, <1>t, TaskTypes, QueueTypes
    <2>3. queueTasks' \in Seq(Task) /\ queueDeferred' \in Seq(Task) /\ cancelled' \subseteq Ids
        BY <1>20, <2>1, <2>2 DEF StopReader, TypeInv, TypeOK
    <2>4. /\ clientPc' \in [Clients -> ClientPcs] /\ clientId' \in [Clients -> 0..MaxTasks]
          /\ RecvHasId'
        BY <1>20 DEF StopReader, TypeInv, TypeOK, RecvHasId, ClientPcs
    <2> QED
        BY <1>20, <1>n, <2>3, <2>4 DEF StopReader, Touch, TypeInv, TypeOK, slotVars
<1> QED
    BY <1>0, <1>1, <1>2, <1>3, <1>4, <1>5, <1>6, <1>7, <1>8, <1>9, <1>10, <1>11, <1>12,
       <1>13, <1>14, <1>15, <1>16, <1>17, <1>18, <1>19, <1>20
    DEF Next, MainStep, ClientStep

(* The initial state has the types.                                         *)
LEMMA InitTypes == Init => TypeInv
<1> SUFFICES ASSUME Init PROVE TypeInv
    OBVIOUS
<1>1. queueTasks \in Seq(Task) /\ queueDeferred \in Seq(Task)
    BY EmptySeq DEF Init
<1>2. clientPc \in [Clients -> ClientPcs] /\ clientId \in [Clients -> 0..MaxTasks]
    BY TaskQueueAssumption DEF Init, ClientPcs
<1>3. current \subseteq Task /\ Cardinality(current) <= 1
    BY FS_EmptySet DEF Init
<1>4. nextId \in 1..(MaxTasks + 1) /\ mainPc \in MainPcs
    BY TaskQueueAssumption DEF Init, MainPcs
<1>5. {running, sleeping, reqStop, idle, loaded} \subseteq BOOLEAN
    BY DEF Init
<1>6. /\ waiting \subseteq Threads
      /\ busy \subseteq Ids /\ answered \subseteq Ids /\ cancelled \subseteq Ids
    BY DEF Init
<1>7. RecvHasId
    BY DEF Init, RecvHasId
<1> QED
    BY <1>1, <1>2, <1>3, <1>4, <1>5, <1>6, <1>7 DEF TypeInv, TypeOK

(* The variables of the queue stay within their types.                      *)
THEOREM TypeCorrect == Spec => []TypeOK
<1>1. Init => TypeInv
    BY InitTypes
<1>2. TypeInv => TypeOK
    BY DEF TypeInv
<1> QED
    BY <1>1, <1>2, TypeStep, PTL DEF Spec

-----------------------------------------------------------------------------
(* What every step but those of the loop leaves alone or only adds to.      *)
LEMMA ClientKeeps ==
    ASSUME TypeInv, NEW c \in Clients, ClientStep(c)
    PROVE  /\ UNCHANGED <<busy, loaded, mainPc, running>>
           /\ HasNext(queueTasks) => HasNext(queueTasks')
<1>1. queueTasks \in Seq(Task)
    BY DEF TypeInv, TypeOK
<1>2. CASE CreateResponse(c) \/ ClientWoken(c) \/ Receive(c)
    BY <1>2 DEF CreateResponse, ClientWoken, Receive, HasNext, queueVars, slotVars, flagVars
<1>3. CASE PostTask(c)
    <2>1. Work(nextId) \in Task
        BY <1>3, TaskTypes DEF PostTask, TypeInv, TypeOK, Ids
    <2> QED
        BY <1>1, <1>3, <2>1, NextKept DEF PostTask, slotVars
<1>4. CASE StopReader(c)
    <2>1. clientId[c] \in Ids
        BY <1>4 DEF StopReader, TypeInv, RecvHasId
    <2>2. Without(queueTasks, clientId[c]) \in Seq(Task) /\ Cancel(clientId[c]) \in Task
        BY <1>1, <2>1, TaskTypes, QueueTypes
    <2>3. HasNext(queueTasks) => HasNext(Without(queueTasks, clientId[c]))
        BY <1>1, <2>1, TaskTypes, NextKept
    <2>4. HasNext(queueTasks) =>
              HasNext(<<Cancel(clientId[c])>> \o Without(queueTasks, clientId[c]))
        BY <2>2, <2>3, NextKept
    <2> QED
        BY <1>4, <2>4 DEF StopReader, slotVars
<1> QED
    BY <1>2, <1>3, <1>4 DEF ClientStep

(* Every step keeps SleepInv.  The loop reaches the sleeping branch with an *)
(* empty queue only, hence with no NEXT_RESPONSE and no working slot.       *)
LEMMA SleepStep == TypeInv /\ SleepInv /\ [Next]_vars => SleepInv'
<1> SUFFICES ASSUME TypeInv, SleepInv, [Next]_vars PROVE SleepInv'
    OBVIOUS
<1>t. queueTasks \in Seq(Task) /\ queueDeferred \in Seq(Task)
    BY DEF TypeInv, TypeOK
<1>e. queueTasks = <<>> => ~HasNext(queueTasks)
    BY DEF HasNext
<1>0. CASE UNCHANGED vars
    BY <1>0 DEF SleepInv, UnloadedAsleep, WorkAhead, HasNext, vars, queueVars, flagVars, slotVars
<1>1. CASE StartLoop
    BY <1>1 DEF StartLoop, SleepInv, UnloadedAsleep, WorkAhead
<1>2. CASE PopTask
    BY <1>2 DEF PopTask, SleepInv, UnloadedAsleep, WorkAhead, flagVars
<1>3. CASE CallbackNewTask
    BY <1>3 DEF CallbackNewTask, SleepInv, UnloadedAsleep, WorkAhead
<1>4. CASE UpdateSlots
    <2>1. HasNext(Append(queueTasks, NextResponse))
        BY <1>t, NextPosted
    <2> QED
        BY <1>4, <2>1 DEF UpdateSlots, PostNext, SleepInv, UnloadedAsleep, WorkAhead, slotVars
<1>5. ASSUME NEW id \in Ids, FinishSlot(id) PROVE SleepInv'
    BY <1>5, <1>t, PopDeferredKeeps DEF FinishSlot, SleepInv, UnloadedAsleep, WorkAhead
<1>6. CASE EndUpdate
    BY <1>6 DEF EndUpdate, SleepInv, UnloadedAsleep, WorkAhead, HasNext, queueVars, flagVars, slotVars
<1>7. CASE StampTime
    BY <1>7 DEF StampTime, SleepInv, UnloadedAsleep, WorkAhead, HasNext, queueVars, slotVars
<1>8. CASE CheckWork
    BY <1>8 DEF CheckWork, SleepInv, UnloadedAsleep, WorkAhead, queueVars, flagVars, slotVars
<1>9. CASE EnterSleep
    <2>1. busy = {}
        BY <1>9, <1>e DEF EnterSleep, SleepInv, WorkAhead
    <2> QED
        BY <1>9, <2>1 DEF EnterSleep, SleepInv, UnloadedAsleep, WorkAhead, slotVars
<1>10. CASE WaitForTask
    BY <1>10 DEF WaitForTask, SleepInv, UnloadedAsleep, WorkAhead, HasNext, queueVars, flagVars, slotVars
<1>11. CASE MainWoken
    BY <1>11 DEF MainWoken, SleepInv, UnloadedAsleep, WorkAhead, HasNext, queueVars, flagVars, slotVars
<1>12. CASE SleepWoken
    BY <1>12 DEF SleepWoken, SleepInv, UnloadedAsleep, WorkAhead, queueVars, slotVars
<1>13. CASE WaitTimeout
    BY <1>13 DEF WaitTimeout, SleepInv, UnloadedAsleep, WorkAhead, HasNext, queueVars, flagVars, slotVars
<1>14. CASE IdleElapse
    BY <1>14 DEF IdleElapse, SleepInv, UnloadedAsleep, WorkAhead, HasNext, queueVars, slotVars
<1>15. CASE Terminate
    BY <1>15 DEF Terminate, SleepInv, UnloadedAsleep, WorkAhead, HasNext, queueVars, slotVars
<1>16. ASSUME NEW c \in Clients, ClientStep(c) PROVE SleepInv'
    BY <1>16, ClientKeeps DEF SleepInv, UnloadedAsleep, WorkAhead
<1> QED
    BY <1>0, <1>1, <1>2, <1>3, <1>4, <1>5, <1>6, <1>7, <1>8, <1>9, <1>10, <1>11, <1>12,
       <1>13, <1>14, <1>15, <1>16
    DEF Next, MainStep

(* The loop unloads the model only while no slot is working.                *)
THEOREM SleepsOnlyIdle == Spec => []AsleepIsIdle
<1>1. Init => TypeInv /\ SleepInv
    BY InitTypes DEF Init, SleepInv, UnloadedAsleep, WorkAhead
<1>2. SleepInv => AsleepIsIdle
    BY DEF SleepInv, UnloadedAsleep, AsleepIsIdle
<1> QED
    BY <1>1, <1>2, TypeStep, SleepStep, PTL DEF Spec

-----------------------------------------------------------------------------
(* Outside a sleep no client is blocked in wait_until_no_sleep, and with    *)
(* PromptWakeup no client is inside it at all when a sleep begins.          *)
NoWaking == \A c \in Clients : clientPc[c] # "waking"
WaitInv ==
    /\ ~sleeping => waiting \subseteq {MainThread}
    /\ (idle /\ ~sleeping) \/ (sleeping /\ ~reqStop) => NoWaking
    /\ \A c \in Clients : c \in waiting => clientPc[c] = "waking"
    /\ sleeping => mainPc = "asleep" \/ (~running /\ mainPc \in {"pop", "returned"})

(* Waking threads up and starting or ending a wait of the loop do no harm.  *)
LEMMA WaitKept ==
    ASSUME WaitInv, UNCHANGED <<sleeping, reqStop, clientPc>>,
           waiting' \subseteq waiting \cup {MainThread},
           idle' => idle,
           sleeping => mainPc' = "asleep" \/ (~running' /\ mainPc' \in {"pop", "returned"})
    PROVE  WaitInv'
BY TaskQueueAssumption DEF WaitInv, NoWaking

(* Every step keeps WaitInv.                                                *)
LEMMA WaitStep ==
    ASSUME PromptWakeup PROVE TypeInv /\ WaitInv /\ [Next]_vars => WaitInv'
<1> SUFFICES ASSUME TypeInv, WaitInv, [Next]_vars PROVE WaitInv'
    OBVIOUS
<1>n. NotifyOne \/ NotifyAll => waiting' \subseteq waiting \cup {MainThread}
    BY DEF NotifyOne, NotifyAll
<1>s. sleeping => mainPc = "asleep" \/ (~running /\ mainPc \in {"pop", "returned"})
    BY DEF WaitInv
<1>0. CASE UNCHANGED vars
    BY <1>0, <1>s, WaitKept DEF vars, queueVars, flagVars, clientVars
<1>1. CASE StartLoop
    BY <1>1, <1>s, WaitKept DEF StartLoop, Touch, clientVars
<1>2. CASE PopTask
    BY <1>2, <1>s, WaitKept DEF PopTask, flagVars, clientVars
<1>3. CASE CallbackNewTask
    <2>1. PICK task \in current :
            \/ ProcessWork(task) \/ ProcessCancel(task)
            \/ UNCHANGED <<busy, answered, queueTasks, queueDeferred, idle, waiting>>
        BY <1>3 DEF CallbackNewTask
    <2>2. waiting' \subseteq waiting \cup {MainThread} /\ (idle' => idle)
        BY <2>1, <1>n DEF ProcessWork, ProcessCancel, Touch
    <2> QED
        BY <1>3, <1>s, <2>2, WaitKept DEF CallbackNewTask, clientVars
<1>4. CASE UpdateSlots
    BY <1>4, <1>s, <1>n, WaitKept DEF UpdateSlots, Touch, clientVars
<1>5. ASSUME NEW id \in Ids, FinishSlot(id) PROVE WaitInv'
    BY <1>5, <1>s, <1>n, WaitKept DEF FinishSlot, Touch, clientVars
<1>6. CASE EndUpdate \/ StampTime \/ CheckWork \/ WaitForTask \/ MainWoken \/ WaitTimeout
    BY <1>6, <1>s, WaitKept
    DEF EndUpdate, StampTime, CheckWork, WaitForTask, MainWoken, WaitTimeout, Touch,
        flagVars, clientVars
<1>7. CASE EnterSleep
    <2>1. ~sleeping /\ NoWaking /\ waiting \subseteq {MainThread}
        BY <1>7, <1>s DEF EnterSleep, WaitInv
    <2> QED
        BY <1>7, <2>1, TaskQueueAssumption DEF EnterSleep, WaitInv, NoWaking, clientVars
<1>8. CASE SleepWoken
    <2>1. CASE running /\ reqStop
        BY <1>8, <2>1 DEF SleepWoken, Touch, NotifyAll, WaitInv, NoWaking, clientVars
    <2>2. CASE ~(running /\ reqStop)
        BY <1>8, <2>2, <1>s, WaitKept DEF SleepWoken, clientVars
    <2> QED
        BY <2>1, <2>2
<1>9. CASE IdleElapse
    <2>1. ~sleeping => NoWaking
        BY <1>9, TaskQueueAssumption DEF IdleElapse, WaitInv, NoWaking
    <2> QED
        BY <1>9, <2>1 DEF IdleElapse, WaitInv, NoWaking, clientVars
<1>10. CASE Terminate
    BY <1>10, <1>s, <1>n, WaitKept DEF Terminate, clientVars
<1>11. ASSUME NEW c \in Clients, CreateResponse(c) PROVE WaitInv'
    <2>1. CASE ~sleeping
        BY <1>11, <2>1 DEF CreateResponse, TypeInv, TypeOK, WaitInv, NoWaking
    <2>2. CASE sleeping
        <3>1. reqStop' /\ sleeping' /\ UNCHANGED <<mainPc, running>>
            BY <1>11, <2>2 DEF CreateResponse
        <3>2. clientPc' = [clientPc EXCEPT ![c] = "waking"] /\ waiting' \subseteq waiting \cup {c}
            BY <1>11, <2>2 DEF CreateResponse
        <3>3. \A d \in Clients : d \in waiting' => clientPc'[d] = "waking"
            BY <3>2 DEF TypeInv, TypeOK, WaitInv
        <3> QED
            BY <2>2, <3>1, <3>3, <1>s DEF WaitInv
    <2> QED
        BY <2>1, <2>2
<1>12. ASSUME NEW c \in Clients, ClientWoken(c) PROVE WaitInv'
    BY <1>12 DEF ClientWoken, TypeInv, TypeOK, WaitInv, NoWaking, flagVars
<1>13. ASSUME NEW c \in Clients, PostTask(c) \/ StopReader(c) PROVE WaitInv'
    <2>1. waiting' \subseteq waiting /\ ~idle'
        BY <1>13 DEF PostTask, StopReader, NotifyOne, Touch
    <2>2. \A d \in Clients : clientPc'[d] = "waking" <=> clientPc[d] = "waking"
        BY <1>13 DEF PostTask, StopReader, TypeInv, TypeOK
    <2> QED
        BY <1>13, <2>1, <2>2 DEF PostTask, StopReader, WaitInv, NoWaking
<1>14. ASSUME NEW c \in Clients, Receive(c) PROVE WaitInv'
    BY <1>14 DEF Receive, TypeInv, TypeOK, WaitInv, NoWaking, flagVars
<1> QED
    BY <1>0, <1>1, <1>2, <1>3, <1>4, <1>5, <1>6, <1>7, <1>8, <1>9, <1>10, <1>11, <1>12,
       <1>13, <1>14
    DEF Next, MainStep, ClientStep

(* While the server sleeps and nobody has asked it to wake up, only the     *)
(* loop waits on condition_tasks, provided that no idle period elapses      *)
(* while a woken handler has not run.                                       *)
THEOREM OneWaiter == ASSUME PromptWakeup PROVE Spec => []OnlyMainWaits
<1>1. Init => TypeInv /\ WaitInv
    BY InitTypes DEF Init, WaitInv, NoWaking
<1>2. TypeInv /\ WaitInv => OnlyMainWaits
    <2> SUFFICES ASSUME TypeInv, WaitInv, sleeping, ~reqStop PROVE waiting \subseteq {MainThread}
        BY DEF OnlyMainWaits
    <2> QED
        BY DEF TypeInv, TypeOK, WaitInv, NoWaking, Threads
<1> QED
    BY <1>1, <1>2, TypeStep, WaitStep, PTL DEF Spec

-----------------------------------------------------------------------------
(* Where the task of an id can be: in one place, and only once there.       *)
Works == {Work(id) : id \in Ids}
Somewhere(id) ==
    \/ Work(id) \in Range(queueTasks) \/ Work(id) \in Range(queueDeferred) \/ Work(id) \in current
    \/ id \in busy \/ id \in answered
Placed(id) ==
    /\ Work(id) \in Range(queueTasks) =>
        Work(id) \notin Range(queueDeferred) /\ Work(id) \notin current /\ id \notin busy /\ id \notin answered
    /\ Work(id) \in Range(queueDeferred) =>
        Work(id) \notin current /\ id \notin busy /\ id \notin answered
    /\ Work(id) \in current => id \notin busy /\ id \notin answered
    /\ id \in busy => id \notin answered
    /\ Somewhere(id) => id < nextId
    /\ id < nextId /\ id \notin cancelled => Somewhere(id)

(* A CANCEL on its way to a slot was posted.                                *)
Posted(id) ==
    Cancel(id) \in Range(queueTasks) \/ Cancel(id) \in Range(queueDeferred) \/ Cancel(id) \in current
        => id \in cancelled

(* The loop holds one task, and only around the callback.                   *)
OneCurrent ==
    /\ \A x, y \in current : x = y
    /\ mainPc # "callback" => current = {}

PlaceInv ==
    /\ Once(queueTasks, Works) /\ Once(queueDeferred, Works) /\ OneCurrent
    /\ \A id \in Ids : Placed(id) /\ Posted(id)

(* Tasks of different types or ids are different.                           *)
LEMMA TasksDiffer ==
    /\ \A a, b \in Ids : /\ Work(a) = Work(b) => a = b
                         /\ Cancel(a) = Cancel(b) => a = b
                         /\ Work(a) # Cancel(b)
    /\ \A a \in Ids : Work(a) # NextResponse /\ Cancel(a) # NextResponse
    /\ \A a \in Ids : Cancel(a) \notin Works /\ NextResponse \notin Works /\ Work(a) \in Works
    /\ \A task \in Task : /\ task.type = "work" => \E a \in Ids : task = Work(a) /\ task.id = a
                          /\ task.type = "cancel" => \E a \in Ids : task = Cancel(a) /\ task.id = a
                          /\ task.type = "next" => task = NextResponse
<1>1. \A a, b \in Ids : /\ Work(a) = Work(b) => a = b
                        /\ Cancel(a) = Cancel(b) => a = b
                        /\ Work(a) # Cancel(b)
    BY DEF Work, Cancel
<1>2. \A a \in Ids : Work(a) # NextResponse /\ Cancel(a) # NextResponse
    BY DEF Work, Cancel, NextResponse
<1>3. \A a \in Ids : Cancel(a) \notin Works /\ NextResponse \notin Works /\ Work(a) \in Works
    BY <1>1, <1>2 DEF Works
<1>4. ASSUME NEW task \in Task
      PROVE  /\ task.type = "work" => \E a \in Ids : task = Work(a) /\ task.id = a
             /\ task.type = "cancel" => \E a \in Ids : task = Cancel(a) /\ task.id = a
             /\ task.type = "next" => task = NextResponse
    <2>1. CASE \E a \in Ids : task = Work(a)
        BY <2>1 DEF Work
    <2>2. CASE \E a \in Ids : task = Cancel(a)
        BY <2>2 DEF Cancel
    <2>3. CASE task = NextResponse
        BY <2>3 DEF NextResponse
    <2> QED
        BY <2>1, <2>2, <2>3 DEF Task
<1> QED
    BY <1>1, <1>2, <1>3, <1>4

(* pop_deferred_task moves a task from one queue to the other.              *)
LEMMA PopDeferredMoves ==
    ASSUME queueTasks \in Seq(Task), queueDeferred \in Seq(Task), PopDeferred,
           Once(queueTasks, Works), Once(queueDeferred, Works),
           \A id \in Ids : Work(id) \in Range(queueTasks) => Work(id) \notin Range(queueDeferred)
    PROVE  /\ Once(queueTasks', Works) /\ Once(queueDeferred', Works)
           /\ Range(queueTasks') \cup Range(queueDeferred') = Range(queueTasks) \cup Range(queueDeferred)
           /\ \A id \in Ids : Work(id) \in Range(queueTasks') => Work(id) \notin Range(queueDeferred')
<1>1. CASE queueDeferred = <<>>
    <2>1. queueTasks' = queueTasks /\ queueDeferred' = queueDeferred
        BY <1>1 DEF PopDeferred
    <2> QED
        BY <2>1
<1>2. CASE queueDeferred # <<>>
    <2> DEFINE task == Head(queueDeferred)
    <2>1. queueTasks' = <<task>> \o queueTasks /\ queueDeferred' = Tail(queueDeferred)
        BY <1>2 DEF PopDeferred
    <2>2. /\ task \in Task /\ Range(queueDeferred) = {task} \cup Range(queueDeferred')
          /\ Once(queueDeferred', Works) /\ (task \in Works => task \notin Range(queueDeferred'))
        BY <1>2, <2>1, TailOnce
    <2> HIDE DEF task
    <2>3. task \in Works => task \notin Range(queueTasks)
        BY <2>2 DEF Works
    <2>4. Range(queueTasks') = Range(queueTasks) \cup {task} /\ Once(queueTasks', Works)
        BY <2>1, <2>2, <2>3, ConsOnce
    <2>5. \A id \in Ids : Work(id) \in Range(queueTasks') => Work(id) \notin Range(queueDeferred')
        BY <2>2, <2>4, TasksDiffer
    <2> QED
        BY <2>2, <2>4, <2>5
<1> QED
    BY <1>1, <1>2

(* What leaves the tasks where they are.                                    *)
LEMMA TasksStay ==
    ASSUME PlaceInv,
           UNCHANGED <<queueTasks, queueDeferred, nextId, current, busy, answered, cancelled>>,
           mainPc' = mainPc \/ mainPc # "callback"
    PROVE  PlaceInv'
<1>1. Once(queueTasks', Works) /\ Once(queueDeferred', Works)
    BY DEF PlaceInv
<1>2. OneCurrent'
    BY DEF PlaceInv, OneCurrent
<1>3. ASSUME NEW id \in Ids PROVE Placed(id)' /\ Posted(id)'
    BY DEF PlaceInv, Placed, Posted, Somewhere
<1> QED
    BY <1>1, <1>2, <1>3 DEF PlaceInv, Works

(* The loop takes a task off the queue and hands it to the slots.           *)
LEMMA PopTaskMoves ==
    ASSUME TypeInv, PlaceInv, PopTask
    PROVE  PlaceInv'
<1>1. queueTasks \in Seq(Task) /\ mainPc = "pop"
    BY DEF TypeInv, TypeOK, PopTask
<1>2. UNCHANGED <<queueDeferred, nextId, busy, answered, cancelled>>
    BY DEF PopTask, clientVars
<1>3. CASE UNCHANGED <<queueTasks, current>> /\ mainPc' # "callback"
    BY <1>1, <1>2, <1>3, TasksStay
<1>4. CASE queueTasks # <<>> /\ current' = {Head(queueTasks)} /\ queueTasks' = Tail(queueTasks)
           /\ mainPc' = "callback"
    <2> DEFINE task == Head(queueTasks)
    <2>1. Once(queueTasks, Works) /\ Once(queueDeferred, Works) /\ current = {}
        BY <1>1 DEF PlaceInv, OneCurrent
    <2>2. /\ Range(queueTasks) = {task} \cup Range(queueTasks')
          /\ Once(queueTasks', Works) /\ (task \in Works => task \notin Range(queueTasks'))
        BY <1>1, <1>4, <2>1, TailOnce
    <2>3. current' = {task}
        BY <1>4
    <2> HIDE DEF task
    <2>4. OneCurrent'
        BY <1>4, <2>3 DEF OneCurrent
    <2>5. ASSUME NEW id \in Ids PROVE Placed(id)' /\ Posted(id)'
        <3>1. Placed(id) /\ Posted(id)
            BY DEF PlaceInv
        <3>2. /\ Work(id) \in Range(queueTasks) <=>
                    Work(id) \in Range(queueTasks') \/ Work(id) \in current'
              /\ ~(Work(id) \in Range(queueTasks') /\ Work(id) \in current')
              /\ Cancel(id) \in Range(queueTasks) <=>
                    Cancel(id) \in Range(queueTasks') \/ Cancel(id) \in current'
            BY <2>2, <2>3, TasksDiffer
        <3> QED
            BY <1>2, <2>1, <3>1, <3>2 DEF Placed, Posted, Somewhere
    <2> QED
        BY <1>2, <2>1, <2>2, <2>4, <2>5 DEF PlaceInv, Works
<1> QED
    BY <1>3, <1>4 DEF PopTask

LEMMA CallbackMoves ==
    ASSUME TypeInv, PlaceInv, CallbackNewTask
    PROVE  PlaceInv'
<1>1. /\ queueTasks \in Seq(Task) /\ queueDeferred \in Seq(Task) /\ current \subseteq Task
      /\ Once(queueTasks, Works) /\ Once(queueDeferred, Works)
    BY DEF TypeInv, TypeOK, PlaceInv
<1>2. UNCHANGED <<nextId, cancelled>> /\ current' = {} /\ mainPc' = "pop"
    BY DEF CallbackNewTask, clientVars
<1>3. OneCurrent'
    BY <1>2 DEF OneCurrent
<1>4. PICK task \in current :
        \/ ProcessWork(task) \/ ProcessCancel(task)
        \/ task.type = "next" /\ UNCHANGED <<busy, answered, queueTasks, queueDeferred, idle, waiting>>
    BY DEF CallbackNewTask
<1>5. task \in Task /\ current = {task}
    BY <1>1, <1>4 DEF PlaceInv, OneCurrent
<1>6. CASE ProcessWork(task)
    <2>1. PICK a \in Ids : task = Work(a) /\ task.id = a
        BY <1>5, <1>6, TasksDiffer DEF ProcessWork
    <2>2. /\ a \notin busy /\ a \notin answered /\ Work(a) \notin Range(queueTasks)
          /\ Work(a) \notin Range(queueDeferred)
        BY <1>5, <2>1 DEF PlaceInv, Placed
    <2>3. CASE \/ answered' = answered \cup {a} /\ UNCHANGED <<busy, queueTasks, queueDeferred>>
               \/ busy' = busy \cup {a} /\ UNCHANGED <<answered, queueTasks, queueDeferred>>
        <3>1. ASSUME NEW id \in Ids PROVE Placed(id)' /\ Posted(id)'
            <4>1. Placed(id) /\ Posted(id)
                BY DEF PlaceInv
            <4>2. Work(id) \in current <=> id = a
                BY <1>5, <2>1, TasksDiffer
            <4> QED
                BY <1>2, <2>2, <2>3, <4>1, <4>2 DEF Placed, Posted, Somewhere
        <3> QED
            BY <1>1, <1>3, <2>3, <3>1 DEF PlaceInv, Works
    <2>4. CASE queueDeferred' = Append(queueDeferred, task) /\ UNCHANGED <<busy, answered, queueTasks>>
        <3>1. /\ Range(queueDeferred') = Range(queueDeferred) \cup {Work(a)}
              /\ Once(queueDeferred', Works)
            BY <1>1, <1>5, <2>1, <2>2, <2>4, AppendOnce
        <3>2. ASSUME NEW id \in Ids PROVE Placed(id)' /\ Posted(id)'
            <4>1. Placed(id) /\ Posted(id)
                BY DEF PlaceInv
            <4>2. Work(id) \in current <=> id = a
                BY <1>5, <2>1, TasksDiffer
            <4>3. /\ Work(id) \in Range(queueDeferred') <=> Work(id) \in Range(queueDeferred) \/ id = a
                  /\ Cancel(id) \in Range(queueDeferred') => Cancel(id) \in Range(queueDeferred)
                BY <2>1, <3>1, TasksDiffer
            <4> QED
                BY <1>2, <2>2, <2>4, <4>1, <4>2, <4>3 DEF Placed, Posted, Somewhere
        <3> QED
            BY <1>1, <1>3, <2>4, <3>1, <3>2 DEF PlaceInv, Works
    <2> QED
        BY <1>6, <2>1, <2>3, <2>4 DEF ProcessWork
<1>7. CASE ProcessCancel(task)
    <2>1. PICK a \in Ids : task = Cancel(a) /\ task.id = a
        BY <1>5, <1>7, TasksDiffer DEF ProcessCancel
    <2>2. a \in cancelled
        BY <1>5, <2>1 DEF PlaceInv, Posted
    <2>3. answered' = answered /\ \A id \in Ids : Work(id) \notin current
        BY <1>5, <1>7, <2>1, TasksDiffer DEF ProcessCancel
    <2>4. CASE busy' = busy \ {a} /\ PopDeferred
        <3>0. \A id \in Ids : Work(id) \in Range(queueTasks) => Work(id) \notin Range(queueDeferred)
            BY DEF PlaceInv, Placed
        <3>1. /\ Once(queueTasks', Works) /\ Once(queueDeferred', Works)
              /\ Range(queueTasks') \cup Range(queueDeferred') = Range(queueTasks) \cup Range(queueDeferred)
              /\ \A id \in Ids : Work(id) \in Range(queueTasks') => Work(id) \notin Range(queueDeferred')
            BY <1>1, <2>4, <3>0, PopDeferredMoves
        <3>2. ASSUME NEW id \in Ids PROVE Placed(id)' /\ Posted(id)'
            <4>1. Placed(id) /\ Posted(id)
                BY DEF PlaceInv
            <4>2. \A x : x \in Range(queueTasks') \/ x \in Range(queueDeferred')
                        <=> x \in Range(queueTasks) \/ x \in Range(queueDeferred)
                BY <3>1
            <4> QED
                BY <1>2, <2>2, <2>3, <2>4, <3>1, <4>1, <4>2 DEF Placed, Posted, Somewhere
        <3> QED
            BY <1>3, <3>1, <3>2 DEF PlaceInv, Works
    <2>5. CASE UNCHANGED <<busy, queueTasks, queueDeferred>>
        <3>1. ASSUME NEW id \in Ids PROVE Placed(id)' /\ Posted(id)'
            BY <1>2, <2>3, <2>5 DEF PlaceInv, Placed, Posted, Somewhere
        <3> QED
            BY <1>1, <1>3, <2>5, <3>1 DEF PlaceInv, Works
    <2> QED
        BY <1>7, <2>1, <2>4, <2>5 DEF ProcessCancel
<1>8. CASE task.type = "next" /\ UNCHANGED <<busy, answered, queueTasks, queueDeferred, idle, waiting>>
    <2>1. \A id \in Ids : Work(id) \notin current
        BY <1>5, <1>8, TasksDiffer
    <2>2. ASSUME NEW id \in Ids PROVE Placed(id)' /\ Posted(id)'
        BY <1>2, <1>8, <2>1 DEF PlaceInv, Placed, Posted, Somewhere
    <2> QED
        BY <1>1, <1>3, <1>8, <2>2 DEF PlaceInv, Works
<1> QED
    BY <1>4, <1>6, <1>7, <1>8

(* The slots ask for another turn, and give their answers.                  *)
LEMMA SlotsMove ==
    ASSUME TypeInv, PlaceInv, UpdateSlots \/ \E id \in Ids : FinishSlot(id)
    PROVE  PlaceInv'
<1>1. /\ queueTasks \in Seq(Task) /\ queueDeferred \in Seq(Task)
      /\ Once(queueTasks, Works) /\ Once(queueDeferred, Works)
    BY DEF TypeInv, TypeOK, PlaceInv
<1>2. CASE UpdateSlots
    <2>1. CASE UNCHANGED queueTasks
        BY <1>2, <2>1, TasksStay DEF UpdateSlots, slotVars, clientVars
    <2>2. CASE queueTasks' = Append(queueTasks, NextResponse)
        <3>1. UNCHANGED <<queueDeferred, nextId, current, busy, answered, cancelled>>
            BY <1>2 DEF UpdateSlots, slotVars, clientVars
        <3>2. OneCurrent'
            BY <1>2, <3>1 DEF UpdateSlots, PlaceInv, OneCurrent
        <3>3. Range(queueTasks') = Range(queueTasks) \cup {NextResponse} /\ Once(queueTasks', Works)
            <4>1. NextResponse \in Task /\ NextResponse \notin Works
                BY TaskTypes, TasksDiffer DEF Works
            <4> QED
                BY <1>1, <2>2, <4>1, AppendOnce
        <3>4. ASSUME NEW id \in Ids PROVE Placed(id)' /\ Posted(id)'
            <4>1. /\ Work(id) \in Range(queueTasks') <=> Work(id) \in Range(queueTasks)
                  /\ Cancel(id) \in Range(queueTasks') <=> Cancel(id) \in Range(queueTasks)
                BY <3>3, TasksDiffer
            <4> QED
                BY <3>1, <4>1 DEF PlaceInv, Placed, Posted, Somewhere
        <3> QED
            BY <1>1, <3>1, <3>2, <3>3, <3>4 DEF PlaceInv, Works
    <2> QED
        BY <1>2, <2>1, <2>2 DEF UpdateSlots, PostNext
<1>3. ASSUME NEW a \in Ids, FinishSlot(a) PROVE PlaceInv'
    <2>1. /\ a \in busy /\ busy' = busy \ {a} /\ answered' = answered \cup {a} /\ PopDeferred
          /\ UNCHANGED <<nextId, current, cancelled, mainPc>>
        BY <1>3 DEF FinishSlot, clientVars
    <2>2. \A id \in Ids : Work(id) \in Range(queueTasks) => Work(id) \notin Range(queueDeferred)
        BY DEF PlaceInv, Placed
    <2>3. /\ Once(queueTasks', Works) /\ Once(queueDeferred', Works)
          /\ Range(queueTasks') \cup Range(queueDeferred') = Range(queueTasks) \cup Range(queueDeferred)
          /\ \A id \in Ids : Work(id) \in Range(queueTasks') => Work(id) \notin Range(queueDeferred')
        BY <1>1, <2>1, <2>2, PopDeferredMoves
    <2>4. OneCurrent'
        BY <2>1 DEF PlaceInv, OneCurrent
    <2>5. ASSUME NEW id \in Ids PROVE Placed(id)' /\ Posted(id)'
        <3>1. Placed(id) /\ Posted(id)
            BY DEF PlaceInv
        <3>2. \A x : x \in Range(queueTasks') \/ x \in Range(queueDeferred')
                    <=> x \in Range(queueTasks) \/ x \in Range(queueDeferred)
            BY <2>3
        <3> QED
            BY <2>1, <2>3, <3>1, <3>2 DEF Placed, Posted, Somewhere
    <2> QED
        BY <2>3, <2>4, <2>5 DEF PlaceInv, Works
<1> QED
    BY <1>2, <1>3

(* A handler posts a task under a fresh id, or takes its task back.         *)
LEMMA ClientMoves ==
    ASSUME TypeInv, PlaceInv, NEW c \in Clients, PostTask(c) \/ StopReader(c)
    PROVE  PlaceInv'
<1>1. /\ queueTasks \in Seq(Task) /\ queueDeferred \in Seq(Task)
      /\ Once(queueTasks, Works) /\ Once(queueDeferred, Works)
    BY DEF TypeInv, TypeOK, PlaceInv
<1>2. UNCHANGED <<current, busy, answered, mainPc>>
    BY DEF PostTask, StopReader, slotVars
<1>3. OneCurrent'
    BY <1>2 DEF PlaceInv, OneCurrent
<1>4. CASE PostTask(c)
    <2>1. /\ nextId \in Ids /\ nextId' = nextId + 1 /\ UNCHANGED <<queueDeferred, cancelled>>
          /\ queueTasks' = Append(queueTasks, Work(nextId))
        BY <1>4 DEF PostTask, TakeId, TypeInv, TypeOK, Ids
    <2>2. ~Somewhere(nextId)
        <3>1. ~(nextId < nextId)
            BY <2>1 DEF Ids
        <3> QED
            BY <2>1, <3>1 DEF PlaceInv, Placed
    <2>3. Range(queueTasks') = Range(queueTasks) \cup {Work(nextId)} /\ Once(queueTasks', Works)
        BY <1>1, <2>1, <2>2, TaskTypes, AppendOnce DEF Somewhere
    <2>4. ASSUME NEW id \in Ids PROVE Placed(id)' /\ Posted(id)'
        <3>1. Placed(id) /\ Posted(id)
            BY DEF PlaceInv
        <3>2. /\ Work(id) \in Range(queueTasks') <=> Work(id) \in Range(queueTasks) \/ id = nextId
              /\ Cancel(id) \in Range(queueTasks') => Cancel(id) \in Range(queueTasks)
            BY <2>1, <2>3, TasksDiffer
        <3>3. id < nextId' <=> id < nextId \/ id = nextId
            BY <2>1 DEF Ids
        <3>4. CASE id = nextId
            BY <1>2, <2>1, <2>2, <3>1, <3>2, <3>3, <3>4 DEF Placed, Posted, Somewhere
        <3>5. CASE id # nextId
            BY <1>2, <2>1, <3>1, <3>2, <3>3, <3>5 DEF Placed, Posted, Somewhere
        <3> QED
            BY <3>4, <3>5
    <2> QED
        BY <1>1, <1>3, <2>1, <2>3, <2>4 DEF PlaceInv, Works
<1>5. CASE StopReader(c)
    <2> DEFINE a == clientId[c]
               rest == Without(queueTasks, a)
    <2>1. /\ a \in Ids /\ cancelled' = cancelled \cup {a} /\ nextId' = nextId
          /\ queueTasks' = <<Cancel(a)>> \o rest /\ queueDeferred' = Without(queueDeferred, a)
        BY <1>5 DEF StopReader, TypeInv, RecvHasId
    <2> HIDE DEF a
    <2>2. Work(a) \in Works /\ Cancel(a) \in Task /\ Cancel(a) \notin Works
        BY <2>1, TaskTypes, TasksDiffer
    <2>3. /\ rest \in Seq(Task) /\ Once(rest, Works) /\ Range(rest) = Range(queueTasks) \ {Work(a)}
          /\ Once(queueDeferred', Works) /\ Range(queueDeferred') = Range(queueDeferred) \ {Work(a)}
        BY <1>1, <2>1, <2>2, RemoveFirstOnce DEF Without
    <2> HIDE DEF rest
    <2>4. Range(queueTasks') = Range(rest) \cup {Cancel(a)} /\ Once(queueTasks', Works)
        BY <2>1, <2>2, <2>3, ConsOnce
    <2>5. ASSUME NEW id \in Ids PROVE Placed(id)' /\ Posted(id)'
        <3>1. Placed(id) /\ Posted(id)
            BY DEF PlaceInv
        <3>2. /\ Work(id) \in Range(queueTasks') <=> Work(id) \in Range(queueTasks) /\ id # a
              /\ Work(id) \in Range(queueDeferred') <=> Work(id) \in Range(queueDeferred) /\ id # a
              /\ Cancel(id) \in Range(queueTasks') => Cancel(id) \in Range(queueTasks) \/ id = a
              /\ Cancel(id) \in Range(queueDeferred') => Cancel(id) \in Range(queueDeferred)
            BY <2>1, <2>3, <2>4, TasksDiffer
        <3> QED
            BY <1>2, <2>1, <3>1, <3>2 DEF Placed, Posted, Somewhere
    <2> QED
        BY <1>3, <2>3, <2>4, <2>5 DEF PlaceInv, Works
<1> QED
    BY <1>4, <1>5

LEMMA PlaceStep == TypeInv /\ PlaceInv /\ [Next]_vars => PlaceInv'
<1> SUFFICES ASSUME TypeInv, PlaceInv, [Next]_vars PROVE PlaceInv'
    OBVIOUS
<1>1. CASE StartLoop \/ EndUpdate \/ StampTime \/ CheckWork \/ EnterSleep \/ WaitForTask
    BY <1>1, TasksStay
    DEF StartLoop, EndUpdate, StampTime, CheckWork, EnterSleep, WaitForTask, queueVars, slotVars, clientVars
<1>2. CASE WaitTimeout \/ MainWoken \/ SleepWoken \/ IdleElapse \/ Terminate
    BY <1>2, TasksStay
    DEF WaitTimeout, MainWoken, SleepWoken, IdleElapse, Terminate, queueVars, slotVars, clientVars
<1>3. ASSUME NEW c \in Clients, CreateResponse(c) \/ ClientWoken(c) \/ Receive(c) PROVE PlaceInv'
    BY <1>3, TasksStay DEF CreateResponse, ClientWoken, Receive, queueVars, slotVars
<1>4. ASSUME NEW c \in Clients, PostTask(c) \/ StopReader(c) PROVE PlaceInv'
    BY <1>4, ClientMoves
<1>5. CASE PopTask
    BY <1>5, PopTaskMoves
<1>6. CASE CallbackNewTask
    BY <1>6, CallbackMoves
<1>7. CASE UpdateSlots \/ \E id \in Ids : FinishSlot(id)
    BY <1>7, SlotsMove
<1>8. CASE UNCHANGED vars
    BY <1>8, TasksStay DEF vars, queueVars, slotVars, clientVars
<1> QED
    BY <1>1, <1>2, <1>3, <1>4, <1>5, <1>6, <1>7, <1>8 DEF Next, MainStep, ClientStep

(* Counting the tasks of an id where there is at most one.                  *)
LEMMA OccursOnce ==
    ASSUME NEW q \in Seq(Task), Once(q, Works), NEW id \in Ids
    PROVE  Occurrences(q, Work(id)) = In(Work(id) \in Range(q))
<1> DEFINE I == {i \in DOMAIN q : q[i] = Work(id)}
<1>1. DOMAIN q = 1..Len(q) /\ Work(id) \in Works
    BY LenProperties, TasksDiffer
<1>2. CASE Work(id) \in Range(q)
    <2>1. PICK i \in DOMAIN q : q[i] = Work(id)
        BY <1>2 DEF Range
    <2>2. I = {i}
        BY <1>1, <2>1 DEF Once
    <2> QED
        BY <1>2, <2>2, FS_Singleton DEF Occurrences, In
<1>3. CASE Work(id) \notin Range(q)
    <2>1. I = {}
        BY <1>3 DEF Range
    <2> QED
        BY <1>3, <2>1, FS_EmptySet DEF Occurrences, In
<1> QED
    BY <1>2, <1>3

(* Whatever clients post and cancel and the loop defers, pops and answers:  *)
(* a task is in one place until it is answered, and never in two.           *)
THEOREM TasksConserved == Spec => []Conservation
<1>1. Init => TypeInv /\ PlaceInv
    <2> SUFFICES ASSUME Init PROVE PlaceInv
        BY InitTypes
    <2>1. Len(<<>>) = 0 /\ 1..0 = {} /\ DOMAIN <<>> = {}
        OBVIOUS
    <2>2. Once(<<>>, Works) /\ Range(<<>>) = {}
        BY <2>1 DEF Once, Range
    <2>3. \A id \in Ids : ~(id < nextId)
        BY DEF Init, Ids
    <2> QED
        BY <2>2, <2>3 DEF Init, PlaceInv, OneCurrent, Placed, Posted, Somewhere
<1>2. TypeInv /\ PlaceInv => Conservation
    <2> SUFFICES ASSUME TypeInv, PlaceInv, NEW id \in 1..(nextId - 1)
                 PROVE  Held(id) <= 1 /\ (id \notin cancelled => Held(id) = 1)
        BY DEF Conservation
    <2>1. id \in Ids /\ id < nextId
        BY TaskQueueAssumption DEF TypeInv, TypeOK, Ids
    <2>2. /\ Occurrences(queueTasks, Work(id)) = In(Work(id) \in Range(queueTasks))
          /\ Occurrences(queueDeferred, Work(id)) = In(Work(id) \in Range(queueDeferred))
        BY <2>1, OccursOnce DEF TypeInv, TypeOK, PlaceInv
    <2>3. Placed(id)
        BY <2>1 DEF PlaceInv
    <2> QED
        BY <2>1, <2>2, <2>3 DEF Held, In, Placed, Somewhere
<1> QED
    BY <1>1, <1>2, TypeStep, PlaceStep, PTL DEF Spec
=============================================================================
