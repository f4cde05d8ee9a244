------------------------- MODULE ServerModels_proofs -------------------------
(***************************************************************************)
(* The status of a model is the truth about its instance, for any models,  *)
(* clients and limit, however many children die.  The argument: three      *)
(* threads write the status, and each writes it at a point of the life of  *)
(* the instance no other one can be at (InstanceLife).                     *)
(*                                                                         *)
(* And the limit on active models, as long as no two clients are between   *)
(* unload_lru and the end of load() at once: whoever is there has room for *)
(* the model it will load (RoomToLoad), which rests on the order of use    *)
(* naming the active models and no other (UsedIsActive).                   *)
(***************************************************************************)
EXTENDS ServerModels, TLAPS, FiniteSetTheorems, SequenceTheorems,
        WellFoundedInduction

-----------------------------------------------------------------------------
(* What the helpers return, and the order of numbers.                       *)

(* A nonempty set of naturals has a least element: what stands for           *)
(* induction where the induction theorems cannot be instantiated.           *)
LEMMA LeastElement ==
    ASSUME NEW S, S \subseteq Nat, S # {}
    PROVE  \E x \in S : \A y \in S : x =< y
<1>1. \E x \in S : \A y \in S : ~(<<y, x>> \in OpToRel(<, Nat))
    BY NatLessThanWellFounded, WFMin
<1>2. PICK x \in S : \A y \in S : ~(<<y, x>> \in OpToRel(<, Nat))
    BY <1>1
<1>3. \A y \in S : x =< y
    <2> SUFFICES ASSUME NEW y \in S, y < x PROVE FALSE
        OBVIOUS
    <2>1. <<y, x>> \in OpToRel(<, Nat)
        BY DEF OpToRel
    <2> QED
        BY <2>1, <1>2
<1> QED
    BY <1>3

(* Min returns it.                                                          *)
LEMMA MinIsElement ==
    ASSUME NEW S, S \subseteq Nat, S # {}
    PROVE  Min(S) \in S /\ \A y \in S : Min(S) =< y
    BY LeastElement DEF Min

(* What RemoveAt returns, position by position.                             *)
LEMMA RemoveAtElements ==
    ASSUME NEW S, NEW q \in Seq(S), NEW i \in 1..Len(q)
    PROVE  /\ RemoveAt(q, i) \in Seq(S) /\ Len(RemoveAt(q, i)) = Len(q) - 1
           /\ \A k \in 1..(Len(q) - 1) :
                 RemoveAt(q, i)[k] = IF k < i THEN q[k] ELSE q[k + 1]
<1> DEFINE a == SubSeq(q, 1, i - 1)
           b == SubSeq(q, i + 1, Len(q))
<1>1. /\ a \in Seq(S) /\ Len(a) = i - 1
      /\ \A j \in 1..(i - 1) : a[j] = q[j]
    BY SubSeqProperties, ElementOfSeq
<1>2. /\ b \in Seq(S) /\ Len(b) = Len(q) - i
      /\ \A j \in 1..(Len(q) - i) : b[j] = q[i + j]
    BY SubSeqProperties, ElementOfSeq
<1> HIDE DEF a, b
<1>3. /\ a \o b \in Seq(S) /\ Len(a \o b) = Len(a) + Len(b)
      /\ \A j \in 1..(Len(a) + Len(b)) :
            (a \o b)[j] = IF j <= Len(a) THEN a[j] ELSE b[j - Len(a)]
    BY <1>1, <1>2, ConcatProperties
<1>4. Len(a) = i - 1 /\ Len(a) + Len(b) = Len(q) - 1
    BY <1>1, <1>2, LenProperties
<1>5. ASSUME NEW k \in 1..(Len(q) - 1)
      PROVE  (a \o b)[k] = IF k < i THEN q[k] ELSE q[k + 1]
    <2>1. CASE k < i
        BY <2>1, <1>1, <1>3, <1>4
    <2>2. CASE k >= i
        <3> DEFINE n == k - (i - 1)
        <3>1. n \in 1..(Len(q) - i) /\ i + n = k + 1 /\ ~(k <= i - 1) /\ ~(k < i)
            BY <2>2
        <3>2. (a \o b)[k] = b[n]
            BY <3>1, <1>3, <1>4
        <3>3. b[n] = q[i + n]
            <4> HIDE DEF n
            <4> QED
                BY <3>1, <1>2
        <3> QED
            BY <3>1, <3>2, <3>3
    <2>3. k < i \/ k >= i
        OBVIOUS
    <2> QED
        BY <2>1, <2>2, <2>3
<1> QED
    BY <1>3, <1>4, <1>5 DEF RemoveAt, a, b

(* Taking one position out of a sequence leaves a sequence over the same    *)
(* set, in which every other position is still found.                       *)
LEMMA RemoveAtProperties ==
    ASSUME NEW S, NEW q \in Seq(S), NEW i \in 1..Len(q)
    PROVE  /\ RemoveAt(q, i) \in Seq(S)
           /\ \A j \in 1..Len(q) : j # i =>
                \E k \in 1..Len(RemoveAt(q, i)) : RemoveAt(q, i)[k] = q[j]
<1>1. ASSUME NEW j \in 1..Len(q), j # i
      PROVE  \E k \in 1..(Len(q) - 1) : RemoveAt(q, i)[k] = q[j]
    <2>1. CASE j < i
        <3>1. j \in 1..(Len(q) - 1)
            BY <2>1
        <3> QED
            BY <2>1, <3>1, RemoveAtElements
    <2>2. CASE j > i
        <3>1. j - 1 \in 1..(Len(q) - 1) /\ ~(j - 1 < i) /\ (j - 1) + 1 = j
            BY <2>2
        <3> QED
            BY <3>1, RemoveAtElements
    <2> QED
        BY <2>1, <2>2, <1>1
<1> QED
    BY <1>1, RemoveAtElements

(* Where no element occurs twice, RemoveFirst takes its element out: what   *)
(* is left are the others, each once.                                       *)
LEMMA RemoveFirstOfInjective ==
    ASSUME NEW S, NEW q \in Seq(S), IsInjective(q), NEW e \in S,
           \E i \in 1..Len(q) : q[i] = e
    PROVE  /\ RemoveFirst(q, e) \in Seq(S) /\ IsInjective(RemoveFirst(q, e))
           /\ Range(RemoveFirst(q, e)) = Range(q) \ {e}
<1>1. PICK i \in 1..Len(q) : q[i] = e
    OBVIOUS
<1> DEFINE r == RemoveFirst(q, e)
<1>2. \A j \in 1..Len(q) : q[j] = e <=> j = i
    BY <1>1 DEF IsInjective
<1>3. r = RemoveAt(q, i)
    <2>1. {j \in 1..Len(q) : q[j] = e} = {i}
        BY <1>2
    <2>2. Min({i}) = i
        <3>1. {i} \subseteq Nat /\ {i} # {}
            OBVIOUS
        <3> QED
            BY <3>1, MinIsElement
    <2> QED
        BY <1>1, <2>1, <2>2 DEF RemoveFirst, SelectInSeq
<1> HIDE DEF r
<1>4. /\ r \in Seq(S) /\ Len(r) = Len(q) - 1
      /\ \A k \in 1..(Len(q) - 1) : r[k] = IF k < i THEN q[k] ELSE q[k + 1]
    BY <1>3, RemoveAtElements
<1>5. ASSUME NEW k \in 1..Len(r) PROVE r[k] \in {q[j] : j \in DOMAIN q} \ {e}
    <2>1. k \in 1..(Len(q) - 1)
        BY <1>4
    <2>2. CASE k < i
        <3>1. r[k] = q[k] /\ k \in 1..Len(q) /\ k # i
            BY <2>1, <2>2, <1>4
        <3> QED
            BY <3>1, <1>2
    <2>3. CASE ~(k < i)
        <3>1. r[k] = q[k + 1] /\ k + 1 \in 1..Len(q) /\ k + 1 # i
            BY <2>1, <2>3, <1>4
        <3> QED
            BY <3>1, <1>2
    <2> QED
        BY <2>2, <2>3
<1>6. IsInjective(r)
    <2>1. \A j, k \in 1..Len(q) : q[j] = q[k] => j = k
        BY DEF IsInjective
    <2>2. DOMAIN r = 1..(Len(q) - 1)
        BY <1>4
    <2>3. ASSUME NEW j \in 1..(Len(q) - 1), NEW k \in 1..(Len(q) - 1), r[j] = r[k]
          PROVE  j = k
        <3> DEFINE at(n) == IF n < i THEN n ELSE n + 1
        <3>1. at(j) \in 1..Len(q) /\ at(k) \in 1..Len(q)
            OBVIOUS
        <3>2. r[j] = q[at(j)] /\ r[k] = q[at(k)]
            BY <1>4
        <3>3. at(j) = at(k)
            <4> HIDE DEF at
            <4> QED
                BY <2>1, <2>3, <3>1, <3>2
        <3> QED
            BY <3>3
    <2> QED
        BY <2>2, <2>3 DEF IsInjective
<1>7. \A j \in 1..Len(q) : j # i => \E k \in 1..Len(r) : r[k] = q[j]
    BY <1>3, RemoveAtProperties
<1> QED
    BY <1>2, <1>4, <1>5, <1>6, <1>7 DEF r, Range

-----------------------------------------------------------------------------

(* Where the threads of an instance are when the child is at a point of its *)
(* life: READY is sent once, by a child whose model is not LOADED yet, and  *)
(* unread output keeps the monitoring thread waiting.                       *)
InstanceLife ==
    \A m \in Models :
        /\ proc[m] = "starting" => ready[m] = "no"
        /\ status[m] = "unloaded" => ready[m] = "no"
        /\ monitor[m] = "join" => ready[m] # "sent" /\ proc[m] \in {"exited", "died"}

IInv == InstanceTypes /\ StatusIsTrue /\ InstanceLife

LEMMA InstanceInit == Init => IInv
  BY DEF Init, IInv, InstanceTypes, StatusIsTrue, InstanceLife, Statuses, Monitors, Stoppers, Procs

(* Clients, unloads and the end of the router never touch an instance. *)
instances == <<status, failed, instanceVars>>

LEMMA OthersKeepInstances ==
  ASSUME \/ \E c \in Clients, m \in Models : Request(c, m)
         \/ \E c \in Clients : \/ UnloadLru(c) \/ UnloadVictim(c) \/ AwaitEviction(c)
                               \/ WaitUntilLoaded(c) \/ CheckFinalStatus(c)
         \/ \E m \in Models : Unload(m)
         \/ UnloadAll \/ JoinedAll \/ UNCHANGED vars
  PROVE  UNCHANGED instances
  BY DEF Request, UnloadLru, UnloadVictim, AwaitEviction, WaitUntilLoaded, CheckFinalStatus,
         Unload, UnloadAll, JoinedAll, vars, metaVars, instances

(* The two places that call load(): one instance starts, or none.           *)
LEMMA LoadsStart ==
  ASSUME IInv, LoadAtStartup \/ \E c \in Clients : Load(c)
  PROVE  UNCHANGED instances \/ \E m \in Models : StartInstance(m)
<1>1. ASSUME NEW m, m \notin Models, StartInstance(m) PROVE UNCHANGED instances
  BY <1>1 DEF StartInstance, IInv, InstanceTypes, instances, instanceVars
<1>2. CASE LoadAtStartup
  BY <1>1, <1>2 DEF LoadAtStartup, metaVars, instances
<1>3. CASE \E c \in Clients : Load(c)
  BY <1>1, <1>3 DEF Load, metaVars, instances
<1> QED
  BY <1>2, <1>3

LEMMA StartKeeps ==
  ASSUME IInv, NEW m \in Models, StartInstance(m)
  PROVE  IInv' /\ status[m] = "unloaded"
  BY DEF IInv, InstanceTypes, StatusIsTrue, InstanceLife, StartInstance, Statuses, Monitors,
         Stoppers, Procs

LEMMA ChildKeeps ==
  ASSUME IInv, NEW m \in Models, ChildReady(m) \/ ChildExits(m) \/ ChildDies(m)
  PROVE  IInv'
<1> USE DEF IInv, InstanceTypes, StatusIsTrue, InstanceLife, Statuses, Monitors, Stoppers, Procs,
            metaVars
<1>1. CASE ChildReady(m)
  BY <1>1 DEF ChildReady
<1>2. CASE ChildExits(m)
  BY <1>2 DEF ChildExits
<1>3. CASE ChildDies(m)
  BY <1>3 DEF ChildDies
<1> QED
  BY <1>1, <1>2, <1>3

LEMMA ThreadsKeep ==
  ASSUME IInv, NEW m \in Models, Instance(m)
  PROVE  IInv'
<1> USE DEF IInv, InstanceTypes, StatusIsTrue, InstanceLife, Statuses, Monitors, Stoppers, Procs,
            metaVars
<1>1. CASE LogReady(m)
  BY <1>1 DEF LogReady
<1>2. CASE SendExit(m)
  BY <1>2 DEF SendExit
<1>3. CASE AlreadyStopped(m)
  BY <1>3 DEF AlreadyStopped
<1>4. CASE ForceKill(m)
  BY <1>4 DEF ForceKill
<1>5. CASE ChildEnded(m)
  BY <1>5 DEF ChildEnded, OutputClosed
<1>6. CASE ReportExit(m)
  BY <1>6 DEF ReportExit, StopperJoined
<1> QED
  BY <1>1, <1>2, <1>3, <1>4, <1>5, <1>6 DEF Instance

LEMMA InstanceStep == IInv /\ [Next]_vars => IInv'
<1> SUFFICES ASSUME IInv, [Next]_vars PROVE IInv'
  OBVIOUS
<1>1. CASE UNCHANGED instances
  BY <1>1 DEF IInv, InstanceTypes, StatusIsTrue, InstanceLife, instances, instanceVars
<1>2. CASE LoadAtStartup \/ \E c \in Clients : Load(c)
  BY <1>1, <1>2, LoadsStart, StartKeeps
<1>3. CASE \E m \in Models : ChildReady(m) \/ ChildExits(m) \/ ChildDies(m)
  BY <1>3, ChildKeeps
<1>4. CASE \E m \in Models : Instance(m)
  BY <1>4, ThreadsKeep
<1>5. CASE ~(LoadAtStartup \/ (\E c \in Clients : Load(c))) /\ ~UNCHANGED instances
  BY <1>3, <1>4, <1>5, OthersKeepInstances DEF Next, Client
<1> QED
  BY <1>1, <1>2, <1>5

(* Every status is the truth about its instance: an unloaded model has no   *)
(* process and no thread left to join when load() starts the next one under *)
(* the mutex.                                                               *)
THEOREM StatusAlwaysTrue == Spec => []StatusIsTrue
<1>1. IInv => StatusIsTrue
  BY DEF IInv
<1> QED
  BY InstanceInit, InstanceStep, <1>1, PTL DEF Spec

(* No step takes an edge the state diagram of server-models.h lacks.        *)
LEMMA DiagramStep ==
  ASSUME IInv, [Next]_vars, NEW m \in Models
  PROVE  /\ status[m] = "unloaded" => status'[m] # "loaded"
         /\ status[m] = "loaded"   => status'[m] # "loading"
<1> USE DEF IInv, InstanceTypes, InstanceLife
<1>1. CASE UNCHANGED instances
  BY <1>1 DEF instances
<1>2. CASE \E n \in Models : StartInstance(n)
  BY <1>2, StartKeeps DEF StartInstance
<1>3. CASE \E n \in Models : ChildReady(n) \/ ChildExits(n) \/ ChildDies(n)
  BY <1>3 DEF ChildReady, ChildExits, ChildDies, metaVars
<1>4. CASE \E n \in Models : Instance(n)
  BY <1>4 DEF Instance, LogReady, SendExit, AlreadyStopped, ForceKill, ChildEnded, ReportExit,
           metaVars
<1>5. CASE LoadAtStartup \/ \E c \in Clients : Load(c)
  BY <1>1, <1>2, <1>5, LoadsStart
<1> QED
  BY <1>1, <1>3, <1>4, <1>5, OthersKeepInstances DEF Next, Client

(* A model is LOADED only from LOADING and starts only from UNLOADED. *)
THEOREM FollowsStateDiagram == Spec => StateDiagram
<1>1. IInv /\ [Next]_vars =>
        [\A m \in Models :
            /\ status[m] = "unloaded" => status'[m] # "loaded"
            /\ status[m] = "loaded"   => status'[m] # "loading"]_vars
  BY DiagramStep
<1> QED
  BY InstanceInit, InstanceStep, <1>1, PTL DEF Spec, StateDiagram

-----------------------------------------------------------------------------
(* The order of use: a victim taken from it is active.                      *)
UsedIsActive ==
    /\ used \in Seq(Models) /\ IsInjective(used)
    /\ Range(used) = Active

(* A client that asks has a model to ask for, and only models are pending.  *)
ClientTypes ==
    /\ clientPc \in [Clients -> ClientPcs]
    /\ wants \in [Clients -> Models \cup {NoModel}]
    /\ victim \in [Clients -> Models \cup {NoModel}]
    /\ \A c \in Clients : clientPc[c] # "idle" => wants[c] \in Models
    /\ \A c \in Clients : clientPc[c] \in {"unload", "evict"} => victim[c] \in Models
    /\ pending \subseteq Models

LEMMA ClientsInit == Init => ClientTypes
  BY ServerModelsAssumption DEF Init, ClientTypes, ClientPcs

LEMMA ClientsStep ==
  ASSUME UsedIsActive, ClientTypes, [Next]_vars
  PROVE  ClientTypes'
<1> USE DEF ClientTypes, ClientPcs, Go, Leave, routerVars, clientVars
<1>1. CASE LoadAtStartup
  BY <1>1 DEF LoadAtStartup
<1>2. CASE \E c \in Clients, m \in Models : Request(c, m)
  BY <1>2 DEF Request
<1>3. ASSUME NEW c \in Clients, UnloadLru(c) PROVE ClientTypes'
  <2>1. AtLimit => LruModel \in Models
    <3>1. AtLimit => Active # {}
      <4>1. ModelsMax \in Nat /\ Cardinality({}) = 0
        BY FS_EmptySet, ServerModelsAssumption
      <4> HIDE DEF Active
      <4> QED
        BY <4>1 DEF AtLimit
    <3> QED
      BY <3>1 DEF UsedIsActive, LruModel, Range, Active
  <2> QED
    BY <1>3, <2>1 DEF UnloadLru
<1>4. ASSUME NEW c \in Clients, UnloadVictim(c) \/ AwaitEviction(c) \/ Load(c) PROVE ClientTypes'
  BY <1>4, ServerModelsAssumption DEF UnloadVictim, AwaitEviction, EvictionDone, Load
<1>5. ASSUME NEW c \in Clients, WaitUntilLoaded(c) \/ CheckFinalStatus(c) PROVE ClientTypes'
  BY <1>5 DEF WaitUntilLoaded, CheckFinalStatus
<1>6. CASE \/ \E m \in Models : Unload(m)
           \/ UnloadAll \/ JoinedAll
  BY <1>6 DEF Unload, UnloadAll, JoinedAll
<1>7. ASSUME NEW m \in Models, ChildReady(m) \/ ChildExits(m) \/ ChildDies(m) \/ Instance(m)
      PROVE  ClientTypes'
  BY <1>7 DEF ChildReady, ChildExits, ChildDies, Instance, LogReady, SendExit, AlreadyStopped,
       ForceKill, ChildEnded, ReportExit
<1>8. CASE UNCHANGED vars
  BY <1>8 DEF vars
<1> QED
  BY <1>1, <1>2, <1>3, <1>4, <1>5, <1>6, <1>7, <1>8 DEF Next, Client

LEMMA UsedInit == Init => UsedIsActive
  BY DEF Init, UsedIsActive, Active, IsActive, IsInjective, Range

LEMMA AppendUsed ==
  ASSUME UsedIsActive, NEW m \in Models, m \notin Active
  PROVE  LET u == Append(used, m)
         IN  /\ u \in Seq(Models) /\ IsInjective(u)
             /\ Range(u) = Active \cup {m}
<1> DEFINE u == Append(used, m)
<1>1. /\ u \in Seq(Models) /\ Len(u) = Len(used) + 1 /\ u[Len(used) + 1] = m
      /\ \A i \in 1..Len(used) : u[i] = used[i]
  BY AppendProperties DEF UsedIsActive
<1>2. DOMAIN u = 1..(Len(used) + 1) /\ Len(used) \in Nat /\ DOMAIN used = 1..Len(used)
  BY <1>1 DEF UsedIsActive
<1>3. \A i \in 1..Len(used) : used[i] \in Active /\ used[i] # m
  BY <1>2 DEF UsedIsActive, Range
<1> HIDE DEF u
<1>4. \A i, k \in 1..Len(used) : used[i] = used[k] => i = k
  BY <1>2 DEF UsedIsActive, IsInjective
<1>5. IsInjective(u)
  BY <1>1, <1>2, <1>3, <1>4 DEF IsInjective
<1>6. Range(u) = Range(used) \cup {m}
  BY <1>1, <1>2 DEF Range
<1> QED
  BY <1>1, <1>5, <1>6 DEF u, UsedIsActive

(* What a step does to the active models and to the order of use.           *)
LEMMA ActiveSteps ==
  ASSUME IInv, ClientTypes, [Next]_vars
  PROVE  \/ UNCHANGED <<Active, used>>
         \/ \E m \in Models : StartInstance(m) /\ Active' = Active \cup {m} /\ m \notin Active
         \/ \E m \in Models :
                ReportExit(m) /\ m \in Active /\ Active' = Active \ {m} /\ used' = RemoveFirst(used, m)
<1> USE DEF IInv, InstanceTypes, Active, IsActive
<1>1. CASE UNCHANGED <<status, used>>
  BY <1>1
<1>2. CASE \E m \in Models : StartInstance(m)
  <2>1. PICK m \in Models : StartInstance(m)
    BY <1>2
  <2>2. status[m] = "unloaded" /\ status' = [status EXCEPT ![m] = "loading"]
    BY <2>1, StartKeeps DEF StartInstance
  <2> QED
    BY <2>1, <2>2
<1>3. CASE LoadAtStartup \/ \E c \in Clients : Load(c)
  <2>1. CASE LoadAtStartup
    BY <1>1, <1>2, <2>1 DEF LoadAtStartup, metaVars, ClientTypes
  <2>2. CASE \E c \in Clients : Load(c)
    <3>1. PICK c \in Clients : Load(c)
      BY <2>2
    <3>2. wants[c] \in Models
      BY <3>1 DEF Load, ClientTypes
    <3> QED
      BY <1>1, <1>2, <3>1, <3>2 DEF Load, metaVars
  <2> QED
    BY <1>3, <2>1, <2>2
<1>4. CASE \E m \in Models : LogReady(m)
  <2>1. PICK m \in Models : LogReady(m)
    BY <1>4
  <2>2. status[m] \in {"loading", "loaded"} /\ status' = [status EXCEPT ![m] = "loaded"]
    BY <2>1 DEF LogReady, InstanceLife, Statuses
  <2> QED
    BY <2>1, <2>2 DEF LogReady
<1>5. CASE \E m \in Models : ReportExit(m)
  <2>1. PICK m \in Models : ReportExit(m)
    BY <1>5
  <2>2. /\ status[m] # "unloaded" /\ status' = [status EXCEPT ![m] = "unloaded"]
        /\ used' = RemoveFirst(used, m)
    BY <2>1 DEF ReportExit, StopperJoined, StatusIsTrue
  <2> QED
    BY <2>1, <2>2 DEF Statuses
<1>6. CASE ~(LoadAtStartup \/ \E c \in Clients : Load(c)) /\ ~\E m \in Models : LogReady(m) \/ ReportExit(m)
  BY <1>1, <1>6 DEF Next, Client, Instance, Request, UnloadLru, UnloadVictim, AwaitEviction,
       WaitUntilLoaded, CheckFinalStatus, Unload, UnloadAll, JoinedAll, ChildReady, ChildExits,
       ChildDies, SendExit, AlreadyStopped, ForceKill, ChildEnded, vars, metaVars
<1> QED
  BY <1>3, <1>4, <1>5, <1>6

LEMMA UsedStep ==
  ASSUME IInv, ClientTypes, UsedIsActive, [Next]_vars
  PROVE  UsedIsActive'
<1>1. CASE UNCHANGED <<Active, used>>
  BY <1>1 DEF UsedIsActive
<1>2. ASSUME NEW m \in Models, StartInstance(m), Active' = Active \cup {m}, m \notin Active
      PROVE  UsedIsActive'
  BY <1>2, AppendUsed DEF UsedIsActive, StartInstance
<1>3. ASSUME NEW m \in Models, m \in Active, Active' = Active \ {m}, used' = RemoveFirst(used, m)
      PROVE  UsedIsActive'
  <2>1. \E i \in 1..Len(used) : used[i] = m
    BY <1>3 DEF UsedIsActive, Range
  <2> DEFINE u == RemoveFirst(used, m)
  <2>2. /\ u \in Seq(Models) /\ IsInjective(u)
        /\ Range(u) = Range(used) \ {m}
    <3>1. used \in Seq(Models) /\ IsInjective(used)
      BY DEF UsedIsActive
    <3> QED
      BY <2>1, <3>1, RemoveFirstOfInjective
  <2> HIDE DEF u
  <2>3. used' = u
    BY <1>3 DEF u
  <2> QED
    BY <1>3, <2>2, <2>3 DEF UsedIsActive
<1> QED
  BY <1>1, <1>2, <1>3, ActiveSteps

-----------------------------------------------------------------------------
(* What is left of TypeOK.                                                  *)
OtherTypes ==
    /\ stopping \subseteq Models /\ router \in Routers /\ overlapped \in BOOLEAN
    /\ requests \in 0..MaxRequests /\ crashes \in 0..MaxCrashes

LEMMA OthersInit == Init => OtherTypes
<1>1. Init => stopping \subseteq Models /\ router \in Routers /\ overlapped \in BOOLEAN
  BY DEF Init, Routers
<1>2. Init => requests \in 0..MaxRequests /\ crashes \in 0..MaxCrashes
  BY ServerModelsAssumption DEF Init
<1> QED
  BY <1>1, <1>2 DEF OtherTypes

LEMMA OthersStep ==
  ASSUME ClientTypes, OtherTypes, [Next]_vars
  PROVE  OtherTypes'
<1> USE ServerModelsAssumption DEF OtherTypes, Routers, clientVars, routerVars
<1>1. CASE LoadAtStartup
  BY <1>1 DEF LoadAtStartup
<1>2. ASSUME NEW c \in Clients, NEW m \in Models, Request(c, m) PROVE OtherTypes'
  BY <1>2 DEF Request
<1>3. ASSUME NEW c \in Clients, UnloadVictim(c) PROVE OtherTypes'
  BY <1>3 DEF UnloadVictim, MarkStopping, ClientTypes
<1>4. ASSUME NEW c \in Clients, UnloadLru(c) \/ AwaitEviction(c) \/ Load(c) \/ WaitUntilLoaded(c)
                                \/ CheckFinalStatus(c)
      PROVE  OtherTypes'
  BY <1>4 DEF UnloadLru, AwaitEviction, Load, WaitUntilLoaded, CheckFinalStatus
<1>5. CASE UnloadAll \/ JoinedAll \/ \E m \in Models : Unload(m)
  BY <1>5 DEF UnloadAll, JoinedAll, Unload, MarkStopping, Active
<1>6. ASSUME NEW m \in Models, ChildReady(m) \/ ChildExits(m) \/ ChildDies(m) PROVE OtherTypes'
  BY <1>6 DEF ChildReady, ChildExits, ChildDies
<1>7. ASSUME NEW m \in Models, Instance(m) PROVE OtherTypes'
  BY <1>7 DEF Instance, LogReady, SendExit, AlreadyStopped, ForceKill, ChildEnded, ReportExit
<1>8. CASE UNCHANGED vars
  BY <1>8 DEF vars
<1> QED
  BY <1>1, <1>2, <1>3, <1>4, <1>5, <1>6, <1>7, <1>8 DEF Next, Client

(* Variables keep their types; the order of use, from which victims are     *)
(* taken, names each active model once and no other.                        *)
THEOREM TypeCorrect == Spec => []TypeOK
<1>1. IInv /\ UsedIsActive /\ ClientTypes /\ OtherTypes => TypeOK
  BY DEF IInv, UsedIsActive, ClientTypes, OtherTypes, TypeOK
<1> QED
  BY InstanceInit, InstanceStep, ClientsInit, ClientsStep, UsedInit, UsedStep, OthersInit, OthersStep,
     <1>1, PTL DEF Spec

-----------------------------------------------------------------------------
(* A client in load() is alone there and has room for its model, if need be *)
(* once its victim is gone; at startup there is room for all that pend.     *)
RoomFor(c) ==
    /\ clientPc[c] = "load" => Cardinality(Active) < ModelsMax
    /\ clientPc[c] \in {"unload", "evict"} => Cardinality(Active \ {victim[c]}) < ModelsMax

RoomToLoad ==
    /\ router = "startup" =>
        /\ \A c \in Clients : clientPc[c] = "idle"
        /\ Cardinality(Active \cup pending) <= ModelsMax
    /\ ModelsMax > 0 /\ ~overlapped =>
        /\ Cardinality(Active) <= ModelsMax
        /\ \A c \in Clients : RoomFor(c)
        /\ \A c, d \in Clients : InLoad(c) /\ InLoad(d) => c = d

LEMMA Fewer ==
  ASSUME NEW S \in SUBSET Models, NEW T \in SUBSET S
  PROVE  Cardinality(S) \in Nat /\ Cardinality(T) \in Nat /\ Cardinality(T) <= Cardinality(S)
<1>1. IsFiniteSet(S)
  BY FS_Subset, ServerModelsAssumption
<1> QED
  BY <1>1, FS_Subset, FS_CardinalityType

LEMMA RoomInit == Init => RoomToLoad
<1> SUFFICES ASSUME Init PROVE RoomToLoad
  OBVIOUS
<1>1. Active = {} /\ Active \cup pending = Autoload
  BY DEF Init, Active, IsActive
<1> QED
  BY <1>1, FS_EmptySet, ServerModelsAssumption DEF Init, RoomToLoad, RoomFor, InLoad

(* Where no client moves and no model starts, there is no less room.        *)
LEMMA NoLessRoom ==
  ASSUME ClientTypes, RoomToLoad, Active' \subseteq Active, UNCHANGED <<clientPc, victim, overlapped>>,
         router' = "startup" => router = "startup" /\ pending' \subseteq pending
  PROVE  RoomToLoad'
<1> Active \subseteq Models /\ pending \subseteq Models
  BY DEF Active, ClientTypes
<1>1. \A S \in SUBSET Models : \A T \in SUBSET S :
        Cardinality(S) \in Nat /\ Cardinality(T) \in Nat /\ Cardinality(T) <= Cardinality(S)
  BY Fewer
<1>2. Cardinality(Active') <= Cardinality(Active) /\ Cardinality(Active) \in Nat /\ Cardinality(Active') \in Nat
  BY <1>1
<1>3. router' = "startup" =>
        /\ Cardinality(Active' \cup pending') <= Cardinality(Active \cup pending)
        /\ Cardinality(Active \cup pending) \in Nat /\ Cardinality(Active' \cup pending') \in Nat
  BY <1>1
<1>4. \A m : /\ Cardinality(Active' \ {m}) <= Cardinality(Active \ {m})
             /\ Cardinality(Active \ {m}) \in Nat /\ Cardinality(Active' \ {m}) \in Nat
  BY <1>1
<1>5. ModelsMax \in Nat
  BY ServerModelsAssumption
<1>6. ASSUME router' = "startup"
      PROVE  (\A c \in Clients : clientPc'[c] = "idle") /\ Cardinality(Active' \cup pending') <= ModelsMax
  BY <1>3, <1>5, <1>6 DEF RoomToLoad
<1>7. ASSUME ModelsMax > 0, ~overlapped'
      PROVE  /\ Cardinality(Active') <= ModelsMax
             /\ \A c, d \in Clients : InLoad(c)' /\ InLoad(d)' => c = d
  BY <1>2, <1>5, <1>7 DEF RoomToLoad, InLoad
<1>8. ASSUME ModelsMax > 0, ~overlapped', NEW c \in Clients
      PROVE  RoomFor(c)'
  <2>1. RoomFor(c) /\ clientPc'[c] = clientPc[c] /\ victim'[c] = victim[c]
    BY <1>8 DEF RoomToLoad
  <2>2. clientPc[c] = "load" => Cardinality(Active') < ModelsMax
    BY <1>2, <1>5, <2>1 DEF RoomFor
  <2>3. clientPc[c] \in {"unload", "evict"} => Cardinality(Active' \ {victim[c]}) < ModelsMax
    <3> DEFINE m == victim[c]
    <3>1. /\ Cardinality(Active' \ {m}) <= Cardinality(Active \ {m})
          /\ Cardinality(Active \ {m}) \in Nat /\ Cardinality(Active' \ {m}) \in Nat
      BY <1>4
    <3> QED
      BY <3>1, <1>5, <2>1 DEF RoomFor
  <2> QED
    BY <2>1, <2>2, <2>3 DEF RoomFor
<1> QED
  BY <1>6, <1>7, <1>8 DEF RoomToLoad

(* A client c moves, and no model starts.                                   *)
LEMMA OneClientMoves ==
  ASSUME ClientTypes, RoomToLoad, UNCHANGED <<status, router>>, router # "startup",
         NEW c \in Clients, clientPc' = [clientPc EXCEPT ![c] = clientPc'[c]],
         victim' = [victim EXCEPT ![c] = victim'[c]], overlapped => overlapped',
         ModelsMax > 0 /\ ~overlapped' =>
            /\ RoomFor(c)'
            /\ InLoad(c)' => InLoad(c) \/ \A d \in Clients \ {c} : ~InLoad(d)
  PROVE  RoomToLoad'
<1>1. Active' = Active
  BY DEF Active, IsActive
<1>2. \A d \in Clients \ {c} : clientPc'[d] = clientPc[d] /\ victim'[d] = victim[d]
  BY DEF ClientTypes
<1>3. ASSUME ModelsMax > 0, ~overlapped', NEW d \in Clients
      PROVE  RoomFor(d)'
  BY <1>1, <1>2, <1>3 DEF RoomToLoad, RoomFor
<1>4. ASSUME ModelsMax > 0, ~overlapped', NEW d \in Clients, NEW e \in Clients, InLoad(d)', InLoad(e)'
      PROVE  d = e
  <2>1. \A f \in Clients \ {c} : InLoad(f)' <=> InLoad(f)
    BY <1>2 DEF InLoad
  <2> QED
    BY <1>4, <2>1 DEF RoomToLoad
<1> QED
  BY <1>1, <1>3, <1>4 DEF RoomToLoad

LEMMA RoomStep ==
  ASSUME IInv, ClientTypes, UsedIsActive, RoomToLoad, [Next]_vars
  PROVE  RoomToLoad'
<1> Active \subseteq Models /\ IsFiniteSet(Active) /\ Cardinality(Active) \in Nat /\ ModelsMax \in Nat
  <2>1. Active \subseteq Models
    BY DEF Active
  <2> QED
    BY <2>1, FS_Subset, FS_CardinalityType, ServerModelsAssumption
<1>1. CASE LoadAtStartup
  <2>1. ASSUME NEW m \in pending, StartInstance(m), pending' = pending \ {m}, UNCHANGED router
        PROVE  RoomToLoad'
    <3>1. m \in Models
      BY <2>1 DEF ClientTypes
    <3>2. Active' = Active \cup {m}
      BY <2>1, <3>1 DEF StartInstance, Active, IsActive, IInv, InstanceTypes
    <3>3. Active' \cup pending' = Active \cup pending /\ Active' \subseteq Active \cup pending
      BY <2>1, <3>2
    <3>4. /\ Cardinality(Active') <= Cardinality(Active \cup pending)
          /\ Cardinality(Active') \in Nat /\ Cardinality(Active \cup pending) \in Nat
      BY <3>3, Fewer DEF ClientTypes
    <3> QED
      BY <1>1, <2>1, <3>3, <3>4 DEF LoadAtStartup, clientVars, RoomToLoad, RoomFor, InLoad
  <2>2. ASSUME router' = "serving", UNCHANGED <<metaVars, clientVars>> PROVE RoomToLoad'
    BY <2>2, NoLessRoom DEF metaVars, clientVars, Active, IsActive
  <2> QED
    BY <1>1, <2>1, <2>2 DEF LoadAtStartup
<1>2. ASSUME NEW c \in Clients, NEW m \in Models, Request(c, m) PROVE RoomToLoad'
  BY <1>2, OneClientMoves DEF Request, Go, routerVars, metaVars, RoomFor, InLoad, ClientTypes
<1>3. ASSUME NEW c \in Clients, clientPc[c] # "idle" PROVE router # "startup"
  BY <1>3 DEF RoomToLoad
<1>4. ASSUME NEW c \in Clients, UnloadLru(c) PROVE RoomToLoad'
  <2>1. ASSUME AtLimit, ModelsMax > 0, ~overlapped' PROVE RoomFor(c)'
    <3>1. Active # {}
      BY <2>1, FS_EmptySet DEF AtLimit
    <3>2. LruModel \in Active
      BY <3>1 DEF UsedIsActive, LruModel, Range
    <3>3. Cardinality(Active \ {LruModel}) < ModelsMax
      <4>1. Cardinality(Active \ {LruModel}) = Cardinality(Active) - 1
        BY <3>2, FS_RemoveElement
      <4>2. Cardinality(Active) <= ModelsMax
        BY <1>4, <2>1 DEF UnloadLru, RoomToLoad
      <4> QED
        BY <4>1, <4>2
    <3>4. clientPc'[c] = "unload" /\ victim'[c] = LruModel /\ Active' = Active
      BY <1>4, <2>1 DEF UnloadLru, Go, ClientTypes, metaVars, Active, IsActive
    <3> QED
      BY <3>3, <3>4 DEF RoomFor
  <2>2. ASSUME ~AtLimit, ModelsMax > 0 PROVE RoomFor(c)'
    BY <1>4, <2>2 DEF UnloadLru, AtLimit, Go, ClientTypes, metaVars, Active, IsActive, RoomFor
  <2>3. ~overlapped' => \A d \in Clients \ {c} : ~InLoad(d)
    BY <1>4 DEF UnloadLru
  <2>4. /\ clientPc' = [clientPc EXCEPT ![c] = clientPc'[c]]
        /\ victim' = [victim EXCEPT ![c] = victim'[c]]
    BY <1>4 DEF UnloadLru, Go, ClientTypes
  <2> QED
    BY <1>3, <1>4, <2>1, <2>2, <2>3, <2>4, OneClientMoves DEF UnloadLru, metaVars, routerVars
<1>5. ASSUME NEW c \in Clients, UnloadVictim(c) PROVE RoomToLoad'
  BY <1>3, <1>5, OneClientMoves
     DEF UnloadVictim, Go, metaVars, routerVars, ClientTypes, RoomToLoad, RoomFor, InLoad, Active, IsActive
<1>6. ASSUME NEW c \in Clients, AwaitEviction(c) PROVE RoomToLoad'
  <2>1. Active \ {victim[c]} = Active /\ Active' = Active
    BY <1>6 DEF AwaitEviction, EvictionDone, Active, IsActive, metaVars
  <2>2. ASSUME ModelsMax > 0, ~overlapped' PROVE RoomFor(c)'
    BY <1>6, <2>1, <2>2 DEF AwaitEviction, EvictionDone, Go, RoomToLoad, RoomFor, ClientTypes
  <2> QED
    BY <1>3, <1>6, <2>2, OneClientMoves
       DEF AwaitEviction, EvictionDone, Go, metaVars, routerVars, ClientTypes, InLoad
<1>7. ASSUME NEW c \in Clients, Load(c) PROVE RoomToLoad'
  <2>1. CASE UNCHANGED status
    BY <1>3, <1>7, <2>1, OneClientMoves
       DEF Load, Leave, Go, metaVars, routerVars, ClientTypes, RoomFor, InLoad
  <2>2. ASSUME StartInstance(wants[c]), Go(c, "wait") PROVE RoomToLoad'
    <3>1. wants[c] \in Models
      BY <1>7 DEF Load, ClientTypes
    <3>2. Active' = Active \cup {wants[c]}
      BY <2>2, <3>1 DEF StartInstance, Active, IsActive, IInv, InstanceTypes
    <3>3. Cardinality(Active') <= Cardinality(Active) + 1 /\ Cardinality(Active') \in Nat
      <4>1. LET S == Active \cup {wants[c]}
            IN  Cardinality(S) = Cardinality(Active) \/ Cardinality(S) = Cardinality(Active) + 1
        <5> HIDE DEF Active
        <5> QED
          BY FS_AddElement
      <4> HIDE DEF Active
      <4> QED
        BY <3>2, <4>1
    <3>4. ASSUME ModelsMax > 0, ~overlapped PROVE Cardinality(Active') <= ModelsMax
      <4>1. clientPc[c] = "load" /\ RoomFor(c)
        BY <1>7, <3>4 DEF Load, RoomToLoad
      <4>2. Cardinality(Active) < ModelsMax
        BY <4>1 DEF RoomFor
      <4> HIDE DEF Active
      <4> QED
        BY <3>3, <4>2
    <3>5. ASSUME ModelsMax > 0, ~overlapped, NEW d \in Clients PROVE ~InLoad(d)' /\ RoomFor(d)'
      <4>1. d # c => ~InLoad(d)
        BY <1>7, <3>5 DEF Load, RoomToLoad, InLoad
      <4>2. ~InLoad(d)'
        BY <2>2, <4>1 DEF Go, InLoad, ClientTypes
      <4> QED
        BY <4>2 DEF RoomFor, InLoad
    <3> QED
      BY <1>3, <1>7, <3>4, <3>5 DEF Load, routerVars, RoomToLoad
  <2> QED
    BY <1>7, <2>1, <2>2 DEF Load, metaVars
<1>8. ASSUME NEW c \in Clients, WaitUntilLoaded(c) \/ CheckFinalStatus(c) PROVE RoomToLoad'
  <2>1. /\ clientPc' = [clientPc EXCEPT ![c] = clientPc'[c]] /\ UNCHANGED victim
        /\ clientPc'[c] \in {"idle", "check"} /\ clientPc[c] # "idle"
        /\ UNCHANGED <<status, router, overlapped>>
    BY <1>8 DEF WaitUntilLoaded, CheckFinalStatus, Leave, Go, metaVars, routerVars, ClientTypes
  <2>2. victim' = [victim EXCEPT ![c] = victim'[c]] /\ RoomFor(c)' /\ ~InLoad(c)'
    BY <2>1 DEF ClientTypes, RoomFor, InLoad
  <2> QED
    BY <1>3, <2>1, <2>2, OneClientMoves
<1>9. ASSUME \/ \E m \in Models : \/ Unload(m) \/ Instance(m)
                                  \/ ChildReady(m) \/ ChildExits(m) \/ ChildDies(m)
             \/ UnloadAll \/ JoinedAll \/ UNCHANGED vars
      PROVE  RoomToLoad'
  <2>1. Active' \subseteq Active
    <3>1. \A m \in Models : monitor[m] = "off" => monitor'[m] # "watch"
      BY <1>9 DEF Unload, Instance, ChildReady, ChildExits, ChildDies, UnloadAll, JoinedAll, vars,
         LogReady, SendExit, AlreadyStopped, ForceKill, ChildEnded, ReportExit, instanceVars,
         IInv, InstanceTypes
    <3>2. \A m \in Models : ~StartInstance(m)
      BY <3>1 DEF StartInstance, IInv, InstanceTypes
    <3> QED
      BY <3>2, ActiveSteps
  <2>2. /\ UNCHANGED <<clientPc, victim, overlapped>>
        /\ router' = "startup" => router = "startup" /\ pending' \subseteq pending
    BY <1>9 DEF Unload, Instance, ChildReady, ChildExits, ChildDies, UnloadAll, JoinedAll, vars,
       LogReady, SendExit, AlreadyStopped, ForceKill, ChildEnded, ReportExit, clientVars, routerVars
  <2> QED
    BY <2>1, <2>2, NoLessRoom
<1> QED
  BY <1>1, <1>2, <1>4, <1>5, <1>6, <1>7, <1>8, <1>9 DEF Next, Client

(* At most models_max models are active as long as no two threads have been *)
(* in load() at once, for any models, clients and limit: also while victims *)
(* stop, children die and models are unloaded by request.                   *)
THEOREM LimitAlwaysKept == Spec => []LimitKept
<1>1. RoomToLoad => LimitKept
  BY DEF RoomToLoad, LimitKept
<1> QED
  BY InstanceInit, InstanceStep, ClientsInit, ClientsStep, UsedInit, UsedStep, RoomInit, RoomStep,
     <1>1, PTL DEF Spec
=============================================================================
