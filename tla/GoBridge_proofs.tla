--------------------------- MODULE GoBridge_proofs ---------------------------
(***************************************************************************)
(* What GoBridge says of the life of the core and of the answers holds for *)
(* any number of requests and any number of streamed results.              *)
(***************************************************************************)
EXTENDS GoBridge, TLAPS, SequenceTheorems

(* The core is up for as long as Server::running says so, and the service   *)
(* listens only then: Stop alone takes running back, and it closes first.   *)
CoreUp == running => core = "ready" \/ (core = "loop" /\ loopOn)
UpWhileListening == service \in {"listening", "serving"} => running
NotStarted == service = "off" => core = "off" /\ ~running
LifeInv == CoreUp /\ UpWhileListening /\ NotStarted

LEMMA LifeInit == Init => LifeInv
  BY DEF Init, LifeInv, CoreUp, UpWhileListening, NotStarted

(* The handlers, their goroutines and the results never touch the life of   *)
(* the core.                                                                *)
LEMMA RequestsKeepLife ==
  ASSUME NEW h \in Handlers,
         \/ \E stream \in BOOLEAN : Accept(h, stream)
         \/ Disconnect(h) \/ SendResult(h) \/ HandlerStep(h) \/ GoroutineStep(h)
  PROVE  UNCHANGED lifecycle
  BY DEF Accept, Disconnect, SendResult, HandlerStep, GoroutineStep, CheckClient, SeeClosed, Call,
         NextChunk, PushToChan, Deliver, CloseChan

LEMMA LifeStep == LifeInv /\ [Next]_vars => LifeInv'
<1> SUFFICES ASSUME LifeInv, [Next]_vars PROVE LifeInv'
  OBVIOUS
<1> USE DEF LifeInv, CoreUp, UpWhileListening, NotStarted
<1>1. CASE Start
  BY <1>1 DEF Start
<1>2. CASE PollReady
  BY <1>2 DEF PollReady, IsReady
<1>3. CASE PollFails \/ Listen \/ Interrupt
  BY <1>3 DEF PollFails, Listen, Interrupt
<1>4. CASE Stop
  <2>1. service' = "stopped" /\ core' = core
    BY <1>4 DEF Stop
  <2>2. CASE runnerOn /\ running
    BY <1>4, <2>1, <2>2 DEF Stop
  <2>3. CASE ~(runnerOn /\ running)
    BY <1>4, <2>1, <2>3 DEF Stop
  <2> QED
    BY <2>2, <2>3
<1>5. CASE LoadModel
  BY <1>5 DEF LoadModel
<1>6. CASE StartLoop \/ EndLoop
  BY <1>6 DEF StartLoop, EndLoop
<1>7. CASE CleanUp
  BY <1>7 DEF CleanUp
<1>8. CASE \E h \in Handlers :
             \/ \E stream \in BOOLEAN : Accept(h, stream)
             \/ Disconnect(h) \/ SendResult(h) \/ HandlerStep(h) \/ GoroutineStep(h)
  <2>1. UNCHANGED lifecycle
    BY <1>8, RequestsKeepLife
  <2> QED
    BY <2>1 DEF lifecycle
<1>9. CASE UNCHANGED vars
  BY <1>9 DEF vars, lifecycle
<1> QED
  BY <1>1, <1>2, <1>3, <1>4, <1>5, <1>6, <1>7, <1>8, <1>9 DEF Next, CoreStep

(* Requests are accepted only while the core is loaded and runs: the        *)
(* service listens after IsLlamaRunning and closes before LlamaStop.        *)
THEOREM ServesOnlyLoaded == Spec => []ServesLoaded
<1>1. LifeInv => ServesLoaded
  BY DEF LifeInv, CoreUp, UpWhileListening, ServesLoaded
<1> QED
  BY <1>1, LifeInit, LifeStep, PTL DEF Spec

-----------------------------------------------------------------------------
(* The answers                                                              *)

Chunk == Error..Whole
Request ==
    [handler : {"idle", "top", "reading", "done", "left"},
     goroutine : {"none", "called", "refused", "next", "push", "send", "close", "returned"},
     stream : BOOLEAN, gone : BOOLEAN, id : Nat, posted : BOOLEAN, due : Seq(Chunk),
     sent : 0..Results, taken : 0..Results, hand : Chunk, to : SUBSET Handlers, got : Seq(Chunk)]

(* The results due to a request q continue those its goroutine has taken; an *)
(* error is the last of them.                                               *)
LimitOf(q) == IF q.stream THEN Results ELSE 1
DueContinues(q) ==
    /\ q.taken + Len(q.due) <= q.sent /\ q.sent <= LimitOf(q)
    /\ q.sent = q.taken + Len(q.due) \/ q.sent = LimitOf(q)
    /\ \A i \in 1..Len(q.due) :
        IF q.due[i] = Error THEN i = Len(q.due) /\ q.sent = LimitOf(q)
        ELSE q.due[i] = IF q.stream THEN q.taken + i ELSE Whole

(* What the handler got, by the place of the goroutine: the chunks taken;   *)
(* all but the one in hand; or a whole answer.                              *)
Numbered(s, n) == \A i \in 1..n : s[i] = i
GotUpto(q) ==
    /\ q.goroutine \in {"none", "called", "refused"} =>
        q.got = <<>> /\ q.due = <<>> /\ q.sent = 0 /\ q.taken = 0 /\ ~q.posted
    /\ q.goroutine = "next" => Len(q.got) = q.taken /\ Numbered(q.got, q.taken)
    /\ q.goroutine \in {"next", "push", "send"} /\ ~q.stream => q.got = <<>>
    /\ q.goroutine \in {"push", "send"} =>
        IF ~q.stream THEN q.hand \in {Error, Whole}
        ELSE /\ Numbered(q.got, Len(q.got))
             /\ \/ q.hand = Done /\ Len(q.got) = Results
                \/ q.hand = Error /\ Len(q.got) < Results
                \/ q.hand = Len(q.got) + 1 /\ q.hand = q.taken
Complete(q) ==
    IF ~q.stream THEN Len(q.got) = 1 /\ q.got[1] \in {Error, Whole}
    ELSE /\ Len(q.got) >= 1 /\ Numbered(q.got, Len(q.got) - 1)
         /\ \/ q.got[Len(q.got)] = Error /\ Len(q.got) <= Results
            \/ q.got[Len(q.got)] = Done /\ Len(q.got) = Results + 1
GotComplete(q) == q.goroutine \in {"close", "returned"} => Complete(q)

(* The handler's part: it starts and ends with its goroutine.               *)
Paired(q) == q.handler = "idle" <=> q.goroutine = "none"
Good(q) == q \in Request /\ DueContinues(q) /\ GotUpto(q) /\ GotComplete(q) /\ Paired(q)

(* The channel of a request: in the map until its goroutine closes it.      *)
Channel(h) ==
    /\ req[h].goroutine \in {"called", "refused", "next", "push", "send", "close"} =>
        req[h].id \in DOMAIN channels /\ channels[req[h].id] = h
    /\ h \in closed => req[h].goroutine = "returned"
    /\ req[h].handler = "done" => h \in closed
    /\ req[h].goroutine = "send" => req[h].to = {h}

LifeTypes ==
    /\ service \in {"off", "polling", "listening", "serving", "closing", "stopped"}
    /\ core \in {"off", "loading", "ready", "loop", "unloading", "ended", "failed"}
    /\ {runnerOn, running, loopOn} \subseteq BOOLEAN
MapTypes ==
    /\ nextChanID \in Nat \ {0} /\ closed \subseteq Handlers
    /\ \A id \in DOMAIN channels : id \in 1..(nextChanID - 1) /\ channels[id] \in Handlers
Requests == DOMAIN req = Handlers /\ \A h \in Handlers : Good(req[h]) /\ Channel(h)
Inv == LifeTypes /\ MapTypes /\ Requests

-----------------------------------------------------------------------------
LEMMA InitInv == Init => Inv
<1> SUFFICES ASSUME Init PROVE Inv
  OBVIOUS
<1>1. LifeTypes
  BY DEF Init, LifeTypes
<1>2. MapTypes
  BY DEF Init, MapTypes
<1>3. Error \in Chunk /\ Len(<<>>) = 0 /\ 1..0 = {} /\ <<>> \in Seq(Chunk)
  BY ResultsAssumption DEF Error, Whole, Chunk
<1>4. Good(NoRequest)
  <2>1. NoRequest \in Request
    BY <1>3, ResultsAssumption DEF NoRequest, Request
  <2>2. DueContinues(NoRequest)
    BY <1>3 DEF NoRequest, DueContinues, LimitOf
  <2>3. GotUpto(NoRequest) /\ GotComplete(NoRequest) /\ Paired(NoRequest)
    BY DEF NoRequest, GotUpto, GotComplete, Paired
  <2> QED
    BY <2>1, <2>2, <2>3 DEF Good
<1>5. Requests
  BY <1>4 DEF Init, Requests, Channel, NoRequest
<1> QED
  BY <1>1, <1>2, <1>5 DEF Inv

(* A step of one request leaves those of the others alone.                  *)
LEMMA OneRequest ==
  ASSUME Inv, NEW h \in Handlers, NEW q, req' = [req EXCEPT ![h] = q],
         Good(q), Channel(h)', LifeTypes', MapTypes', closed \subseteq closed',
         \A x \in Handlers : x # h => /\ (x \in closed' <=> x \in closed)
                                   /\ \A id \in DOMAIN channels : channels[id] = x =>
                                        id \in DOMAIN channels' /\ channels'[id] = x
  PROVE  Inv'
<1>1. /\ DOMAIN req' = Handlers /\ req'[h] = q
      /\ \A x \in Handlers : x # h => req'[x] = req[x]
  BY DEF Inv, Requests
<1>2. ASSUME NEW x \in Handlers, x # h PROVE Good(req'[x]) /\ Channel(x)'
  BY <1>1, <1>2 DEF Inv, Requests, Channel
<1>3. Requests'
  BY <1>1, <1>2 DEF Requests
<1> QED
  BY <1>3 DEF Inv

LEMMA SameDue ==
  ASSUME NEW p, NEW q, p.stream = q.stream, p.due = q.due, p.sent = q.sent, p.taken = q.taken,
         DueContinues(q)
  PROVE  DueContinues(p)
<1>1. LimitOf(p) = LimitOf(q) /\ Len(p.due) = Len(q.due)
  BY DEF LimitOf
<1>2. /\ p.taken + Len(p.due) <= p.sent /\ p.sent <= LimitOf(p)
      /\ p.sent = p.taken + Len(p.due) \/ p.sent = LimitOf(p)
  BY <1>1 DEF DueContinues
<1>3. ASSUME NEW i \in 1..Len(p.due)
      PROVE  IF p.due[i] = Error THEN i = Len(p.due) /\ p.sent = LimitOf(p)
             ELSE p.due[i] = IF p.stream THEN p.taken + i ELSE Whole
  BY <1>1 DEF DueContinues
<1> QED
  BY <1>2, <1>3 DEF DueContinues

(* The handler and its client move: nothing of the answer changes.          *)
LEMMA GoodMoves ==
  ASSUME NEW q, Good(q), NEW a \in {"top", "reading", "done", "left"}, NEW b \in BOOLEAN,
         q.handler # "idle"
  PROVE  Good([q EXCEPT !.handler = a]) /\ Good([q EXCEPT !.gone = b])
<1> USE DEF Good, Request
<1>1. /\ [q EXCEPT !.handler = a] \in Request /\ [q EXCEPT !.gone = b] \in Request
  OBVIOUS
<1>2. ASSUME NEW p \in Request, p = [q EXCEPT !.handler = a] \/ p = [q EXCEPT !.gone = b]
      PROVE  /\ p.goroutine = q.goroutine /\ p.stream = q.stream /\ p.posted = q.posted
             /\ p.due = q.due /\ p.sent = q.sent /\ p.taken = q.taken /\ p.hand = q.hand
             /\ p.got = q.got /\ p.handler # "idle"
  BY <1>2
<1>3. ASSUME NEW p \in Request, p = [q EXCEPT !.handler = a] \/ p = [q EXCEPT !.gone = b]
      PROVE  DueContinues(p) /\ GotUpto(p) /\ GotComplete(p) /\ Paired(p)
  <2>1. DueContinues(p)
    <3>1. DueContinues(q)
      OBVIOUS
    <3> HIDE DEF Good, Request
    <3> QED
      BY <1>2, <1>3, <3>1, SameDue
  <2>2. GotUpto(p)
    BY <1>2, <1>3 DEF GotUpto
  <2>3. GotComplete(p) /\ Paired(p)
    BY <1>2, <1>3 DEF GotComplete, Complete, Paired
  <2> QED
    BY <2>1, <2>2, <2>3
<1> QED
  BY <1>1, <1>3

LEMMA HandlerMoves ==
  ASSUME Inv, NEW h \in Handlers, Disconnect(h) \/ HandlerStep(h)
  PROVE  Inv'
<1> DEFINE q == req[h]
<1>1. Good(q) /\ Channel(h) /\ DOMAIN req = Handlers
  BY DEF Inv, Requests
<1>2. /\ UNCHANGED <<lifecycle, bridge>> /\ q.handler # "idle"
      /\ \/ \E a \in {"top", "reading", "done", "left"} :
              req' = [req EXCEPT ![h].handler = a] /\ (a = "done" => h \in closed)
         \/ req' = [req EXCEPT ![h].gone = TRUE] /\ q.handler # "done"
  <2>1. CASE Disconnect(h)
    BY <2>1 DEF Disconnect
  <2>2. CASE CheckClient(h)
    BY <2>2 DEF CheckClient, LeaveChannel, bridge
  <2>3. CASE SeeClosed(h)
    BY <2>3 DEF SeeClosed
  <2> QED
    BY <2>1, <2>2, <2>3 DEF HandlerStep
<1>3. LifeTypes' /\ MapTypes'
  BY <1>2 DEF Inv, LifeTypes, MapTypes, lifecycle, bridge
<1>4. CASE \E a \in {"top", "reading", "done", "left"} :
              req' = [req EXCEPT ![h].handler = a] /\ (a = "done" => h \in closed)
  <2>1. PICK a \in {"top", "reading", "done", "left"} :
          req' = [req EXCEPT ![h] = [q EXCEPT !.handler = a]] /\ (a = "done" => h \in closed)
    BY <1>4
  <2>2. Good([q EXCEPT !.handler = a])
    BY <1>1, <1>2, GoodMoves
  <2>3. /\ req'[h].goroutine = q.goroutine /\ req'[h].id = q.id /\ req'[h].to = q.to
        /\ req'[h].handler = a
    BY <1>1, <2>1 DEF Good, Request
  <2>4. Channel(h)'
    BY <1>1, <1>2, <2>1, <2>3 DEF Channel, bridge
  <2> HIDE DEF q
  <2> QED
    BY <1>2, <1>3, <2>1, <2>2, <2>4, OneRequest DEF bridge
<1>5. CASE req' = [req EXCEPT ![h].gone = TRUE]
  <2>1. req' = [req EXCEPT ![h] = [q EXCEPT !.gone = TRUE]]
    BY <1>5
  <2>2. Good([q EXCEPT !.gone = TRUE])
    BY <1>1, <1>2, GoodMoves
  <2>3. /\ req'[h].goroutine = q.goroutine /\ req'[h].id = q.id /\ req'[h].to = q.to
        /\ req'[h].handler = q.handler
    BY <1>1, <2>1 DEF Good, Request
  <2>4. Channel(h)'
    BY <1>1, <1>2, <2>3 DEF Channel, bridge
  <2> HIDE DEF q
  <2> QED
    BY <1>2, <1>3, <2>1, <2>2, <2>4, OneRequest DEF bridge
<1> QED
  BY <1>2, <1>4, <1>5

LEMMA AcceptStep ==
  ASSUME Inv, NEW h \in Handlers, NEW stream \in BOOLEAN, Accept(h, stream)
  PROVE  Inv'
<1> DEFINE q == req[h]
           p == [q EXCEPT !.handler = IF stream THEN "top" ELSE "reading",
                          !.goroutine = "called", !.stream = stream, !.id = nextChanID]
<1>1. Good(q) /\ Channel(h) /\ DOMAIN req = Handlers
  BY DEF Inv, Requests
<1>2. q.handler = "idle" /\ UNCHANGED <<closed, lifecycle>> /\ nextChanID' = nextChanID + 1
  BY DEF Accept, TakeId
<1>3. req' = [req EXCEPT ![h] = p]
  BY DEF Accept
<1>4. channels' = [id \in DOMAIN channels \cup {nextChanID} |->
                      IF id = nextChanID THEN h ELSE channels[id]]
  BY DEF Accept
<1>5. /\ DOMAIN channels' = DOMAIN channels \cup {nextChanID} /\ channels'[nextChanID] = h
      /\ \A id \in DOMAIN channels : id # nextChanID /\ channels'[id] = channels[id]
      /\ nextChanID \in Nat \ {0}
  BY <1>4 DEF Inv, MapTypes
<1>6. LifeTypes'
  BY <1>2 DEF Inv, LifeTypes, lifecycle
<1>7. MapTypes'
  BY <1>2, <1>5 DEF Inv, MapTypes
<1>8. /\ q.goroutine = "none" /\ q.got = <<>> /\ q.due = <<>> /\ q.sent = 0 /\ q.taken = 0
      /\ ~q.posted /\ q \in Request
  BY <1>1, <1>2 DEF Good, Paired, GotUpto
<1>9. /\ p \in Request /\ p.goroutine = "called" /\ p.got = <<>> /\ p.due = <<>> /\ p.sent = 0
      /\ p.taken = 0 /\ ~p.posted /\ p.handler \in {"top", "reading"} /\ p.id = nextChanID
      /\ p.stream = stream
  BY <1>5, <1>8 DEF Request
<1> HIDE DEF p
<1>10. Good(p)
  <2>1. DueContinues(p)
    <3>1. Len(p.due) = 0 /\ LimitOf(p) \in Nat \ {0}
      BY <1>9, ResultsAssumption DEF LimitOf
    <3> QED
      BY <1>9, <3>1 DEF DueContinues
  <2> QED
    BY <1>9, <2>1 DEF Good, GotUpto, GotComplete, Paired
<1>11. Channel(h)'
  <2>1. req'[h] = p
    BY <1>1, <1>3
  <2>2. h \notin closed
    BY <1>1, <1>8 DEF Channel
  <2> QED
    BY <1>2, <1>5, <1>9, <2>1, <2>2 DEF Channel
<1> QED
  BY <1>2, <1>3, <1>5, <1>6, <1>7, <1>10, <1>11, OneRequest

(* Server.Close drops the connections of all requests at once.              *)
LEMMA InterruptStep ==
  ASSUME Inv, Interrupt
  PROVE  Inv'
<1>1. /\ service' = "closing" /\ UNCHANGED <<runnerOn, core, running, loopOn, channels, nextChanID, closed>>
      /\ req' = [h \in Handlers |-> [req[h] EXCEPT !.gone = req[h].handler # "idle"]]
  BY DEF Interrupt, bridge
<1>2. LifeTypes' /\ MapTypes'
  BY <1>1 DEF Inv, LifeTypes, MapTypes
<1>3. DOMAIN req' = Handlers
  BY <1>1
<1>4. ASSUME NEW h \in Handlers PROVE Good(req'[h]) /\ Channel(h)'
  <2>1. Good(req[h]) /\ Channel(h) /\ req[h] \in Request
    BY DEF Inv, Requests, Good
  <2>2. req'[h] = [req[h] EXCEPT !.gone = req[h].handler # "idle"]
    BY <1>1
  <2>3. /\ req'[h].goroutine = req[h].goroutine /\ req'[h].id = req[h].id /\ req'[h].to = req[h].to
        /\ req'[h].handler = req[h].handler
    BY <2>1, <2>2 DEF Request
  <2>4. Channel(h)'
    BY <1>1, <2>1, <2>3 DEF Channel
  <2>5. CASE req[h].handler # "idle"
    <3>1. (req[h].handler # "idle") = TRUE /\ TRUE \in BOOLEAN
      BY <2>5
    <3>2. Good([req[h] EXCEPT !.gone = TRUE])
      BY <2>1, <2>5, GoodMoves
    <3> QED
      BY <2>2, <2>4, <3>1, <3>2
  <2>6. CASE req[h].handler = "idle"
    <3>1. req'[h] \in Request
      BY <2>1, <2>2, <2>6 DEF Request
    <3>2. /\ req[h].goroutine = "none" /\ req[h].got = <<>> /\ req[h].due = <<>>
          /\ req[h].sent = 0 /\ req[h].taken = 0 /\ ~req[h].posted
      BY <2>1, <2>6 DEF Good, Paired, GotUpto
    <3>3. /\ req'[h].goroutine = "none" /\ req'[h].got = <<>> /\ req'[h].due = <<>>
          /\ req'[h].sent = 0 /\ req'[h].taken = 0 /\ ~req'[h].posted
      BY <2>1, <2>2, <3>2 DEF Request
    <3>4. Len(req'[h].due) = 0 /\ LimitOf(req'[h]) \in Nat \ {0}
      BY <3>3, ResultsAssumption DEF LimitOf
    <3>5. DueContinues(req'[h])
      BY <3>3, <3>4 DEF DueContinues
    <3> QED
      BY <2>3, <2>4, <2>6, <3>1, <3>3, <3>5 DEF Good, GotUpto, GotComplete, Paired
  <2> QED
    BY <2>5, <2>6
<1>5. Requests'
  BY <1>3, <1>4 DEF Requests
<1> QED
  BY <1>2, <1>5 DEF Inv

(* A step of the loop or of the goroutine that leaves the channels alone.   *)
LEMMA GoroutineMoves ==
  ASSUME Inv, NEW h \in Handlers, NEW q, req' = [req EXCEPT ![h] = q], Good(q),
         UNCHANGED <<lifecycle, bridge>>, q.id = req[h].id, q.handler \in {req[h].handler, "top", "left", "reading"},
         q.goroutine # "none", q.goroutine # req[h].goroutine => h \notin closed,
         q.goroutine = req[h].goroutine \/
            req[h].goroutine \in {"called", "refused", "next", "push", "send", "close"},
         q.goroutine = "send" => q.to = {h}
  PROVE  Inv'
<1>1. DOMAIN req = Handlers /\ Channel(h) /\ req'[h] = q
  BY DEF Inv, Requests
<1>2. LifeTypes' /\ MapTypes'
  BY DEF Inv, LifeTypes, MapTypes, lifecycle, bridge
<1>3. Channel(h)'
  BY <1>1 DEF Channel, bridge
<1> QED
  BY <1>2, <1>3, OneRequest DEF bridge

LEMMA SendResultStep ==
  ASSUME Inv, NEW h \in Handlers, SendResult(h)
  PROVE  Inv'
<1> DEFINE q == req[h]
           L == Len(q.due)
<1>1. Good(q) /\ Channel(h) /\ q \in Request
  BY DEF Inv, Requests, Good
<1>2. q.posted /\ q.sent < LimitOf(q) /\ UNCHANGED <<lifecycle, bridge>>
  BY DEF SendResult, Limit, LimitOf
<1>3. PICK x, n :
        /\ \/ n = q.sent + 1 /\ x = IF q.stream THEN q.sent + 1 ELSE Whole
           \/ n = LimitOf(q) /\ x = Error
        /\ req' = [req EXCEPT ![h].sent = n, ![h].due = Append(q.due, x)]
  BY DEF SendResult, Limit, LimitOf
<1> DEFINE p == [q EXCEPT !.sent = n, !.due = Append(q.due, x)]
<1>4. req' = [req EXCEPT ![h] = p]
  BY <1>3
<1>5. /\ q.sent \in Nat /\ q.taken \in Nat /\ q.due \in Seq(Chunk) /\ L \in Nat
      /\ LimitOf(q) \in Nat /\ LimitOf(q) <= Results /\ Results \in Nat
  BY <1>1, LenProperties, ResultsAssumption DEF Request, LimitOf
(* No error was due yet, and nothing is missing.                            *)
<1>6. /\ q.sent = q.taken + L
      /\ \A i \in 1..L : q.due[i] # Error /\ q.due[i] = IF q.stream THEN q.taken + i ELSE Whole
  <2>1. DueContinues(q) /\ q.sent # LimitOf(q)
    BY <1>1, <1>2, <1>5 DEF Good
  <2> QED
    BY <2>1 DEF DueContinues
<1>7. n \in 0..Results /\ x \in Chunk /\ n <= LimitOf(q) /\ q.sent + 1 <= n
  <2>1. q.sent + 1 <= LimitOf(q)
    BY <1>2, <1>5
  <2> QED
    BY <1>3, <1>5, <2>1 DEF Chunk, Error, Whole
<1>8. /\ Append(q.due, x) \in Seq(Chunk) /\ Len(Append(q.due, x)) = L + 1
      /\ \A i \in 1..L : Append(q.due, x)[i] = q.due[i]
      /\ Append(q.due, x)[L + 1] = x
  BY <1>5, <1>7, AppendProperties
<1>9. /\ p \in Request /\ p.sent = n /\ p.due = Append(q.due, x)
      /\ p.handler = q.handler /\ p.goroutine = q.goroutine /\ p.stream = q.stream
      /\ p.posted = q.posted /\ p.id = q.id
      /\ p.taken = q.taken /\ p.hand = q.hand /\ p.to = q.to /\ p.got = q.got
  BY <1>1, <1>7, <1>8 DEF Request
<1> HIDE DEF p, L
<1>10. LimitOf(p) = LimitOf(q) /\ Len(p.due) = L + 1
  BY <1>8, <1>9 DEF LimitOf
<1> HIDE DEF q
<1>11. DueContinues(p)
  <2>1. p.taken + Len(p.due) <= p.sent /\ p.sent <= LimitOf(p) /\ Len(p.due) = L + 1
    BY <1>5, <1>6, <1>7, <1>9, <1>10
  <2>2. n = q.sent + 1 \/ n = LimitOf(q)
    BY <1>3
  <2>3. p.sent = p.taken + Len(p.due) \/ p.sent = LimitOf(p)
    <3>1. CASE n = q.sent + 1
      <4>1. p.sent = n /\ p.taken = q.taken /\ Len(p.due) = L + 1 /\ q.sent = q.taken + L
        BY <1>6, <1>9, <1>10
      <4> QED
        BY <3>1, <4>1, <1>5
    <3>2. CASE n = LimitOf(q)
      BY <3>2, <1>9, <1>10
    <3> QED
      BY <2>2, <3>1, <3>2
  <2>4. ASSUME NEW i \in 1..Len(p.due)
        PROVE  IF p.due[i] = Error THEN i = Len(p.due) /\ p.sent = LimitOf(p)
               ELSE p.due[i] = IF p.stream THEN p.taken + i ELSE Whole
    <3>1. CASE i \in 1..L
      BY <3>1, <1>6, <1>8, <1>9
    <3>2. CASE i = L + 1
      <4>1. p.due[i] = x /\ i = Len(p.due) /\ q.sent + 1 = q.taken + i
        BY <3>2, <1>5, <1>6, <1>8, <1>9
      <4>2. CASE n = LimitOf(q) /\ x = Error
        BY <4>1, <4>2, <1>9, <1>10
      <4>3. CASE x = IF q.stream THEN q.sent + 1 ELSE Whole
        <5>1. x # Error
          BY <4>3, <1>5 DEF Error, Whole
        <5> QED
          BY <4>1, <4>3, <5>1, <1>9
      <4> QED
        BY <4>2, <4>3, <1>3
    <3> QED
      BY <3>1, <3>2, <2>1, <1>5
  <2> QED
    BY <2>1, <2>3, <2>4 DEF DueContinues
<1>12. q.goroutine \notin {"none", "called", "refused"}
  BY <1>1, <1>2 DEF Good, GotUpto
<1>13. GotUpto(p)
  <2>1. GotUpto(q)
    BY <1>1 DEF Good
  <2> QED
    BY <2>1, <1>9, <1>12 DEF GotUpto
<1>14. GotComplete(p) /\ Paired(p)
  BY <1>1, <1>9 DEF Good, GotComplete, Complete, Paired
<1>15. Good(p)
  BY <1>9, <1>11, <1>13, <1>14 DEF Good
<1>16. p.goroutine = "send" => p.to = {h}
  BY <1>1, <1>9 DEF Channel, q
<1>17. /\ p.id = req[h].id /\ p.handler = req[h].handler /\ p.goroutine = req[h].goroutine
       /\ req[h].goroutine # "none"
  BY <1>9, <1>12 DEF q
<1> QED
  BY <1>2, <1>4, <1>15, <1>16, <1>17, GoroutineMoves

LEMMA CallStep ==
  ASSUME Inv, NEW h \in Handlers, Call(h)
  PROVE  Inv'
<1> DEFINE q == req[h]
<1>1. /\ Good(q) /\ Channel(h) /\ q \in Request /\ q.goroutine = "called"
      /\ UNCHANGED <<lifecycle, bridge>> /\ h \notin closed
  <2>1. Good(q) /\ Channel(h) /\ q \in Request
    BY DEF Inv, Requests, Good
  <2> QED
    BY <2>1 DEF Call, At, Channel
<1>2. PICK p : /\ req' = [req EXCEPT ![h] = p]
               /\ \/ p = [q EXCEPT !.goroutine = "refused"]
                  \/ p = [q EXCEPT !.goroutine = "next", !.posted = TRUE]
                  \/ p = [q EXCEPT !.goroutine = "push", !.hand = Error]
  <2>1. CASE req' = [req EXCEPT ![h].goroutine = "refused"]
    <3>1. req' = [req EXCEPT ![h] = [q EXCEPT !.goroutine = "refused"]]
      BY <2>1
    <3> QED
      BY <3>1
  <2>2. CASE req' = [req EXCEPT ![h].goroutine = "next", ![h].posted = TRUE]
    <3>1. req' = [req EXCEPT ![h] = [q EXCEPT !.goroutine = "next", !.posted = TRUE]]
      BY <2>2
    <3> QED
      BY <3>1
  <2>3. CASE req' = [req EXCEPT ![h].goroutine = "push", ![h].hand = Error]
    <3>1. req' = [req EXCEPT ![h] = [q EXCEPT !.goroutine = "push", !.hand = Error]]
      BY <2>3
    <3> QED
      BY <3>1
  <2> QED
    BY <2>1, <2>2, <2>3 DEF Call
<1>3. /\ q.got = <<>> /\ q.due = <<>> /\ q.sent = 0 /\ q.taken = 0 /\ ~q.posted /\ q.handler # "idle"
  BY <1>1 DEF Good, GotUpto, Paired
<1>4. Error \in Chunk
  BY ResultsAssumption DEF Chunk, Error, Whole
<1>5. /\ p \in Request /\ p.got = <<>> /\ p.due = <<>> /\ p.sent = 0 /\ p.taken = 0
      /\ p.handler = q.handler /\ p.id = q.id
      /\ p.goroutine \in {"refused", "next", "push"} /\ (p.goroutine = "push" => p.hand = Error)
      /\ (p.goroutine = "refused" => ~p.posted)
  BY <1>1, <1>2, <1>3, <1>4 DEF Request
<1>6. DueContinues(p)
  <2>1. Len(p.due) = 0 /\ LimitOf(p) \in Nat \ {0}
    BY <1>5, ResultsAssumption DEF LimitOf
  <2> QED
    BY <1>5, <2>1 DEF DueContinues
<1>7. GotUpto(p)
  <2>1. Len(p.got) = 0 /\ 0 < Results
    BY <1>5, ResultsAssumption
  <2>2. Numbered(p.got, 0)
    BY DEF Numbered
  <2> QED
    BY <1>5, <2>1, <2>2 DEF GotUpto
<1>8. Good(p)
  BY <1>3, <1>5, <1>6, <1>7 DEF Good, GotComplete, Paired
<1> QED
  BY <1>1, <1>2, <1>5, <1>8, GoroutineMoves

(* The next chunk is the one the handler has not got yet.                   *)
LEMMA NextChunkStep ==
  ASSUME Inv, NEW h \in Handlers, NextChunk(h)
  PROVE  Inv'
<1> DEFINE q == req[h]
           L == Len(q.due)
<1>1. /\ Good(q) /\ Channel(h) /\ q \in Request /\ q.goroutine = "next"
      /\ UNCHANGED <<lifecycle, bridge>> /\ h \notin closed
  <2>1. Good(q) /\ Channel(h) /\ q \in Request
    BY DEF Inv, Requests, Good
  <2> QED
    BY <2>1 DEF NextChunk, At, Channel
<1>2. /\ q.sent \in Nat /\ q.taken \in Nat /\ q.due \in Seq(Chunk) /\ L \in Nat
      /\ LimitOf(q) \in Nat /\ LimitOf(q) <= Results /\ Results \in Nat
  BY <1>1, LenProperties, ResultsAssumption DEF Request, LimitOf
<1>3. /\ Len(q.got) = q.taken /\ Numbered(q.got, q.taken) /\ (~q.stream => q.got = <<>>)
      /\ q.handler # "idle"
  BY <1>1 DEF Good, GotUpto, Paired
<1>4. DueContinues(q)
  BY <1>1 DEF Good
<1>5. PICK p : /\ req' = [req EXCEPT ![h] = p]
               /\ \/ /\ q.stream /\ q.taken = Results
                     /\ p = [q EXCEPT !.hand = Done, !.goroutine = "push"]
                  \/ /\ q.due # <<>>
                     /\ p = [q EXCEPT !.hand = Head(q.due), !.due = Tail(q.due),
                                      !.taken = q.taken + 1, !.goroutine = "push"]
  <2>1. CASE q.stream /\ q.taken = Results
    <3>1. req' = [req EXCEPT ![h] = [q EXCEPT !.hand = Done, !.goroutine = "push"]]
      BY <2>1 DEF NextChunk, Sink
    <3> QED
      BY <2>1, <3>1
  <2>2. CASE ~(q.stream /\ q.taken = Results)
    <3>1. /\ q.due # <<>>
          /\ req' = [req EXCEPT ![h] = [q EXCEPT !.hand = Head(q.due), !.due = Tail(q.due),
                                      !.taken = q.taken + 1, !.goroutine = "push"]]
      BY <2>2 DEF NextChunk, Sink
    <3> QED
      BY <3>1
  <2> QED
    BY <2>1, <2>2
<1>6. CASE q.stream /\ q.taken = Results /\ p = [q EXCEPT !.hand = Done, !.goroutine = "push"]
  <2>1. Done \in Chunk
    BY <1>2 DEF Done, Chunk, Error, Whole
  <2>2. /\ p \in Request /\ p.handler = q.handler /\ p.goroutine = "push" /\ p.stream = q.stream
        /\ p.posted = q.posted /\ p.id = q.id /\ p.due = q.due /\ p.sent = q.sent
        /\ p.taken = q.taken /\ p.hand = Done /\ p.got = q.got
    BY <1>1, <1>6, <2>1 DEF Request
  <2>3. DueContinues(p)
    BY <1>4, <2>2, SameDue
  <2>4. GotUpto(p)
    BY <1>3, <1>6, <2>2 DEF GotUpto
  <2>5. Good(p)
    BY <1>3, <2>2, <2>3, <2>4 DEF Good, GotComplete, Paired
  <2> QED
    BY <1>1, <1>5, <2>2, <2>5, GoroutineMoves
<1>7. CASE /\ q.due # <<>>
           /\ p = [q EXCEPT !.hand = Head(q.due), !.due = Tail(q.due),
                            !.taken = q.taken + 1, !.goroutine = "push"]
  <2>1. /\ Head(q.due) \in Chunk /\ Tail(q.due) \in Seq(Chunk) /\ Len(Tail(q.due)) = L - 1
        /\ \A i \in 1..Len(Tail(q.due)) : Tail(q.due)[i] = q.due[i + 1]
    BY <1>2, <1>7, HeadTailProperties
  <2>2. L >= 1 /\ Head(q.due) = q.due[1]
    BY <1>2, <1>7, EmptySeq
  <2>3. /\ q.taken + L <= q.sent /\ q.sent <= LimitOf(q)
        /\ q.sent = q.taken + L \/ q.sent = LimitOf(q)
        /\ \A i \in 1..L :
             IF q.due[i] = Error THEN i = L /\ q.sent = LimitOf(q)
             ELSE q.due[i] = IF q.stream THEN q.taken + i ELSE Whole
    BY <1>4 DEF DueContinues
  <2> HIDE DEF L
  <2>4. q.taken + 1 \in 0..Results /\ q.taken < Results
    BY <1>2, <2>2, <2>3
  <2>5. /\ p \in Request /\ p.handler = q.handler /\ p.goroutine = "push" /\ p.stream = q.stream
        /\ p.posted = q.posted /\ p.id = q.id /\ p.due = Tail(q.due) /\ p.sent = q.sent
        /\ p.taken = q.taken + 1 /\ p.hand = q.due[1] /\ p.got = q.got
    BY <1>1, <1>7, <2>1, <2>2, <2>4 DEF Request
  <2>6. LimitOf(p) = LimitOf(q) /\ Len(p.due) = L - 1
    BY <2>1, <2>5 DEF LimitOf
  <2>7. DueContinues(p)
    <3> HIDE DEF q
    <3>1. p.taken + Len(p.due) <= p.sent /\ p.sent <= LimitOf(p)
      BY <1>2, <2>2, <2>3, <2>5, <2>6
    <3>2. p.sent = p.taken + Len(p.due) \/ p.sent = LimitOf(p)
      BY <1>2, <2>2, <2>3, <2>5, <2>6
    <3>3. ASSUME NEW i \in 1..Len(p.due)
          PROVE  IF p.due[i] = Error THEN i = Len(p.due) /\ p.sent = LimitOf(p)
                 ELSE p.due[i] = IF p.stream THEN p.taken + i ELSE Whole
      <4> DEFINE before == q.taken
      <4>4. L \in Nat /\ Len(p.due) = L - 1 /\ before \in Nat /\ p.taken = before + 1
        BY <1>2, <2>5, <2>6
      <4> HIDE DEF L, before
      <4>5. i + 1 \in 1..L /\ i \in Int
        BY <4>4
      <4>6. p.taken + i = before + (i + 1)
        BY <4>4, <4>5
      <4>1. i + 1 \in 1..L /\ i \in Int /\ p.taken + i = q.taken + (i + 1)
        BY <4>5, <4>6 DEF before
      <4>2. p.due[i] = q.due[i + 1]
        BY <2>1, <2>5
      <4>3. i + 1 = L => i = Len(p.due)
        BY <1>2, <2>6, <4>1
      <4> HIDE DEF L
      <4> QED
        BY <2>3, <2>5, <2>6, <4>1, <4>2, <4>3
    <3> QED
      BY <3>1, <3>2, <3>3 DEF DueContinues
  <2>8. GotUpto(p)
    <3>1. 1 \in 1..L
      BY <1>2, <2>2
    <3>2. IF q.due[1] = Error THEN TRUE ELSE q.due[1] = IF q.stream THEN q.taken + 1 ELSE Whole
      BY <2>3, <3>1
    <3> QED
      BY <1>3, <2>4, <2>5, <3>2 DEF GotUpto
  <2>9. Good(p)
    BY <1>3, <2>5, <2>7, <2>8 DEF Good, GotComplete, Paired
  <2> QED
    BY <1>1, <1>5, <2>5, <2>9, GoroutineMoves
<1> QED
  BY <1>5, <1>6, <1>7

LEMMA PushToChanStep ==
  ASSUME Inv, NEW h \in Handlers, PushToChan(h)
  PROVE  Inv'
<1> DEFINE q == req[h]
           p == [q EXCEPT !.goroutine = "send", !.to = {h}]
<1>1. /\ Good(q) /\ Channel(h) /\ q \in Request /\ q.goroutine = "push"
      /\ UNCHANGED <<lifecycle, bridge>> /\ h \notin closed
  <2>1. Good(q) /\ Channel(h) /\ q \in Request
    BY DEF Inv, Requests, Good
  <2> QED
    BY <2>1 DEF PushToChan, At, Channel
<1>2. {channels[id] : id \in {q.id} \cap DOMAIN channels} = {h}
  BY <1>1 DEF Channel
<1>3. req' = [req EXCEPT ![h] = p]
  BY <1>2 DEF PushToChan
<1>4. /\ p \in Request /\ p.handler = q.handler /\ p.goroutine = "send" /\ p.stream = q.stream
      /\ p.posted = q.posted /\ p.id = q.id /\ p.due = q.due /\ p.sent = q.sent
      /\ p.taken = q.taken /\ p.hand = q.hand /\ p.got = q.got /\ p.to = {h}
  BY <1>1 DEF Request
<1> HIDE DEF p
<1>5. DueContinues(p)
  BY <1>1, <1>4, SameDue DEF Good
<1>6. GotUpto(p) /\ GotComplete(p) /\ Paired(p)
  BY <1>1, <1>4 DEF Good, GotUpto, GotComplete, Paired
<1>7. Good(p)
  BY <1>4, <1>5, <1>6 DEF Good
<1> QED
  BY <1>1, <1>3, <1>4, <1>7, GoroutineMoves

(* The handler that reads gets the chunk, and an answer ends with its last. *)
LEMMA DeliverStep ==
  ASSUME Inv, NEW h \in Handlers, Deliver(h)
  PROVE  Inv'
<1> DEFINE q == req[h]
           L == Len(q.got)
           got == Append(q.got, q.hand)
<1>1. /\ Good(q) /\ Channel(h) /\ q \in Request /\ q.goroutine = "send" /\ q.to = {h}
      /\ UNCHANGED <<lifecycle, bridge>> /\ h \notin closed /\ DOMAIN req = Handlers
  <2>1. Good(q) /\ Channel(h) /\ q \in Request /\ DOMAIN req = Handlers
    BY DEF Inv, Requests, Good
  <2> QED
    BY <2>1 DEF Deliver, At, Channel
<1>2. PICK next \in {"reading", "top", "left"} :
        /\ req[h].handler = "reading"
        /\ req' = [req EXCEPT ![h].got = Append(@, req[h].hand), ![h].handler = next,
                             ![h].goroutine = AfterWrite(req[h].hand)]
  BY <1>1 DEF Deliver
<1> DEFINE p == [q EXCEPT !.got = got, !.handler = next, !.goroutine = AfterWrite(q.hand)]
<1>3. req' = [req EXCEPT ![h] = p]
  BY <1>2
<1>4. /\ q.got \in Seq(Chunk) /\ q.hand \in Chunk /\ L \in Nat /\ q.taken \in 0..Results
      /\ Results \in Nat \ {0}
  BY <1>1, LenProperties, ResultsAssumption DEF Request
<1>5. /\ got \in Seq(Chunk) /\ Len(got) = L + 1 /\ got[L + 1] = q.hand
      /\ \A i \in 1..L : got[i] = q.got[i]
  BY <1>4, AppendProperties
<1>6. AfterWrite(q.hand) = IF q.hand \in {Error, Done, Whole} THEN "close" ELSE "next"
  BY DEF AfterWrite, IsLast
<1>7. /\ p \in Request /\ p.handler = next /\ p.goroutine = AfterWrite(q.hand)
      /\ p.stream = q.stream /\ p.posted = q.posted /\ p.id = q.id /\ p.due = q.due
      /\ p.sent = q.sent /\ p.taken = q.taken /\ p.hand = q.hand /\ p.got = got /\ p.to = q.to
  BY <1>1, <1>5, <1>6 DEF Request
<1> HIDE DEF p, got, L
<1>8. DueContinues(p)
  BY <1>1, <1>7, SameDue DEF Good
<1>9. GotUpto(p) /\ GotComplete(p)
  <2>1. CASE ~q.stream
    <3>1. q.hand \in {Error, Whole} /\ L = 0
      BY <1>1, <2>1, EmptySeq DEF Good, GotUpto, L
    <3>2. p.goroutine = "close" /\ Len(p.got) = 1 /\ p.got[1] \in {Error, Whole}
      BY <1>5, <1>6, <1>7, <3>1
    <3> QED
      BY <1>7, <2>1, <3>2 DEF GotUpto, GotComplete, Complete
  <2>2. CASE q.stream
    <3>1. /\ Numbered(q.got, L)
          /\ \/ q.hand = Done /\ L = Results
             \/ q.hand = Error /\ L < Results
             \/ q.hand = L + 1 /\ q.hand = q.taken
      BY <1>1, <2>2 DEF Good, GotUpto, L
    <3>2. \A i \in 1..L : got[i] = i
      BY <1>5, <3>1 DEF Numbered
    <3>3. CASE q.hand \in {Done, Error} /\ L <= Results
      <4>1. /\ p.goroutine = "close" /\ p.stream /\ p.got = got /\ Len(p.got) = L + 1
            /\ p.got[L + 1] = q.hand
        BY <1>5, <1>6, <1>7, <2>2, <3>3
      <4>2. Numbered(p.got, L) /\ L = Len(p.got) - 1 /\ Len(p.got) >= 1
        BY <3>2, <4>1, <1>4 DEF Numbered
      <4>3. \/ p.got[Len(p.got)] = Error /\ Len(p.got) <= Results
            \/ p.got[Len(p.got)] = Done /\ Len(p.got) = Results + 1
        <5>1. Done # Error /\ L + 1 <= Results => L < Results
          BY <1>4 DEF Done, Error
        <5>2. CASE q.hand = Done /\ L = Results
          BY <4>1, <5>2
        <5>3. CASE q.hand = Error /\ L < Results
          BY <1>4, <4>1, <5>3
        <5>4. CASE q.hand = L + 1 /\ q.hand = q.taken
          BY <1>4, <3>3, <5>4 DEF Done, Error
        <5> QED
          BY <3>1, <5>2, <5>3, <5>4
      <4>4. Complete(p)
        BY <4>1, <4>2, <4>3 DEF Complete
      <4> QED
        BY <4>1, <4>4 DEF GotUpto, GotComplete
    <3>4. CASE q.hand = L + 1 /\ q.hand = q.taken
      <4>1. q.hand \notin {Error, Done, Whole}
        BY <1>4, <3>4 DEF Error, Done, Whole
      <4>2. p.goroutine = "next" /\ p.stream /\ Len(p.got) = p.taken /\ p.taken = L + 1
        BY <1>5, <1>6, <1>7, <2>2, <3>4, <4>1
      <4>3. \A i \in 1..(L + 1) : p.got[i] = i
        BY <1>4, <1>5, <1>7, <3>2, <3>4
      <4> QED
        BY <4>2, <4>3 DEF GotUpto, GotComplete, Numbered
    <3> QED
      BY <1>4, <3>1, <3>3, <3>4
  <2> QED
    BY <2>1, <2>2
<1>10. q.handler # "idle" /\ p.goroutine # "none" /\ p.goroutine # "send" /\ p.handler # "idle"
  BY <1>2, <1>6, <1>7
<1>11. Good(p)
  BY <1>7, <1>8, <1>9, <1>10 DEF Good, Paired
<1>12. p.handler \in {"top", "left", "reading"}
  BY <1>7
<1> QED
  BY <1>1, <1>3, <1>7, <1>10, <1>11, <1>12, GoroutineMoves

(* A goroutine closes its own channel, and no other request had its id.     *)
LEMMA CloseChanStep ==
  ASSUME Inv, NEW h \in Handlers, CloseChan(h)
  PROVE  Inv'
<1> DEFINE q == req[h]
           p == [q EXCEPT !.goroutine = "returned"]
<1>1. /\ Good(q) /\ Channel(h) /\ q \in Request /\ q.goroutine = "close"
      /\ DOMAIN req = Handlers
  BY DEF Inv, Requests, Good, CloseChan, At
<1>2. q.id \in DOMAIN channels /\ channels[q.id] = h
  BY <1>1 DEF Channel
<1>3. closed' = closed \cup {h}
  <2>1. {channels[id] : id \in {q.id} \cap DOMAIN channels} = {h}
    BY <1>2
  <2> QED
    BY <2>1 DEF CloseChan
<1>4. /\ DOMAIN channels' = DOMAIN channels \ {q.id}
      /\ \A id \in DOMAIN channels' : channels'[id] = channels[id]
  BY DEF CloseChan, Restrict
<1>5. req' = [req EXCEPT ![h] = p] /\ UNCHANGED <<lifecycle, nextChanID>>
  BY DEF CloseChan
<1>6. LifeTypes'
  BY <1>5 DEF Inv, LifeTypes, lifecycle
<1>7. MapTypes'
  BY <1>3, <1>4, <1>5 DEF Inv, MapTypes
<1>8. /\ p \in Request /\ p.handler = q.handler /\ p.goroutine = "returned" /\ p.stream = q.stream
      /\ p.posted = q.posted /\ p.id = q.id /\ p.due = q.due /\ p.sent = q.sent
      /\ p.taken = q.taken /\ p.hand = q.hand /\ p.got = q.got
  BY <1>1 DEF Request
<1> HIDE DEF p
<1>9. DueContinues(p)
  BY <1>1, <1>8, SameDue DEF Good
<1>10. GotUpto(p) /\ GotComplete(p) /\ Paired(p)
  BY <1>1, <1>8 DEF Good, GotUpto, GotComplete, Complete, Paired
<1>11. Good(p)
  BY <1>8, <1>9, <1>10 DEF Good
<1>12. Channel(h)'
  <2>1. req'[h] = p
    BY <1>1, <1>5
  <2> QED
    BY <1>3, <1>8, <2>1 DEF Channel
<1>13. \A x \in Handlers : x # h => /\ (x \in closed' <=> x \in closed)
                                   /\ \A id \in DOMAIN channels : channels[id] = x =>
                                        id \in DOMAIN channels' /\ channels'[id] = x
  BY <1>2, <1>3, <1>4
<1> QED
  BY <1>3, <1>5, <1>6, <1>7, <1>11, <1>12, <1>13, OneRequest

(* The life of the service and of the core touches neither channels nor     *)
(* answers.                                                                 *)
LEMMA LifeMoves ==
  ASSUME Inv, Start \/ PollReady \/ PollFails \/ Listen \/ Stop \/ CoreStep
  PROVE  Inv'
<1>1. UNCHANGED <<channels, nextChanID, closed>> /\ UNCHANGED req
  BY DEF Start, PollReady, PollFails, Listen, Stop, CoreStep, LoadModel, StartLoop, EndLoop, CleanUp,
         bridge
<1>2. LifeTypes'
  <2>1. LifeTypes
    BY DEF Inv
  <2>2. CASE Start \/ PollReady \/ PollFails \/ Listen
    BY <2>1, <2>2 DEF LifeTypes, Start, PollReady, PollFails, Listen
  <2>3. CASE Stop
    <3>1. CASE runnerOn /\ running
      BY <2>1, <2>3, <3>1 DEF LifeTypes, Stop
    <3>2. CASE ~(runnerOn /\ running)
      BY <2>1, <2>3, <3>2 DEF LifeTypes, Stop
    <3> QED
      BY <3>1, <3>2
  <2>4. CASE CoreStep
    BY <2>1, <2>4 DEF LifeTypes, CoreStep, LoadModel, StartLoop, EndLoop, CleanUp
  <2> QED
    BY <2>2, <2>3, <2>4
<1>3. MapTypes' /\ Requests'
  BY <1>1 DEF Inv, MapTypes, Requests, Channel
<1> QED
  BY <1>2, <1>3 DEF Inv

LEMMA InvStep == Inv /\ [Next]_vars => Inv'
<1> SUFFICES ASSUME Inv, [Next]_vars PROVE Inv'
  OBVIOUS
<1>1. CASE Start \/ PollReady \/ PollFails \/ Listen \/ Stop \/ CoreStep
  BY <1>1, LifeMoves
<1>2. CASE Interrupt
  BY <1>2, InterruptStep
<1>3. ASSUME NEW h \in Handlers, NEW stream \in BOOLEAN, Accept(h, stream) PROVE Inv'
  BY <1>3, AcceptStep
<1>4. ASSUME NEW h \in Handlers, Disconnect(h) \/ HandlerStep(h) PROVE Inv'
  BY <1>4, HandlerMoves
<1>5. ASSUME NEW h \in Handlers, SendResult(h) PROVE Inv'
  BY <1>5, SendResultStep
<1>6. ASSUME NEW h \in Handlers, GoroutineStep(h) PROVE Inv'
  BY <1>6, CallStep, NextChunkStep, PushToChanStep, DeliverStep, CloseChanStep DEF GoroutineStep
<1>7. CASE UNCHANGED vars
  <2>1. UNCHANGED <<service, runnerOn, core, running, loopOn, channels, nextChanID, closed, req>>
    BY <1>7 DEF vars, lifecycle, bridge
  <2>2. LifeTypes' /\ MapTypes'
    BY <2>1 DEF Inv, LifeTypes, MapTypes
  <2>3. Requests'
    BY <2>1 DEF Inv, Requests, Channel
  <2> QED
    BY <2>2, <2>3 DEF Inv
<1> QED
  BY <1>1, <1>2, <1>3, <1>4, <1>5, <1>6, <1>7 DEF Next

(* Every variable stays within its type, and NewChan never meets an id that *)
(* is still in the map: nextChanID is above all of them.                    *)
THEOREM TypeCorrect == Spec => []TypeOK
<1>1. Inv => TypeOK
  <2> SUFFICES ASSUME Inv PROVE TypeOK
    OBVIOUS
  <2>1. /\ service \in {"off", "polling", "listening", "serving", "closing", "stopped"}
        /\ core \in {"off", "loading", "ready", "loop", "unloading", "ended", "failed"}
        /\ {runnerOn, running, loopOn} \subseteq BOOLEAN
    BY DEF Inv, LifeTypes
  <2>2. /\ nextChanID \in Nat /\ closed \subseteq Handlers
        /\ DOMAIN channels \subseteq 1..(nextChanID - 1) /\ Range(channels) \subseteq Handlers
    BY DEF Inv, MapTypes, Range
  <2>3. ASSUME NEW h \in Handlers
        PROVE  /\ req[h].handler \in {"idle", "top", "reading", "done", "left"}
               /\ req[h].goroutine \in
                    {"none", "called", "refused", "next", "push", "send", "close", "returned"}
               /\ req[h].hand \in Error..Whole /\ req[h].sent \in 0..Results
               /\ req[h].taken \in 0..Results
    <3>1. req[h] \in Request
      BY DEF Inv, Requests, Good
    <3> QED
      BY <3>1 DEF Request, Chunk
  <2> QED
    BY <2>1, <2>2, <2>3 DEF TypeOK
<1> QED
  BY <1>1, InitInv, InvStep, PTL DEF Spec

-----------------------------------------------------------------------------
(* The answers a stream can give, position by position.                     *)
LEMMA UptoAppend ==
  ASSUME NEW k \in 0..Results, NEW x \in Chunk
  PROVE  /\ Append(Upto(k), x) \in Seq(Chunk) /\ Len(Append(Upto(k), x)) = k + 1
         /\ \A i \in 1..k : Append(Upto(k), x)[i] = i
         /\ Append(Upto(k), x)[k + 1] = x
<1>1. k \in Nat /\ \A i \in 1..k : i \in Chunk
  BY ResultsAssumption DEF Chunk, Error, Whole
<1>2. Upto(k) \in [1..k -> Chunk]
  BY <1>1 DEF Upto
<1>3. Upto(k) \in Seq(Chunk)
  BY <1>1, <1>2, SeqDef
<1>4. Len(Upto(k)) = k /\ \A i \in 1..k : Upto(k)[i] = i
  BY <1>1 DEF Upto
<1> QED
  BY <1>3, <1>4, AppendProperties

(* A request in order has got the beginning of an answer, and the whole of  *)
(* it once its goroutine is behind the last write.                          *)
LEMMA GotAnswer ==
  ASSUME NEW q, Good(q), q.goroutine \in {"close", "returned"}
  PROVE  q.got \in Answers(q.stream)
<1> DEFINE got == q.got
           L == Len(q.got)
<1>1. got \in Seq(Chunk) /\ L \in Nat /\ Results \in Nat \ {0} /\ Complete(q)
  BY LenProperties, ResultsAssumption DEF Good, GotComplete, Request
<1>2. Error \in Chunk /\ Done \in Chunk /\ Whole \in Chunk
  BY <1>1 DEF Chunk, Error, Done, Whole
<1>3. CASE ~q.stream
  <2>1. L = 1 /\ got[1] \in {Error, Whole}
    BY <1>1, <1>3 DEF Complete
  <2>2. \A x \in Chunk : got[1] = x => got = <<x>>
    <3>1. ASSUME NEW x \in Chunk, got[1] = x PROVE got = <<x>>
      <4>1. <<x>> \in Seq(Chunk) /\ Len(<<x>>) = 1 /\ <<x>>[1] = x
        OBVIOUS
      <4> HIDE DEF got
      <4> QED
        BY <1>1, <2>1, <3>1, <4>1, SeqEqual DEF got
    <3> QED
      BY <3>1
  <2> QED
    BY <1>2, <1>3, <2>1, <2>2 DEF Answers
<1>4. CASE q.stream
  <2>1. /\ L >= 1 /\ \A i \in 1..(L - 1) : got[i] = i
        /\ \/ got[L] = Error /\ L <= Results
           \/ got[L] = Done /\ L = Results + 1
    BY <1>1, <1>4 DEF Complete, Numbered
  <2> DEFINE k == L - 1
  <2>2. k \in 0..Results /\ L = k + 1
    BY <1>1, <2>1
  <2>3. PICK x \in {Error, Done} :
          got[L] = x /\ (x = Error => k \in 0..(Results - 1)) /\ (x = Done => k = Results)
    <3>1. Error # Done
      BY <1>1 DEF Error, Done
    <3>2. CASE got[L] = Error /\ L <= Results
      BY <1>1, <2>1, <3>1, <3>2
    <3>3. CASE got[L] = Done /\ L = Results + 1
      BY <1>1, <2>1, <3>1, <3>3
    <3> QED
      BY <2>1, <3>2, <3>3
  <2> DEFINE a == Append(Upto(k), x)
  <2>4. a \in Seq(Chunk) /\ Len(a) = k + 1 /\ a[k + 1] = x /\ \A i \in 1..k : a[i] = i
    BY <1>2, <2>2, <2>3, UptoAppend
  <2>5. a \in Answers(q.stream)
    BY <1>4, <2>3 DEF Answers
  <2> HIDE DEF a, L, got, k
  <2>6. \A i \in 1..L : got[i] = a[i]
    <3> SUFFICES ASSUME NEW i \in 1..L PROVE got[i] = a[i]
      OBVIOUS
    <3>1. i \in 1..k \/ i = k + 1
      BY <1>1, <2>2
    <3>2. got[k + 1] = x /\ \A j \in 1..k : got[j] = j
      BY <1>1, <2>1, <2>2, <2>3 DEF k
    <3> QED
      BY <2>4, <3>1, <3>2
  <2>7. got = a
    BY <1>1, <2>2, <2>4, <2>6, SeqEqual DEF L, got
  <2> QED
    BY <2>5, <2>7 DEF got
<1> QED
  BY <1>3, <1>4

LEMMA GotPrefix ==
  ASSUME NEW q, Good(q)
  PROVE  \E answer \in Answers(q.stream) : IsPrefix(q.got, answer)
<1> DEFINE got == q.got
           L == Len(q.got)
<1>1. got \in Seq(Chunk) /\ L \in Nat /\ Results \in Nat \ {0} /\ q \in Request
  BY LenProperties, ResultsAssumption DEF Good, Request
<1>2. CASE q.goroutine \in {"close", "returned"}
  <2>1. got \in Answers(q.stream)
    BY <1>2, GotAnswer
  <2>2. IsPrefix(got, got)
    BY <1>1 DEF IsPrefix
  <2> QED
    BY <2>1, <2>2
<1>3. CASE q.goroutine \notin {"close", "returned"} /\ ~q.stream
  <2>1. got = <<>> /\ L = 0
    BY <1>1, <1>3 DEF Good, GotUpto, Request
  <2>2. SubSeq(got, 1, 0) = <<>> /\ SubSeq(<<Whole>>, 1, 0) = <<>>
    BY SubSeqEmpty
  <2>3. Len(<<Whole>>) = 1
    OBVIOUS
  <2>4. IsPrefix(got, <<Whole>>)
    BY <2>1, <2>2, <2>3 DEF IsPrefix
  <2> QED
    BY <1>3, <2>4 DEF Answers
<1>4. CASE q.goroutine \notin {"close", "returned"} /\ q.stream
  <2>1. L <= Results /\ \A i \in 1..L : got[i] = i
    <3>1. CASE q.goroutine \in {"none", "called", "refused"}
      <4>1. got = <<>> /\ L = 0
        BY <3>1 DEF Good, GotUpto
      <4> HIDE DEF got, L
      <4> QED
        BY <1>1, <4>1
    <3>2. CASE q.goroutine = "next"
      BY <1>1, <3>2 DEF Good, GotUpto, Numbered, Request
    <3>3. CASE q.goroutine \in {"push", "send"}
      <4>1. /\ Numbered(got, L)
            /\ \/ L = Results
               \/ L < Results
               \/ q.hand = L + 1 /\ q.hand = q.taken
        BY <1>4, <3>3 DEF Good, GotUpto
      <4>2. q.taken \in 0..Results
        BY <1>1 DEF Request
      <4> HIDE DEF L, got
      <4> QED
        BY <1>1, <4>1, <4>2 DEF Numbered
    <3> QED
      BY <1>1, <1>4, <3>1, <3>2, <3>3 DEF Request
  <2> DEFINE a == Append(Upto(Results), Done)
  <2>2. a \in Seq(Chunk) /\ Len(a) = Results + 1 /\ \A i \in 1..Results : a[i] = i
    <3>1. Done \in Chunk /\ Results \in 0..Results
      BY <1>1 DEF Chunk, Error, Done, Whole
    <3> QED
      BY <3>1, UptoAppend
  <2> HIDE DEF a, got, L
  <2> DEFINE s == SubSeq(got, 1, L)
             t == SubSeq(a, 1, L)
  <2>3. \A i \in 1..L : got[i] = a[i] /\ got[i] \in Chunk /\ a[i] \in Chunk
    <3>1. \A i \in 1..L : i \in Chunk /\ i \in 1..Results
      BY <1>1, <2>1 DEF Chunk, Error, Whole
    <3> QED
      BY <2>1, <2>2, <3>1
  <2>4. s \in Seq(Chunk) /\ Len(s) = L /\ \A i \in 1..L : s[i] = got[i]
    BY <1>1, <2>3, SubSeqProperties
  <2>5. t \in Seq(Chunk) /\ Len(t) = L /\ \A i \in 1..L : t[i] = a[i]
    BY <1>1, <2>3, SubSeqProperties
  <2> HIDE DEF s, t
  <2>6. s = t
    BY <2>3, <2>4, <2>5, SeqEqual
  <2>7. IsPrefix(got, a)
    BY <1>1, <2>1, <2>2, <2>6 DEF IsPrefix, L, got, s, t
  <2> QED
    BY <1>4, <2>7 DEF Answers, a, got
<1> QED
  BY <1>2, <1>3, <1>4

(* However the requests interleave and whenever clients leave: a handler    *)
(* gets the chunks of its own request in order and without a gap, sees the  *)
(* channel closed only behind the last one, and PushToChan, which sends     *)
(* outside the lock of the map, never sends on a closed channel.            *)
THEOREM AnswersWhole == Spec => []WholeAnswers
<1>1. Inv => WholeAnswers
  <2> SUFFICES ASSUME Inv PROVE WholeAnswers
    OBVIOUS
  <2>1. ASSUME NEW h \in Handlers
        PROVE  \E answer \in Answers(req[h].stream) :
                  IF req[h].handler = "done" THEN req[h].got = answer ELSE IsPrefix(req[h].got, answer)
    <3>1. Good(req[h]) /\ Channel(h)
      BY DEF Inv, Requests
    <3>2. CASE req[h].handler = "done"
      <4>1. req[h].goroutine = "returned"
        BY <3>1, <3>2 DEF Channel
      <4>2. req[h].got \in Answers(req[h].stream)
        BY <3>1, <4>1, GotAnswer
      <4> QED
        BY <3>2, <4>2
    <3>3. CASE req[h].handler # "done"
      BY <3>1, <3>3, GotPrefix
    <3> QED
      BY <3>2, <3>3
  <2>2. SendsOnOpen
    BY DEF SendsOnOpen, Inv, Requests, Channel
  <2> QED
    BY <2>1, <2>2 DEF WholeAnswers, Delivered
<1> QED
  BY <1>1, InitInv, InvStep, PTL DEF Spec

=============================================================================
