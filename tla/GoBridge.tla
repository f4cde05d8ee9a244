------------------------------ MODULE GoBridge ------------------------------
(***************************************************************************)
(* The Go server around the C++ core: server.Service and runner.Service    *)
(* start and stop Server (server.cpp), the gin handlers start a goroutine  *)
(* per request, and the goroutine sends what the core answers over an      *)
(* unbuffered channel it finds in the map of wrapper/bridge.go.            *)
(* The queues between goroutine and loop are those of ResponseReader, here *)
(* reduced to the results due to each request.                             *)
(***************************************************************************)
EXTENDS Naturals, Sequences, SequencesExt, FiniteSets, Functions

CONSTANTS
    Handlers,   \* the HTTP requests, one handler each
    Results     \* results of a streamed completion

ASSUME ResultsAssumption == Results \in Nat \ {0}

VARIABLES
    service,    \* server.Service: off, polling, listening, serving, closing, stopped
    runnerOn,   \* runner.Service.running
    core,       \* Server::start: off, loading, ready, loop, unloading, ended, failed
    running,    \* Server::running
    loopOn,     \* server_queue::running
    channels,   \* bridge.go channels: id -> the handler that reads the channel
    nextChanID,
    closed,     \* the handlers whose channel was closed
    req         \* the requests

lifecycle == <<service, runnerOn, core, running, loopOn>>
bridge == <<channels, nextChanID, closed>>
vars == <<lifecycle, bridge, req>>

Error == 0                  \* an error, as data or as the last event
Done  == Results + 1        \* "data: [DONE]"
Whole == Results + 2        \* the answer of a request that is not streamed

NoRequest ==
    [handler |-> "idle", goroutine |-> "none", stream |-> FALSE, gone |-> FALSE, id |-> 0,
     posted |-> FALSE, due |-> <<>>, sent |-> 0, taken |-> 0, hand |-> Error, to |-> {}, got |-> <<>>]

Init ==
    /\ service = "off" /\ runnerOn = FALSE /\ core = "off" /\ running = FALSE /\ loopOn = FALSE
    /\ channels = <<>> /\ nextChanID = 1 /\ closed = {}
    /\ req = [h \in Handlers |-> NoRequest]

-----------------------------------------------------------------------------
(* Service.Start and Service.Stop of runner/ and server/                    *)
Start ==
    /\ service = "off" /\ service' = "polling" /\ core' = "loading"
    /\ UNCHANGED <<runnerOn, running, loopOn, bridge, req>>

IsStarted == core # "off"   \* mutant
IsReady == running
PollReady ==
    /\ service = "polling" /\ IsReady
    /\ service' = "listening" /\ runnerOn' = TRUE
    /\ UNCHANGED <<core, running, loopOn, bridge, req>>

(* LlamaStart came back, or fifteen minutes have passed.                    *)
PollFails ==
    /\ service = "polling" /\ service' = "closing"
    /\ UNCHANGED <<runnerOn, core, running, loopOn, bridge, req>>

Listen ==
    /\ service = "listening" /\ service' \in {"serving", "closing"}
    /\ UNCHANGED <<runnerOn, core, running, loopOn, bridge, req>>

(* srvr.Close() drops the connections and waits for no handler.             *)
Interrupt ==
    /\ service = "serving" /\ service' = "closing"
    /\ req' = [h \in Handlers |-> [req[h] EXCEPT !.gone = req[h].handler # "idle"]]
    /\ UNCHANGED <<runnerOn, core, running, loopOn, bridge>>

(* runner.Stop, llama_stop and Server::stop; the goroutine that waits for   *)
(* LlamaStart to return writes the same FALSE to runner.running once more.  *)
Stop ==
    /\ service = "closing" /\ service' = "stopped"
    /\ runnerOn' = FALSE
    /\ IF runnerOn /\ running THEN loopOn' = FALSE /\ running' = FALSE
                              ELSE UNCHANGED <<loopOn, running>>
    /\ UNCHANGED <<core, bridge, req>>

-----------------------------------------------------------------------------
(* The thread of llama_start                                                *)
LoadModel ==
    /\ core = "loading"
    /\ \/ core' = "ready" /\ running' = TRUE
       \/ core' = "failed" /\ UNCHANGED running
    /\ UNCHANGED <<service, runnerOn, loopOn, bridge, req>>

StartLoop ==
    /\ core = "ready" /\ core' = "loop" /\ loopOn' = TRUE
    /\ UNCHANGED <<service, runnerOn, running, bridge, req>>

EndLoop ==
    /\ core = "loop" /\ ~loopOn /\ core' = "unloading"
    /\ UNCHANGED <<service, runnerOn, running, loopOn, bridge, req>>

CleanUp ==
    /\ core = "unloading" /\ core' = "ended" /\ loopOn' = FALSE
    /\ UNCHANGED <<service, runnerOn, running, bridge, req>>

(* The loop answers a posted request, whoever is left to read.              *)
Limit(h) == IF req[h].stream THEN Results ELSE 1
SendResult(h) ==
    /\ core = "loop" /\ loopOn /\ req[h].posted /\ req[h].sent < Limit(h)
    /\ \/ req' = [req EXCEPT ![h].sent = @ + 1,
                             ![h].due = Append(@, IF req[h].stream THEN req[h].sent + 1 ELSE Whole)]
       \/ req' = [req EXCEPT ![h].sent = Limit(h), ![h].due = Append(@, Error)]
    /\ UNCHANGED <<lifecycle, bridge>>

-----------------------------------------------------------------------------
(* The gin handlers: GenerateHandler, ChatHandler and streamHandler         *)
KeepId == UNCHANGED nextChanID   \* mutant
TakeId == nextChanID' = nextChanID + 1
Accept(h, stream) ==
    /\ service = "serving" /\ req[h].handler = "idle"
    /\ channels' = [id \in DOMAIN channels \cup {nextChanID} |->
                        IF id = nextChanID THEN h ELSE channels[id]]
    /\ TakeId /\ UNCHANGED <<closed, lifecycle>>
    /\ req' = [req EXCEPT ![h].handler = IF stream THEN "top" ELSE "reading",
                          ![h].goroutine = "called", ![h].stream = stream, ![h].id = nextChanID]

Disconnect(h) ==
    /\ req[h].handler \in {"top", "reading"} /\ ~req[h].gone
    /\ req' = [req EXCEPT ![h].gone = TRUE]
    /\ UNCHANGED <<lifecycle, bridge>>

(* c.Stream looks at the connection before each step, and a step blocks on  *)
(* the channel; the handlers that do not stream never look.                 *)
CloseOnLeave(h) == closed' = closed \cup {h} /\ UNCHANGED <<channels, nextChanID>>   \* mutant
LeaveChannel(h) == UNCHANGED <<closed, channels, nextChanID>>
CheckClient(h) ==
    /\ req[h].handler = "top"
    /\ IF req[h].gone THEN req' = [req EXCEPT ![h].handler = "left"] /\ LeaveChannel(h)
                      ELSE req' = [req EXCEPT ![h].handler = "reading"] /\ UNCHANGED bridge
    /\ UNCHANGED lifecycle

SeeClosed(h) ==
    /\ req[h].handler = "reading" /\ h \in closed
    /\ req' = [req EXCEPT ![h].handler = "done"]
    /\ UNCHANGED <<lifecycle, bridge>>

-----------------------------------------------------------------------------
(* The goroutine of a request: runner.Generate or Chat, llama_gen or        *)
(* llama_chat. It returns without CloseChan when the body cannot be parsed  *)
(* or the core is not running; an invalid request is answered with an error.*)
At(h, pc) == req[h].goroutine = pc
Call(h) ==
    /\ At(h, "called")
    /\ \/ req' = [req EXCEPT ![h].goroutine = "refused"]
       \/ /\ running
          /\ \/ req' = [req EXCEPT ![h].goroutine = "next", ![h].posted = TRUE]
             \/ req' = [req EXCEPT ![h].goroutine = "push", ![h].hand = Error]
    /\ UNCHANGED <<lifecycle, bridge>>

(* flush_http_response_to_sink writes a chunk before it looks at "more".    *)
IsLast(chunk) == chunk \in {Error, Done, Whole}
SinkMore(chunk) == IF chunk = Done THEN "close" ELSE "push"   \* mutant
Sink(chunk) == "push"
NextChunk(h) ==
    /\ At(h, "next")
    /\ IF req[h].stream /\ req[h].taken = Results
       THEN req' = [req EXCEPT ![h].hand = Done, ![h].goroutine = Sink(Done)]
       ELSE /\ req[h].due # <<>>
            /\ req' = [req EXCEPT ![h].hand = Head(req[h].due), ![h].due = Tail(@),
                           ![h].taken = @ + 1, ![h].goroutine = Sink(Head(req[h].due))]
    /\ UNCHANGED <<lifecycle, bridge>>

(* PushToChan finds the channel under the lock and sends outside of it.     *)
PushToChan(h) ==
    /\ At(h, "push")
    /\ req' = [req EXCEPT ![h].goroutine = "send",
                          ![h].to = {channels[id] : id \in {req[h].id} \cap DOMAIN channels}]
    /\ UNCHANGED <<lifecycle, bridge>>

ReturnOnError(chunk) ==   \* mutant
    IF chunk = Error THEN "returned" ELSE IF IsLast(chunk) THEN "close" ELSE "next"
AfterWrite(chunk) == IF IsLast(chunk) THEN "close" ELSE "next"

(* The send meets the handler; a stream's write fails once the client left. *)
Deliver(h) ==
    /\ At(h, "send")
    /\ \E r \in req[h].to :
        /\ req[r].handler = "reading" /\ r \notin closed
        /\ \E next \in IF ~req[r].stream THEN {"reading"} ELSE {x \in {"top", "left"} : x = "left" => req[r].gone} :
            req' = [req EXCEPT ![r].got = Append(@, req[h].hand), ![r].handler = next,
                               ![h].goroutine = AfterWrite(req[h].hand)]
    /\ UNCHANGED <<lifecycle, bridge>>

CloseChan(h) ==
    /\ At(h, "close")
    /\ closed' = closed \cup {channels[id] : id \in {req[h].id} \cap DOMAIN channels}
    /\ channels' = Restrict(channels, DOMAIN channels \ {req[h].id})
    /\ req' = [req EXCEPT ![h].goroutine = "returned"]
    /\ UNCHANGED <<lifecycle, nextChanID>>

-----------------------------------------------------------------------------
HandlerStep(h) == CheckClient(h) \/ SeeClosed(h)
GoroutineStep(h) == Call(h) \/ NextChunk(h) \/ PushToChan(h) \/ Deliver(h) \/ CloseChan(h)
CoreStep == LoadModel \/ StartLoop \/ EndLoop \/ CleanUp

Next ==
    \/ Start \/ PollReady \/ PollFails \/ Listen \/ Interrupt \/ Stop \/ CoreStep
    \/ \E h \in Handlers :
        \/ \E stream \in BOOLEAN : Accept(h, stream)
        \/ Disconnect(h) \/ SendResult(h) \/ HandlerStep(h) \/ GoroutineStep(h)

Spec == Init /\ [][Next]_vars

(* Threads run; nobody has to disconnect, to interrupt or to send requests. *)
FairSpec ==
    /\ Spec
    /\ WF_vars(CoreStep)
    /\ \A h \in Handlers :
        WF_vars(HandlerStep(h)) /\ WF_vars(GoroutineStep(h)) /\ WF_vars(SendResult(h))

-----------------------------------------------------------------------------
(* Every variable stays within its type, and every id in the map of         *)
(* channels is below nextChanID: NewChan never meets an id in use.          *)
TypeOK ==
    /\ service \in {"off", "polling", "listening", "serving", "closing", "stopped"}
    /\ core \in {"off", "loading", "ready", "loop", "unloading", "ended", "failed"}
    /\ {runnerOn, running, loopOn} \subseteq BOOLEAN
    /\ nextChanID \in Nat /\ closed \subseteq Handlers
    /\ DOMAIN channels \subseteq 1..(nextChanID - 1) /\ Range(channels) \subseteq Handlers
    /\ \A h \in Handlers :
        /\ req[h].handler \in {"idle", "top", "reading", "done", "left"}
        /\ req[h].goroutine \in {"none", "called", "refused", "next", "push", "send", "close", "returned"}
        /\ req[h].hand \in Error..Whole /\ req[h].sent \in 0..Results /\ req[h].taken \in 0..Results

(* A handler gets the chunks of its own request, in order and without a     *)
(* gap, and sees the channel closed only behind the last one: no client     *)
(* takes a truncated answer for a complete one.                             *)
Upto(k) == [i \in 1..k |-> i]
Answers(stream) ==
    IF stream THEN {Append(Upto(Results), Done)} \cup {Append(Upto(k), Error) : k \in 0..(Results - 1)}
              ELSE {<<Whole>>, <<Error>>}
Delivered ==
    \A h \in Handlers :
        \E answer \in Answers(req[h].stream) :
            IF req[h].handler = "done" THEN req[h].got = answer ELSE IsPrefix(req[h].got, answer)

(* PushToChan has let go of the lock when it sends: the channel it found is *)
(* open until then, for a send on a closed channel ends the process.        *)
SendsOnOpen ==
    \A h \in Handlers : req[h].goroutine = "send" => req[h].to # {} /\ req[h].to \cap closed = {}

(* Whole answers over channels that are still open.                         *)
WholeAnswers == Delivered /\ SendsOnOpen

(* Requests are accepted only while Server::running, with the model loaded. *)
ServesLoaded == service = "serving" => running /\ core \in {"ready", "loop"}

(* A handler ends, whatever its client and the other requests do, unless    *)
(* its goroutine returned before CloseChan or the server was stopped.       *)
EveryHandlerEnds ==
    \A h \in Handlers :
        req[h].handler \in {"top", "reading"} ~>
            req[h].handler \in {"done", "left"} \/ req[h].goroutine = "refused" \/ ~running
=============================================================================
