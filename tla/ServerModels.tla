---------------------------- MODULE ServerModels ----------------------------
(***************************************************************************)
(* server_models (core/src/server/server-models.h, server-models.cpp): the *)
(* router that runs one child server per model, loads a model on request,  *)
(* and stops the least recently used one when models_max are active.       *)
(*                                                                         *)
(* Per instance there are four actors: the child process, the thread that  *)
(* reads its output (log_thread), the thread that stops it                 *)
(* (stopping_thread), and the thread that owns both and collects the child *)
(* (the monitoring thread).  Every critical section of the mutex is one    *)
(* action; a wait on cv or cv_stop is a later action guarded by its        *)
(* predicate, so that a change which is undone before the waiter gets the  *)
(* mutex is missed, as in the code.  A client is an HTTP thread inside     *)
(* ensure_model_loaded.                                                    *)
(*                                                                         *)
(* Abstracted: presets, arguments, ports and environment.  last_used is    *)
(* the order of the loads: two loads never fall into the same millisecond. *)
(***************************************************************************)
EXTENDS Integers, Sequences, FiniteSets, SequencesExt

CONSTANTS
    Models,         \* the names in mapping
    Clients,        \* threads that ask for a model
    ModelsMax,      \* base_params.models_max; 0: no limit
    Autoload,       \* the names with load-on-startup
    NoModel,        \* the name a client has that asks for none
    MaxRequests,    \* bound: requests of all clients together
    MaxCrashes      \* bound: children that die by themselves

ASSUME ServerModelsAssumption ==
    /\ {ModelsMax, MaxRequests, MaxCrashes} \subseteq Nat
    /\ Autoload \subseteq Models /\ NoModel \notin Models
    /\ IsFiniteSet(Models)
    /\ Cardinality(Autoload) <= ModelsMax    \* load_models throws otherwise, at 0 too

VARIABLES
    status,     \* meta.status
    failed,     \* meta.exit_code # 0
    used,       \* the active models in the order of meta.last_used, oldest first
    stopping,   \* stopping_models
    monitor,    \* where the monitoring thread of the last instance is
    stopper,    \* where its stopping_thread is
    proc,       \* the child process
    ready,      \* its READY line
    told,       \* the exit command has been written to its stdin
    clientPc,   \* where each client is
    wants,      \* the model each client asks for
    victim,     \* lru_model_name of each client
    router,     \* the thread that constructs the router and calls unload_all
    pending,    \* the models it has still to load at startup, or to join
    requests,   \* requests so far
    crashes,    \* children that died by themselves so far
    overlapped  \* ghost: two clients have been inside load() at the same time

instanceVars == <<monitor, stopper, proc, ready, told>>
metaVars     == <<status, failed, used>>
clientVars   == <<clientPc, wants, victim, requests, overlapped>>
routerVars   == <<router, pending>>
vars == <<metaVars, stopping, instanceVars, clientVars, routerVars, crashes>>

Statuses  == {"unloaded", "loading", "loaded"}
Monitors  == {"off", "watch", "join"}
Stoppers  == {"off", "wait", "timed", "done"}
Procs     == {"none", "starting", "serving", "exited", "died"}
ClientPcs == {"idle", "scan", "unload", "evict", "load", "wait", "check"}
Routers   == {"startup", "serving", "joining", "returned"}

IsActive(m) == status[m] \in {"loaded", "loading"}
IsFailed(m) == status[m] = "unloaded" /\ failed[m]
Active      == {m \in Models : IsActive(m)}

Go(c, pc) == clientPc' = [clientPc EXCEPT ![c] = pc]
Leave(c)  == Go(c, "idle") /\ wants' = [wants EXCEPT ![c] = NoModel]
InLoad(c) == clientPc[c] \in {"unload", "evict", "load"}

-----------------------------------------------------------------------------
Init ==
    /\ status = [m \in Models |-> "unloaded"]
    /\ failed = [m \in Models |-> FALSE]
    /\ used = <<>>
    /\ stopping = {}
    /\ monitor = [m \in Models |-> "off"]
    /\ stopper = [m \in Models |-> "off"]
    /\ proc = [m \in Models |-> "none"]
    /\ ready = [m \in Models |-> "no"]
    /\ told = [m \in Models |-> FALSE]
    /\ clientPc = [c \in Clients |-> "idle"]
    /\ wants = [c \in Clients |-> NoModel]
    /\ victim = [c \in Clients |-> NoModel]
    /\ router = "startup" /\ pending = Autoload
    /\ requests = 0 /\ crashes = 0 /\ overlapped = FALSE

-----------------------------------------------------------------------------
(* load(), the section under the mutex.  A new instance starts with its     *)
(* child and threads; the thread of the old one is joined with the mutex    *)
(* held, which can only end if that thread needs the mutex no more.         *)
StartInstance(m) ==
    /\ monitor[m] = "off"
    /\ status'  = [status EXCEPT ![m] = "loading"]
    /\ used'    = Append(used, m)
    /\ monitor' = [monitor EXCEPT ![m] = "watch"]
    /\ stopper' = [stopper EXCEPT ![m] = "wait"]
    /\ proc'    = [proc EXCEPT ![m] = "starting"]
    /\ UNCHANGED <<failed, ready, told>>

(* The constructor loads the models with load-on-startup one by one; the    *)
(* limit is checked against their number beforehand, so none is evicted.    *)
LoadAtStartup ==
    /\ router = "startup"
    /\ \/ \E m \in pending :
            /\ StartInstance(m)
            /\ pending' = pending \ {m}
            /\ UNCHANGED router
       \/ /\ pending = {}
          /\ router' = "serving"
          /\ UNCHANGED <<metaVars, instanceVars, pending>>
    /\ UNCHANGED <<stopping, clientVars, crashes>>

(* ensure_model_loaded: the status is read, and used after the mutex has    *)
(* been given back.                                                         *)
Request(c, m) ==
    /\ router # "startup" /\ requests < MaxRequests
    /\ clientPc[c] = "idle"
    /\ requests' = requests + 1
    /\ status[m] # "loaded"    \* otherwise it is forwarded at once
    /\ wants' = [wants EXCEPT ![c] = m]
    /\ Go(c, IF status[m] = "unloaded" THEN "scan" ELSE "wait")
    /\ UNCHANGED <<metaVars, stopping, instanceVars, routerVars, victim, overlapped, crashes>>

(* unload_lru: the oldest active model is the victim if models_max are      *)
(* active; the mutex is given back before the victim is unloaded.           *)
LruModel == Head(used)
AtLimit  == ModelsMax > 0 /\ Cardinality(Active) >= ModelsMax
UnloadLru(c) ==
    /\ clientPc[c] = "scan"
    /\ IF AtLimit THEN /\ victim' = [victim EXCEPT ![c] = LruModel]
                       /\ Go(c, "unload")
                  ELSE /\ UNCHANGED victim
                       /\ Go(c, "load")
    /\ overlapped' = (overlapped \/ \E d \in Clients \ {c} : InLoad(d))
    /\ UNCHANGED <<metaVars, stopping, instanceVars, routerVars, wants, requests, crashes>>

(* unload(name) *)
MarkStopping(m) == stopping' = IF IsActive(m) THEN stopping \cup {m} ELSE stopping

UnloadVictim(c) ==
    /\ clientPc[c] = "unload"
    /\ MarkStopping(victim[c])
    /\ Go(c, "evict")
    /\ UNCHANGED <<metaVars, instanceVars, routerVars, wants, victim, requests, overlapped, crashes>>

NoEvictionWait(c) == clientPc[c] = "evict"    \* mutant: the victim is not waited for
EvictionDone(c) == clientPc[c] = "evict" /\ status[victim[c]] = "unloaded"
AwaitEviction(c) ==
    /\ EvictionDone(c)
    /\ Go(c, "load")
    /\ victim' = [victim EXCEPT ![c] = NoModel]
    /\ UNCHANGED <<metaVars, stopping, instanceVars, routerVars, wants, requests, overlapped,
                   crashes>>

(* load(): somebody else may have loaded the model meanwhile; no port or no *)
(* process is an exception that leaves everything as it was.                *)
Load(c) ==
    /\ clientPc[c] = "load"
    /\ \/ /\ status[wants[c]] # "unloaded"
          /\ Go(c, "wait")
          /\ UNCHANGED <<wants, metaVars, instanceVars>>
       \/ /\ status[wants[c]] = "unloaded"
          /\ Leave(c)
          /\ UNCHANGED <<metaVars, instanceVars>>
       \/ /\ status[wants[c]] = "unloaded"
          /\ StartInstance(wants[c])
          /\ Go(c, "wait")
          /\ UNCHANGED wants
    /\ UNCHANGED <<stopping, routerVars, victim, requests, overlapped, crashes>>

(* wait_until_loaded, and the last look at the status *)
WaitUntilLoaded(c) ==
    /\ clientPc[c] = "wait"
    /\ status[wants[c]] # "loading"
    /\ Go(c, "check")
    /\ UNCHANGED <<metaVars, stopping, instanceVars, routerVars, wants, victim, requests,
                   overlapped, crashes>>

CheckFinalStatus(c) ==    \* an exception if IsFailed(wants[c]), else the request is forwarded
    /\ clientPc[c] = "check"
    /\ Leave(c)
    /\ UNCHANGED <<metaVars, stopping, instanceVars, routerVars, victim, requests, overlapped,
                   crashes>>

(* POST /models/unload *)
Unload(m) ==
    /\ router = "serving"
    /\ MarkStopping(m)
    /\ UNCHANGED <<metaVars, instanceVars, clientVars, routerVars, crashes>>

(* unload_all: every active model is told to stop, every thread is taken    *)
(* out of mapping and joined without the mutex.                             *)
UnloadAll ==
    /\ router = "serving"
    /\ stopping' = stopping \cup Active
    /\ pending' = {m \in Models : monitor[m] # "off"}
    /\ router' = "joining"
    /\ UNCHANGED <<metaVars, instanceVars, clientVars, crashes>>

JoinedAll ==
    /\ router = "joining" /\ pending = {}
    /\ router' = "returned"
    /\ UNCHANGED <<metaVars, stopping, instanceVars, clientVars, pending, crashes>>

-----------------------------------------------------------------------------
(* The child: setup_child_server reports READY when the model is in memory; *)
(* the exit command is read after that only.  It may die at any time.       *)
ChildReady(m) ==
    /\ proc[m] = "starting"
    /\ proc'  = [proc EXCEPT ![m] = "serving"]
    /\ ready' = [ready EXCEPT ![m] = "sent"]
    /\ UNCHANGED <<metaVars, stopping, monitor, stopper, told, clientVars, routerVars, crashes>>

ChildExits(m) ==
    /\ proc[m] = "serving" /\ told[m]
    /\ proc' = [proc EXCEPT ![m] = "exited"]
    /\ UNCHANGED <<metaVars, stopping, monitor, stopper, ready, told, clientVars, routerVars, crashes>>

ChildDies(m) ==
    /\ proc[m] \in {"starting", "serving"} /\ crashes < MaxCrashes
    /\ proc' = [proc EXCEPT ![m] = "died"]
    /\ crashes' = crashes + 1
    /\ UNCHANGED <<metaVars, stopping, monitor, stopper, ready, told, clientVars, routerVars>>

-----------------------------------------------------------------------------
(* log_thread: the READY line makes the model LOADED (update_status). *)
LogReady(m) ==
    /\ ready[m] = "sent"
    /\ ready'  = [ready EXCEPT ![m] = "seen"]
    /\ status' = [status EXCEPT ![m] = "loaded"]
    /\ failed' = [failed EXCEPT ![m] = FALSE]
    /\ UNCHANGED <<used, stopping, monitor, stopper, proc, told, clientVars, routerVars, crashes>>

(* stopping_thread: it waits until the model is among stopping_models,      *)
(* sends the exit command, and then looks every second whether the          *)
(* monitoring thread has taken the name out, until stop_timeout.            *)
SendExit(m) ==
    /\ stopper[m] = "wait" /\ m \in stopping
    /\ stopper' = [stopper EXCEPT ![m] = "timed"]
    /\ told' = [told EXCEPT ![m] = TRUE]
    /\ UNCHANGED <<metaVars, stopping, monitor, proc, ready, clientVars, routerVars, crashes>>

AlreadyStopped(m) ==
    /\ stopper[m] = "timed" /\ m \notin stopping
    /\ stopper' = [stopper EXCEPT ![m] = "done"]
    /\ UNCHANGED <<metaVars, stopping, monitor, proc, ready, told, clientVars, routerVars, crashes>>

GiveUp(m) ==              \* mutant: the time-out ends the thread and kills nobody
    /\ stopper[m] = "timed" /\ m \in stopping
    /\ stopper' = [stopper EXCEPT ![m] = "done"]
    /\ UNCHANGED <<metaVars, stopping, monitor, proc, ready, told, clientVars, routerVars, crashes>>
ForceKill(m) ==
    /\ stopper[m] = "timed" /\ m \in stopping
    /\ stopper' = [stopper EXCEPT ![m] = "done"]
    /\ proc' = [proc EXCEPT ![m] = IF @ = "exited" THEN @ ELSE "died"]
    /\ UNCHANGED <<metaVars, stopping, monitor, ready, told, clientVars, routerVars, crashes>>

(* The monitoring thread: log_thread ends when the child has closed its     *)
(* output and every line has been read; then the name is taken out of       *)
(* stopping_models, stopping_thread is joined, and the exit code stored.    *)
OutputClosed(m) == proc[m] \in {"exited", "died"} /\ ready[m] # "sent"
ChildEnded(m) ==
    /\ monitor[m] = "watch"
    /\ OutputClosed(m)
    /\ stopping' = stopping \ {m}
    /\ monitor' = [monitor EXCEPT ![m] = "join"]
    /\ UNCHANGED <<metaVars, stopper, proc, ready, told, clientVars, routerVars, crashes>>

StopperJoined(m) == monitor[m] = "join" /\ stopper[m] = "done"
ReportsUnread(m) ==       \* mutant: neither log_thread nor stopping_thread is joined
    /\ monitor[m] \in {"watch", "join"} /\ proc[m] \in {"exited", "died"}
    /\ status'  = [status EXCEPT ![m] = "unloaded"]
    /\ failed'  = [failed EXCEPT ![m] = proc[m] = "died"]
    /\ monitor' = [monitor EXCEPT ![m] = "off"]
    /\ stopper' = [stopper EXCEPT ![m] = "off"]
    /\ proc'    = [proc EXCEPT ![m] = "none"]
    /\ used'    = RemoveFirst(used, m)
    /\ UNCHANGED <<stopping, ready, told, clientVars, routerVars, crashes>>
ReportExit(m) ==
    /\ StopperJoined(m)
    /\ status'  = [status EXCEPT ![m] = "unloaded"]
    /\ failed'  = [failed EXCEPT ![m] = proc[m] = "died"]
    /\ monitor' = [monitor EXCEPT ![m] = "off"]
    /\ stopper' = [stopper EXCEPT ![m] = "off"]
    /\ proc'    = [proc EXCEPT ![m] = "none"]
    /\ ready'   = [ready EXCEPT ![m] = "no"]
    /\ told'    = [told EXCEPT ![m] = FALSE]
    /\ used'    = RemoveFirst(used, m)
    /\ pending' = IF router = "joining" THEN pending \ {m} ELSE pending
    /\ UNCHANGED <<stopping, clientVars, router, crashes>>

-----------------------------------------------------------------------------
Client(c) == \/ UnloadLru(c) \/ UnloadVictim(c) \/ AwaitEviction(c) \/ Load(c)
             \/ WaitUntilLoaded(c) \/ CheckFinalStatus(c)
Instance(m) == \/ LogReady(m) \/ SendExit(m) \/ AlreadyStopped(m) \/ ForceKill(m)
               \/ ChildEnded(m) \/ ReportExit(m)

Next ==
    \/ LoadAtStartup
    \/ \E c \in Clients, m \in Models : Request(c, m)
    \/ \E c \in Clients : Client(c)
    \/ \E m \in Models : Unload(m)
    \/ UnloadAll \/ JoinedAll
    \/ \E m \in Models : ChildReady(m) \/ ChildExits(m) \/ ChildDies(m)
    \/ \E m \in Models : Instance(m)

Spec == Init /\ [][Next]_vars

(* Every thread goes on, the polling loop of stopping_thread reaches its    *)
(* time-out, and a child either gets ready or exits.  A child need not obey *)
(* the exit command, and nobody has to ask for an unload.                   *)
Fairness ==
    /\ WF_vars(LoadAtStartup)
    /\ \A c \in Clients : WF_vars(Client(c))
    /\ \A m \in Models :
        /\ WF_vars(ChildReady(m)) /\ WF_vars(LogReady(m))
        /\ WF_vars(SendExit(m)) /\ WF_vars(AlreadyStopped(m)) /\ WF_vars(ForceKill(m))
        /\ WF_vars(ChildEnded(m)) /\ WF_vars(ReportExit(m))
    /\ WF_vars(JoinedAll)

FairSpec == Spec /\ Fairness

-----------------------------------------------------------------------------
InstanceTypes ==
    /\ status \in [Models -> Statuses] /\ failed \in [Models -> BOOLEAN]
    /\ monitor \in [Models -> Monitors] /\ stopper \in [Models -> Stoppers]
    /\ proc \in [Models -> Procs] /\ ready \in [Models -> {"no", "sent", "seen"}]
    /\ told \in [Models -> BOOLEAN]

(* Variables keep their types; the order of use names each active model     *)
(* once and no other.                                                       *)
TypeOK ==
    /\ InstanceTypes
    /\ used \in Seq(Models) /\ IsInjective(used)
    /\ Range(used) = Active
    /\ stopping \subseteq Models
    /\ clientPc \in [Clients -> ClientPcs]
    /\ {wants, victim} \subseteq [Clients -> Models \cup {NoModel}]
    /\ router \in Routers /\ pending \subseteq Models
    /\ requests \in 0..MaxRequests /\ crashes \in 0..MaxCrashes
    /\ overlapped \in BOOLEAN

(* The status is the truth about the instance: an UNLOADED model has no     *)
(* process and no thread, so that load(), which joins the old thread with   *)
(* the mutex held, never blocks the router ("old process should have exited *)
(* already"); a LOADED one has reported READY, and one with a status other  *)
(* than UNLOADED has a thread that will change it.                          *)
StatusIsTrue ==
    \A m \in Models :
        /\ status[m] = "unloaded" <=> monitor[m] = "off"
        /\ status[m] = "unloaded" => proc[m] = "none" /\ stopper[m] = "off"
        /\ status[m] = "loaded" => ready[m] = "seen"

(* The state diagram at the top of server-models.h: a model is LOADED only  *)
(* from LOADING and starts only from UNLOADED, although the thread that     *)
(* reads READY and the one that collects the child write the same field.    *)
StateDiagram ==
    [][\A m \in Models :
        /\ status[m] = "unloaded" => status'[m] # "loaded"
        /\ status[m] = "loaded"   => status'[m] # "loading"]_vars

(* At most models_max models are active, as long as no two threads have     *)
(* been in load() at once: unload_lru decides before load() takes the mutex *)
(* again, and two threads that overlap may each start a model.              *)
LimitKept == ModelsMax > 0 /\ ~overlapped => Cardinality(Active) <= ModelsMax

(* A child ended by itself before anybody asked for its model to be         *)
(* unloaded, or before its stopping_thread woke up: that thread waits for a *)
(* name the monitoring thread has already taken out, and is joined for ever.*)
Abandoned(m) == monitor[m] = "join" /\ stopper[m] = "wait" /\ m \notin stopping

(* The victim stopped and was loaded again before the client that waits for *)
(* it took the mutex.                                                       *)
LoadedAgain(c) ==
    clientPc[c] = "evict" /\ monitor[victim[c]] = "watch" /\ victim[c] \notin stopping

(* Every request for a model ends, and unload_all returns, whatever unloads *)
(* and exits interleave with it, unless an instance is Abandoned or the     *)
(* victim was loaded again; only these two can block a thread for ever.     *)
RequestsEnd ==
    /\ \A c \in Clients :
        clientPc[c] # "idle"
            ~> \/ clientPc[c] = "idle" \/ LoadedAgain(c)
               \/ \E m \in Models : Abandoned(m)
    /\ router = "joining" ~> router = "returned" \/ \E m \in Models : Abandoned(m)

(* "wait until the model instance is fully loaded; return when the model is *)
(* loaded or failed to load" (server-models.h).                             *)
WaitReturns == \A c \in Clients : clientPc[c] = "wait" ~> clientPc[c] # "wait"

(* unload_lru, "unload least recently used models if the limit is reached": *)
(* at most models_max are active.                                           *)
AtMostModelsMax == ModelsMax > 0 => Cardinality(Active) <= ModelsMax
=============================================================================
