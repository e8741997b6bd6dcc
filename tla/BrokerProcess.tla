---------------------------- MODULE BrokerProcess ----------------------------
(***************************************************************************)
(* One broker process: serve and install_signal_handlers of main.py, the   *)
(* application's lifespan (app.py), the two servers over one shared set of *)
(* clients (app.py, grpcserver/server.py), and shutdown by signal or by a  *)
(* failed bind.                                                            *)
(*                                                                         *)
(* uvicorn, grpc.aio and asyncio are modelled as serve uses them.  uvicorn *)
(* stops accepting when should_exit is set, waits for its requests without *)
(* a limit, and runs the lifespan's exit; but it returns at once, with its *)
(* socket open, if should_exit is set when its startup ends, and without   *)
(* waiting if SIGINT comes when should_exit is set.  A stopping gRPC       *)
(* server accepts nothing, cancels what runs when the grace period is      *)
(* over, and is down when no call runs; a further stop waits for the first *)
(* and changes neither.  A failed bind raises SystemExit, on which         *)
(* asyncio.run cancels every task and still runs serve's finally block;    *)
(* when serve has returned it cancels whatever is left.                    *)
(***************************************************************************)
EXTENDS Naturals, Sequences

CONSTANTS
  Rpc,              \* gRPC calls, each an asyncio task
  Request           \* HTTP requests, each an asyncio task

ASSUME TasksAssumption == Rpc \cap Request = {}

VARIABLES
  phase,            \* where serve is, or how the process ended
  handlers,         \* initiate_shutdown is installed
  shouldExit,       \* http_server.should_exit
  forceExit,        \* http_server.force_exit
  stopTask,         \* a task that runs grpc_server.stop is scheduled
  http,             \* the HTTP server: "off", "up", "draining", "down", or
                    \* "deserted": serve() has returned, the socket is open
  rpc,              \* the gRPC server: "off", "up", "grace", "abort", "down"
  open,             \* the clients that are open
  todo,             \* what the finally block has still to close
  task,             \* task[t]: "idle", "running", "done", "cut"
  closeFailed       \* history: an aclose or dispose raised

vars == <<phase, handlers, shouldExit, forceExit, stopTask, http, rpc, open, todo, task,
          closeFailed>>

Task  == Rpc \cup Request
Alive == {"boot", "start", "install", "gather", "stopping", "closing"}

(* What the handlers of each server were given: serve's own clients.       *)
RequestUses == {"http_client", "redis_client", "engine"}
RpcUses     == {"http_client", "redis_client", "engine"}
Uses(t) == IF t \in Rpc THEN RpcUses ELSE RequestUses

(* Mutation: the session factory is disposed of in the engine's place. *)
FactoryCloseOrder == <<"http_client", "redis_client", "session_factory">>

(* Mutation: the engine is not disposed of. *)
ShortCloseOrder == <<"http_client", "redis_client">>

(* The finally block, after the stop. *)
CloseOrder == <<"http_client", "redis_client", "engine">>

(* Mutation: the application closes the client it was given. *)
AlwaysOwns == TRUE

(* owns_client: serve gives create_app a client. *)
OwnsClient == FALSE

(* The lifespan's exit. *)
Lifespan == open' = IF OwnsClient THEN open \ {"http_client"} ELSE open

Running(set) == {t \in set : task[t] = "running"}

(* asyncio cancels these tasks. *)
CutAll(set) == task' = [t \in Task |->
                 IF t \in set /\ task[t] = "running" THEN "cut" ELSE task[t]]

(* grpc_server.stop(grace), up to its first await. *)
Stopped(server) == IF server = "up" THEN "grace" ELSE server

-----------------------------------------------------------------------------
(* serve. *)

(* The clients, the application and the two servers are built; a setting,  *)
(* a key or the gRPC port may be refused.                                  *)
Build ==
  /\ phase = "boot"
  /\ \/ phase' = "start" /\ open' = RpcUses \cup RequestUses
     \/ phase' = "crashed" /\ UNCHANGED open
  /\ UNCHANGED <<handlers, shouldExit, forceExit, stopTask, http, rpc, todo, task, closeFailed>>

(* await grpc_server.start() *)
StartGrpc ==
  /\ phase = "start"
  /\ \/ phase' = "install" /\ rpc' = "up"
     \/ phase' = "crashed" /\ UNCHANGED rpc
  /\ UNCHANGED <<handlers, shouldExit, forceExit, stopTask, http, open, todo, task, closeFailed>>

(* install_signal_handlers, and on to the gather. *)
Install ==
  /\ phase = "install"
  /\ handlers' = TRUE
  /\ phase' = "gather"
  /\ UNCHANGED <<shouldExit, forceExit, stopTask, http, rpc, open, todo, task, closeFailed>>

(* http_server.serve() binds its port, and returns if it is to exit        *)
(* already; or it fails to bind, ends the lifespan and exits.              *)
Bind ==
  /\ phase = "gather" /\ http = "off"
  /\ \/ /\ http' = IF shouldExit THEN "deserted" ELSE "up"
        /\ UNCHANGED <<phase, open, task, stopTask>>
     \/ /\ http' = "down" /\ phase' = "stopping"
        /\ Lifespan
        /\ CutAll(Task) /\ stopTask' = FALSE
  /\ UNCHANGED <<handlers, shouldExit, forceExit, rpc, todo, closeFailed>>

(* Both halves of the gather have returned. *)
Gathered ==
  /\ phase = "gather" /\ http \in {"down", "deserted"} /\ rpc = "down"
  /\ phase' = "stopping"
  /\ UNCHANGED <<handlers, shouldExit, forceExit, stopTask, http, rpc, open, todo, task, closeFailed>>

(* finally: await grpc_server.stop(grace), called ... *)
FinallyStop ==
  /\ phase = "stopping" /\ Stopped(rpc) # rpc
  /\ rpc' = Stopped(rpc)
  /\ UNCHANGED <<phase, handlers, shouldExit, forceExit, stopTask, http, open, todo, task, closeFailed>>

(* ... and returned. *)
FinallyStopped ==
  /\ phase = "stopping" /\ rpc = "down"
  /\ phase' = "closing" /\ todo' = CloseOrder
  /\ UNCHANGED <<handlers, shouldExit, forceExit, stopTask, http, rpc, open, task, closeFailed>>

(* The next aclose or dispose; if it raises the rest is left.  Then serve  *)
(* returns, asyncio.run cancels what still runs and the process ends.      *)
Close ==
  /\ phase = "closing"
  /\ \/ /\ todo # <<>>
        /\ \/ /\ open' = open \ {Head(todo)} /\ todo' = Tail(todo)
              /\ UNCHANGED <<phase, task, closeFailed>>
           \/ /\ closeFailed' = TRUE
              /\ phase' = "exited" /\ CutAll(Task)
              /\ UNCHANGED <<open, todo>>
     \/ /\ todo = <<>>
        /\ phase' = "exited" /\ CutAll(Task)
        /\ UNCHANGED <<open, todo, closeFailed>>
  /\ UNCHANGED <<handlers, shouldExit, forceExit, stopTask, http, rpc>>

-----------------------------------------------------------------------------
(* Signals. *)

(* Mutation: initiate_shutdown leaves the gRPC server alone. *)
HttpOnly == shouldExit' = TRUE /\ UNCHANGED stopTask

(* initiate_shutdown *)
InitiateShutdown == shouldExit' = TRUE /\ stopTask' = TRUE

(* uvicorn's own handler, which it installs beside initiate_shutdown while *)
(* it serves: SIGINT once it is to exit forces it.                         *)
HandleExit(sig) ==
  forceExit' = (forceExit \/ (sig = "SIGINT" /\ shouldExit /\ http \in {"up", "draining"}))

(* SIGTERM or SIGINT, any number of times (uvicorn raises the ones it saw  *)
(* once more); before the handlers are installed it ends the process.      *)
Signal(sig) ==
  /\ phase \in Alive
  /\ \/ /\ handlers
        /\ InitiateShutdown /\ HandleExit(sig)
        /\ UNCHANGED <<phase, task>>
     \/ /\ ~handlers
        /\ phase' = "killed"
        /\ CutAll(Task)
        /\ UNCHANGED <<shouldExit, forceExit, stopTask>>
  /\ UNCHANGED <<handlers, http, rpc, open, todo, closeFailed>>

(* The scheduled stop runs up to its first await. *)
RunStopTask ==
  /\ phase \in Alive /\ stopTask
  /\ stopTask' = FALSE
  /\ rpc' = Stopped(rpc)
  /\ UNCHANGED <<phase, handlers, shouldExit, forceExit, http, open, todo, task, closeFailed>>

-----------------------------------------------------------------------------
(* The servers. *)

(* A call or a request arrives at an accepting server ... *)
Accept(t) ==
  /\ phase \in Alive /\ task[t] = "idle"
  /\ IF t \in Rpc THEN rpc = "up" ELSE http \in {"up", "deserted"}
  /\ task' = [task EXCEPT ![t] = "running"]
  /\ UNCHANGED <<phase, handlers, shouldExit, forceExit, stopTask, http, rpc, open, todo, closeFailed>>

(* ... and is answered. *)
Answer(t) ==
  /\ phase \in Alive /\ task[t] = "running"
  /\ task' = [task EXCEPT ![t] = "done"]
  /\ UNCHANGED <<phase, handlers, shouldExit, forceExit, stopTask, http, rpc, open, todo, closeFailed>>

(* uvicorn's main loop sees should_exit and stops accepting. *)
Drain ==
  /\ phase \in Alive /\ http = "up" /\ shouldExit
  /\ http' = "draining"
  /\ UNCHANGED <<phase, handlers, shouldExit, forceExit, stopTask, rpc, open, todo, task, closeFailed>>

(* No request is left and the lifespan ends, or neither is waited for:     *)
(* http_server.serve() returns.                                            *)
HttpDown ==
  /\ phase \in Alive /\ http = "draining"
  /\ \/ ~forceExit /\ Running(Request) = {} /\ Lifespan
     \/ forceExit /\ UNCHANGED open
  /\ http' = "down"
  /\ UNCHANGED <<phase, handlers, shouldExit, forceExit, stopTask, rpc, todo, task, closeFailed>>

(* _SHUTDOWN_GRACE_SECONDS are over: what still runs is cancelled. *)
GraceOver ==
  /\ phase \in Alive /\ rpc = "grace"
  /\ rpc' = "abort"
  /\ CutAll(Rpc)
  /\ UNCHANGED <<phase, handlers, shouldExit, forceExit, stopTask, http, open, todo, closeFailed>>

(* No call is left: stop and wait_for_termination return. *)
GrpcDown ==
  /\ phase \in Alive /\ rpc \in {"grace", "abort"} /\ Running(Rpc) = {}
  /\ rpc' = "down"
  /\ UNCHANGED <<phase, handlers, shouldExit, forceExit, stopTask, http, open, todo, task, closeFailed>>

-----------------------------------------------------------------------------
Init ==
  /\ phase = "boot" /\ handlers = FALSE
  /\ shouldExit = FALSE /\ forceExit = FALSE /\ stopTask = FALSE
  /\ http = "off" /\ rpc = "off"
  /\ open = {} /\ todo = <<>>
  /\ task = [t \in Task |-> "idle"]
  /\ closeFailed = FALSE

Serve == \/ Build \/ StartGrpc \/ Install \/ Bind \/ Gathered
         \/ FinallyStop \/ FinallyStopped \/ Close

Next ==
  \/ Serve
  \/ (\E sig \in {"SIGTERM", "SIGINT"} : Signal(sig)) \/ RunStopTask
  \/ Drain \/ HttpDown \/ GraceOver \/ GrpcDown
  \/ \E t \in Task : Accept(t) \/ Answer(t)

Spec == Init /\ [][Next]_vars

(* The event loop runs what is ready, timers fire, and every request ends, *)
(* its provider call having a timeout of 15 seconds and bounded retries.   *)
Fairness ==
  /\ WF_vars(Serve) /\ WF_vars(RunStopTask)
  /\ WF_vars(Drain) /\ WF_vars(HttpDown) /\ WF_vars(GraceOver) /\ WF_vars(GrpcDown)
  /\ \A t \in Task : WF_vars(Answer(t))

FairSpec == Spec /\ Fairness

-----------------------------------------------------------------------------
(* Properties. *)

TypeOK ==
  /\ phase \in Alive \cup {"crashed", "killed", "exited"}
  /\ handlers \in BOOLEAN /\ shouldExit \in BOOLEAN /\ forceExit \in BOOLEAN
  /\ stopTask \in BOOLEAN
  /\ http \in {"off", "up", "draining", "down", "deserted"}
  /\ rpc \in {"off", "up", "grace", "abort", "down"}
  /\ open \subseteq RpcUses \cup RequestUses
  /\ todo \in Seq(RpcUses \cup RequestUses)
  /\ task \in [Task -> {"idle", "running", "done", "cut"}]
  /\ closeFailed \in BOOLEAN

(* uvicorn does not wait for its requests: a signal came before its        *)
(* startup was over, or SIGINT when it was to exit already.                *)
Unattended == http = "deserted" \/ forceExit

(* "serve() owns its lifetime" (main.py:77) and "Only close a client we    *)
(* created" (app.py:69): however the drain of one server overlaps the      *)
(* grace period of the other, and after a failed bind, no call ever runs   *)
(* on a client that was closed, and no request does either unless uvicorn  *)
(* has left it unattended, which serve does not look at.                   *)
NoUseAfterClose ==
  \A t \in Task : phase \in Alive /\ task[t] = "running" =>
    Uses(t) \subseteq open \/ (t \in Request /\ Unattended)

(* A process that goes through the finally block closes every client,      *)
(* unless a close raised, and cuts no request short that uvicorn did not   *)
(* leave unattended: "a graceful stop of both servers" (main.py:115).      *)
CleanExit ==
  phase = "exited" =>
    /\ closeFailed \/ open = {}
    /\ \A q \in Request : task[q] = "cut" => Unattended

(* "so both halves of the gather in serve() return and cleanup stays       *)
(* reachable" (main.py:119-120): a signal, at whatever moment and however  *)
(* often repeated, ends in an exit through the finally block.              *)
ShutdownCompletes == shouldExit ~> phase = "exited"

-----------------------------------------------------------------------------
(* What makes the safety properties inductive. *)

(* A server runs calls only from its start until it is down, unless uvicorn *)
(* was forced; until then no request is cut.                               *)
QuietServers ==
  /\ rpc \in {"off", "down"} => Running(Rpc) = {}
  /\ http = "off" => Running(Request) = {}
  /\ http = "down" /\ ~forceExit => Running(Request) = {}
  /\ phase \in Alive => \A q \in Request : task[q] # "cut"
  /\ phase = "exited" => \A q \in Request : task[q] = "cut" => Unattended

(* The servers start after the clients are built and are down before the   *)
(* first of them is closed.                                                *)
ServersInPhase ==
  /\ phase \in {"boot", "start"} => rpc = "off"
  /\ phase \in {"boot", "start", "install"} => http = "off"
  /\ phase \in {"stopping", "closing", "exited"} => http \in {"down", "deserted"}
  /\ phase \in {"closing", "exited"} => rpc = "down"

(* Only the finally block closes clients, in its order. *)
ClientsInPhase ==
  /\ phase \in {"start", "install", "gather", "stopping"} => open = RpcUses \cup RequestUses
  /\ phase = "closing" =>
       \/ todo = CloseOrder /\ open = {"http_client", "redis_client", "engine"}
       \/ todo = Tail(CloseOrder) /\ open = {"redis_client", "engine"}
       \/ todo = Tail(Tail(CloseOrder)) /\ open = {"engine"}
       \/ todo = <<>> /\ open = {}
  /\ phase = "exited" => closeFailed \/ open = {}
==============================================================================
