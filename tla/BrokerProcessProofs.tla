------------------------- MODULE BrokerProcessProofs -------------------------
(***************************************************************************)
(* Proofs about BrokerProcess, for any number of calls and requests.       *)
(***************************************************************************)
EXTENDS BrokerProcess, TLAPS

Client == {"http_client", "redis_client", "engine"}

Inv == TypeOK /\ QuietServers /\ ServersInPhase /\ ClientsInPhase

(* The finally block's list, and what is left of it after each close. *)
LEMMA CloseOrderTails ==
  /\ CloseOrder \in Seq(Client) /\ CloseOrder # <<>> /\ Head(CloseOrder) = "http_client"
  /\ Tail(CloseOrder) \in Seq(Client) /\ Tail(CloseOrder) # <<>>
  /\ Head(Tail(CloseOrder)) = "redis_client"
  /\ Tail(Tail(CloseOrder)) \in Seq(Client) /\ Tail(Tail(CloseOrder)) # <<>>
  /\ Head(Tail(Tail(CloseOrder))) = "engine"
  /\ Tail(Tail(Tail(CloseOrder))) = <<>>
<1>1. CloseOrder \in Seq(Client)
  BY DEF CloseOrder, Client
<1>2. Tail(CloseOrder) = <<"redis_client", "engine">>
  BY DEF CloseOrder
<1>3. Tail(Tail(CloseOrder)) = <<"engine">>
  <2>1. Tail(<<"redis_client", "engine">>) = <<"engine">>
    OBVIOUS
  <2> QED
    BY <1>2, <2>1
<1> QED
  BY <1>1, <1>2, <1>3 DEF CloseOrder, Client

LEMMA InvInit == Init => Inv
<1> SUFFICES ASSUME Init PROVE Inv
  OBVIOUS
<1>1. TypeOK
  <2>1. task \in [Task -> {"idle", "running", "done", "cut"}]
    BY DEF Init
  <2>2. todo \in Seq(RpcUses \cup RequestUses)
    BY DEF Init
  <2> QED
    BY <2>1, <2>2 DEF Init, TypeOK, Alive
<1>2. QuietServers
  <2>1. \A t \in Rpc \cup Request : task[t] = "idle"
    BY DEF Init, Task
  <2> QED
    BY <2>1 DEF Init, QuietServers, Running
<1>3. ServersInPhase /\ ClientsInPhase
  BY DEF Init, ServersInPhase, ClientsInPhase
<1> QED
  BY <1>1, <1>2, <1>3 DEF Inv

LEMMA TypeNext == TypeOK /\ [Next]_vars => TypeOK'
<1> SUFFICES ASSUME TypeOK, [Next]_vars PROVE TypeOK'
  OBVIOUS
<1> USE DEF TypeOK, Alive
<1>1. RpcUses \cup RequestUses = Client
  BY DEF RpcUses, RequestUses, Client
<1>2. ASSUME Build \/ StartGrpc \/ Install \/ Gathered \/ FinallyStop PROVE TypeOK'
  <2>1. CASE Build
    BY <1>1, <2>1 DEF Build
  <2>2. CASE StartGrpc
    BY <2>2 DEF StartGrpc
  <2>3. CASE Install \/ Gathered
    BY <2>3 DEF Install, Gathered
  <2>4. CASE FinallyStop
    BY <2>4 DEF FinallyStop, Stopped
  <2> QED
    BY <1>2, <2>1, <2>2, <2>3, <2>4
<1>3. CASE Bind
  BY <1>3 DEF Bind, Lifespan, OwnsClient, CutAll
<1>4. CASE FinallyStopped
  BY <1>1, <1>4, CloseOrderTails DEF FinallyStopped
<1>5. CASE Close
  <2>1. todo # <<>> => Tail(todo) \in Seq(Client)
    BY <1>1
  <2>2. todo' \in Seq(Client) /\ open' \subseteq Client
    BY <1>1, <1>5, <2>1 DEF Close
  <2>3. phase' \in Alive \cup {"exited"} /\ closeFailed' \in BOOLEAN
    BY <1>5 DEF Close
  <2>4. task' \in [Task -> {"idle", "running", "done", "cut"}]
    BY <1>5 DEF Close, CutAll
  <2> QED
    BY <1>1, <1>5, <2>2, <2>3, <2>4 DEF Close
<1>6. ASSUME NEW sig \in {"SIGTERM", "SIGINT"}, Signal(sig) PROVE TypeOK'
  BY <1>6 DEF Signal, InitiateShutdown, HandleExit, CutAll
<1>7. ASSUME RunStopTask \/ Drain \/ HttpDown \/ GrpcDown PROVE TypeOK'
  <2>1. CASE RunStopTask
    BY <2>1 DEF RunStopTask, Stopped
  <2>2. CASE Drain
    BY <2>2 DEF Drain
  <2>3. CASE HttpDown
    BY <2>3 DEF HttpDown, Lifespan, OwnsClient
  <2>4. CASE GrpcDown
    BY <2>4 DEF GrpcDown
  <2> QED
    BY <1>7, <2>1, <2>2, <2>3, <2>4
<1>8. CASE GraceOver
  BY <1>8 DEF GraceOver, CutAll
<1>9. ASSUME NEW t \in Task, Accept(t) \/ Answer(t) PROVE TypeOK'
  BY <1>9 DEF Accept, Answer
<1>10. CASE UNCHANGED vars
  BY <1>10 DEF vars
<1> QED
  BY <1>2, <1>3, <1>4, <1>5, <1>6, <1>7, <1>8, <1>9, <1>10 DEF Next, Serve

(* Cancelling tasks starts none. *)
LEMMA CutStopsTasks ==
  ASSUME NEW set, CutAll(set), NEW t \in Task, task'[t] = "running"
  PROVE  task[t] = "running" /\ t \notin set
  BY DEF CutAll

LEMMA QuietNext == Inv /\ [Next]_vars => QuietServers'
<1> SUFFICES ASSUME Inv, [Next]_vars PROVE QuietServers'
  OBVIOUS
<1> USE DEF Inv, QuietServers, Running, TypeOK
<1>1. Rpc \subseteq Task /\ Request \subseteq Task
  BY DEF Task
<1>2. ASSUME Build \/ StartGrpc \/ Install \/ Gathered \/ FinallyStop \/ FinallyStopped
      PROVE  QuietServers'
  BY <1>2 DEF Build, StartGrpc, Install, Gathered, FinallyStop, FinallyStopped, Stopped, Alive
<1>3. CASE Bind
  <2>1. CASE task' = task /\ http' \in {"up", "deserted"} /\ phase' = phase
    BY <1>3, <2>1 DEF Bind, Alive
  <2>2. CASE CutAll(Task) /\ phase' = "stopping"
    <3>1. \A q \in Request : task'[q] \notin {"running", "cut"}
      BY <1>1, <1>3, <2>2 DEF CutAll, Bind, Alive
    <3>2. \A c \in Rpc : task'[c] # "running"
      BY <1>1, <2>2 DEF CutAll
    <3> QED
      BY <2>2, <3>1, <3>2
  <2> QED
    BY <1>3, <2>1, <2>2 DEF Bind
<1>4. ASSUME NEW sig \in {"SIGTERM", "SIGINT"}, Signal(sig) PROVE QuietServers'
  <2>1. CASE UNCHANGED <<phase, task>> /\ forceExit' \in {forceExit, TRUE}
    <3>1. phase # "exited" /\ UNCHANGED <<http, rpc>>
      BY <1>4 DEF Signal, Alive
    <3>2. ~forceExit' => ~forceExit
      BY <2>1
    <3> QED
      BY <2>1, <3>1, <3>2
  <2>2. CASE CutAll(Task) /\ phase' = "killed"
    BY <1>1, <2>2 DEF CutAll, Alive
  <2> QED
    BY <1>4, <2>1, <2>2 DEF Signal, HandleExit
<1>5. CASE Close
  <2>1. CASE UNCHANGED <<phase, task>>
    BY <1>5, <2>1 DEF Close
  <2>2. CASE phase' = "exited" /\ CutAll(Task)
    <3>1. /\ \A t \in Task : task'[t] # "running"
          /\ \A q \in Request : task'[q] = "cut" => task[q] = "running"
      BY <1>1, <1>5, <2>2 DEF CutAll, Close, Alive
    <3>2. \A q \in Request : task[q] = "running" => Unattended
      BY <1>5 DEF Close, ServersInPhase, Unattended
    <3>3. Unattended' = Unattended
      BY <1>5 DEF Close, Unattended
    <3> QED
      BY <1>1, <2>2, <3>1, <3>2, <3>3 DEF Alive
  <2> QED
    BY <1>5, <2>1, <2>2 DEF Close
<1>6. ASSUME RunStopTask \/ Drain \/ HttpDown \/ GrpcDown PROVE QuietServers'
  BY <1>6 DEF RunStopTask, Stopped, Drain, HttpDown, GrpcDown, Alive
<1>7. CASE GraceOver
  <2>1. /\ \A t \in Task : task'[t] = "running" => task[t] = "running"
        /\ \A q \in Request : task'[q] = task[q]
    BY <1>1, <1>7, TasksAssumption DEF GraceOver, CutAll
  <2> QED
    BY <1>1, <1>7, <2>1 DEF GraceOver, Alive
<1>8. ASSUME NEW t \in Task, Accept(t) \/ Answer(t) PROVE QuietServers'
  BY <1>1, <1>8, TasksAssumption DEF Accept, Answer, Task, Alive
<1>9. CASE UNCHANGED vars
  BY <1>9 DEF vars, Unattended
<1> QED
  BY <1>2, <1>3, <1>4, <1>5, <1>6, <1>7, <1>8, <1>9 DEF Next, Serve

LEMMA PhasesNext == Inv /\ [Next]_vars => ServersInPhase' /\ ClientsInPhase'
<1> SUFFICES ASSUME Inv, [Next]_vars PROVE ServersInPhase' /\ ClientsInPhase'
  OBVIOUS
<1> USE DEF Inv, ServersInPhase, ClientsInPhase, Alive
<1>1. RpcUses \cup RequestUses = Client
  BY DEF RpcUses, RequestUses, Client
<1>2. ASSUME Build \/ StartGrpc \/ Install \/ Gathered \/ FinallyStop
      PROVE  ServersInPhase' /\ ClientsInPhase'
  BY <1>2 DEF Build, StartGrpc, Install, Gathered, FinallyStop, Stopped
<1>3. CASE Bind
  BY <1>3 DEF Bind, Lifespan, OwnsClient
<1>4. CASE FinallyStopped
  BY <1>1, <1>4 DEF FinallyStopped, Client
<1>5. CASE Close
  <2>1. ServersInPhase'
    BY <1>5 DEF Close
  <2>2. CASE todo # <<>> /\ open' = open \ {Head(todo)} /\ todo' = Tail(todo) /\ phase' = phase
    <3>1. CASE todo = CloseOrder
      BY <1>5, <2>2, <3>1, CloseOrderTails DEF Close
    <3>2. CASE todo = Tail(CloseOrder)
      BY <1>5, <2>2, <3>2, CloseOrderTails DEF Close
    <3>3. CASE todo = Tail(Tail(CloseOrder))
      BY <1>5, <2>2, <3>3, CloseOrderTails DEF Close
    <3> QED
      BY <1>5, <2>2, <3>1, <3>2, <3>3 DEF Close
  <2>3. CASE phase' = "exited" /\ closeFailed'
    BY <2>1, <2>3
  <2>4. CASE phase' = "exited" /\ todo = <<>> /\ open' = open
    BY <1>5, <2>4, CloseOrderTails DEF Close
  <2> QED
    BY <1>5, <2>1, <2>2, <2>3, <2>4 DEF Close
<1>6. ASSUME NEW sig \in {"SIGTERM", "SIGINT"}, Signal(sig)
      PROVE  ServersInPhase' /\ ClientsInPhase'
  BY <1>6 DEF Signal
<1>7. ASSUME RunStopTask \/ Drain \/ HttpDown \/ GraceOver \/ GrpcDown
      PROVE  ServersInPhase' /\ ClientsInPhase'
  BY <1>7 DEF RunStopTask, Stopped, Drain, HttpDown, Lifespan, OwnsClient, GraceOver, GrpcDown
<1>8. ASSUME NEW t \in Task, Accept(t) \/ Answer(t) PROVE ServersInPhase' /\ ClientsInPhase'
  BY <1>8 DEF Accept, Answer
<1>9. CASE UNCHANGED vars
  BY <1>9 DEF vars
<1> QED
  BY <1>2, <1>3, <1>4, <1>5, <1>6, <1>7, <1>8, <1>9 DEF Next, Serve

LEMMA InvAlways == Spec => []Inv
<1>1. Inv /\ [Next]_vars => Inv'
  BY TypeNext, QuietNext, PhasesNext DEF Inv
<1> QED
  BY <1>1, InvInit, PTL DEF Spec

(* The phases, servers, clients and tasks stay in range (main.py:135-167). *)
THEOREM TypeCorrect == Spec => []TypeOK
<1>1. Inv => TypeOK
  BY DEF Inv
<1> QED
  BY <1>1, InvAlways, PTL

(* For any number of calls and requests, signals and close failures, and   *)
(* after a failed bind, no call runs on a client that was closed, and no   *)
(* request that uvicorn waits for (main.py:161-167, app.py:66-71).         *)
THEOREM ClientsOutliveTasks == Spec => []NoUseAfterClose
<1>1. ASSUME Inv PROVE NoUseAfterClose
  <2> SUFFICES ASSUME NEW t \in Task, phase \in Alive, task[t] = "running",
                      ~(t \in Request /\ Unattended)
               PROVE  Uses(t) \subseteq open
    BY DEF NoUseAfterClose
  <2>1. rpc \notin {"off", "down"} \/ http \notin {"off", "down", "deserted"}
    BY <1>1 DEF Inv, QuietServers, Running, Task, Unattended
  <2>2. phase \in {"install", "gather", "stopping"}
    BY <1>1, <2>1 DEF Inv, ServersInPhase, Alive
  <2> QED
    BY <1>1, <2>2 DEF Inv, ClientsInPhase, Uses
<1> QED
  BY <1>1, InvAlways, PTL

(* A process that leaves through the finally block leaves nothing open,    *)
(* unless a close raised, and has cut no request that uvicorn waited for   *)
(* (main.py:163-167).                                                      *)
THEOREM ExitsClean == Spec => []CleanExit
<1>1. Inv => CleanExit
  BY DEF Inv, QuietServers, ClientsInPhase, CleanExit
<1> QED
  BY <1>1, InvAlways, PTL
==============================================================================
