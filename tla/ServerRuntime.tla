--------------------------- MODULE ServerRuntime ---------------------------
(***************************************************************************)
(* The threads of cache_server (src/server/main.cpp, resp_worker.hpp):     *)
(* main, the RESP listener and its detached workers, the metrics listener, *)
(* the timer of --run-for-ms, and the signal that stops them.              *)
(*                                                                         *)
(* A wait on stop_cv is split where it can be overtaken: the predicate is  *)
(* evaluated, and the thread goes to sleep, under stop_mutex, but stop is  *)
(* set and stop_cv notified without it.  Sockets, thread creation and the  *)
(* gRPC server are outside the repository: what they are asked may succeed *)
(* or fail, and a client comes and goes as it likes.                       *)
(***************************************************************************)
EXTENDS Integers, FiniteSets

CONSTANTS
    Clients,     \* bound: RESP clients, each with one connection at a time
    MaxClients,  \* max_resp_clients
    RunFor,      \* whether --run-for-ms is given
    None

ASSUME ClientsAssumption ==
    /\ IsFiniteSet(Clients) /\ None \notin Clients
    /\ MaxClients \in Nat \ {0} /\ RunFor \in BOOLEAN

VARIABLES
    pc,       \* thread -> where it is
    stop,     \* stop
    failed,   \* listener_failed
    mutex,    \* who holds stop_mutex
    exit,     \* what main returned
    active,   \* active_resp_clients
    current,  \* current of TryAcquireRespSlot
    client,   \* the client the RESP listener has accepted
    conn,     \* client -> the server's side of its connection
    unbound   \* history: servers that could not bind

vars == <<pc, stop, failed, mutex, exit, active, current, client, conn, unbound>>
slots == <<active, current, client, conn>>

Threads == {"main", "timer", "resp", "metrics"}

Listeners == {"resp", "metrics"}

Goto(t, label) == pc' = [pc EXCEPT ![t] = label]

Init ==
    /\ pc = [t \in Threads |-> IF t = "main" THEN "start" ELSE "unborn"]
    /\ stop = FALSE /\ failed = FALSE /\ mutex = None /\ exit = None
    /\ active = 0 /\ current = 0 /\ client = None
    /\ conn = [c \in Clients |-> "none"]
    /\ unbound = {}

\* The gRPC server listens, and main starts its threads.
StartThreads ==
    /\ pc["main"] = "start"
    /\ pc' = [t \in Threads |-> CASE t \in Listeners -> "bind"
                                  [] t = "main" -> "test"
                                  [] t = "timer" -> IF RunFor THEN "wait" ELSE "done"]
    /\ UNCHANGED <<stop, failed, mutex, exit, slots, unbound>>

\* BuildAndStart returns no server: main returns, and there are no threads.
StartFails ==
    /\ pc["main"] = "start"
    /\ pc' = [t \in Threads |-> IF t = "main" THEN "returned" ELSE "done"]
    /\ exit' = 1 /\ unbound' = {"grpc"}
    /\ UNCHANGED <<stop, failed, mutex, slots>>

-----------------------------------------------------------------------------
\* Stopping

\* HandleSignal.
Signal ==
    /\ pc["main"] # "returned" /\ ~stop
    /\ stop' = TRUE
    /\ UNCHANGED <<pc, failed, mutex, exit, slots, unbound>>

\* The two halves of RequestStop.
StoreStop(t) ==
    /\ pc[t] = "stopping"
    /\ stop' = TRUE
    /\ Goto(t, "notify")
    /\ UNCHANGED <<failed, mutex, exit, slots, unbound>>

\* stop_cv.notify_all: the timer and the listeners end with it, main goes on.
Notify(t) ==
    /\ pc[t] = "notify"
    /\ pc' = [u \in Threads |-> IF u = t THEN IF t = "main" THEN "shutdown" ELSE "done"
                                ELSE IF pc[u] = "asleep" THEN "woken" ELSE pc[u]]
    /\ mutex' = IF mutex = t THEN None ELSE mutex
    /\ UNCHANGED <<stop, failed, exit, slots, unbound>>

\* wait_for evaluates its predicate: at first, when woken, and once more when
\* its time is over.  Then main goes back to its loop and the timer stops the
\* server or ends.
Evaluate(t) ==
    /\ pc[t] \in {"wait", "woken", "expired"} /\ mutex = None
    /\ \/ /\ stop \/ (pc[t] = "expired" /\ t = "main")
          /\ Goto(t, IF t = "main" THEN "test" ELSE "done")
          /\ UNCHANGED mutex
       \/ /\ ~stop /\ ~(pc[t] = "expired" /\ t = "main")
          /\ Goto(t, IF pc[t] = "expired" THEN "stopping" ELSE "sleeping")
          /\ mutex' = t
    /\ UNCHANGED <<stop, failed, exit, slots, unbound>>

FallAsleep(t) ==
    /\ pc[t] = "sleeping"
    /\ Goto(t, "asleep")
    /\ mutex' = None
    /\ UNCHANGED <<stop, failed, exit, slots, unbound>>

\* The wait is over: 50 ms for main, run_for for the timer.
Expire(t) ==
    /\ pc[t] = "asleep"
    /\ Goto(t, "expired")
    /\ UNCHANGED <<stop, failed, mutex, exit, slots, unbound>>

\* A wait may also end without cause.
WakeUp(t) ==
    /\ pc[t] = "asleep"
    /\ Goto(t, "woken")
    /\ UNCHANGED <<stop, failed, mutex, exit, slots, unbound>>

\* The condition of main's loop.
TestStop ==
    /\ pc["main"] = "test"
    /\ Goto("main", IF stop THEN "notify" ELSE "wait")
    /\ UNCHANGED <<stop, failed, mutex, exit, slots, unbound>>

\* server->Shutdown() and the join of grpc_thread, which waits for nothing else.
Shutdown ==
    /\ pc["main"] = "shutdown"
    /\ Goto("main", "join_resp")
    /\ UNCHANGED <<stop, failed, mutex, exit, slots, unbound>>

JoinResp ==
    /\ pc["main"] = "join_resp" /\ pc["resp"] = "done"
    /\ Goto("main", "join_metrics")
    /\ UNCHANGED <<stop, failed, mutex, exit, slots, unbound>>

\* Mistake: the metrics listener is left to itself.
JoinMetrics_Detached ==
    /\ pc["main"] = "join_metrics"
    /\ Goto("main", "join_timer")
    /\ UNCHANGED <<stop, failed, mutex, exit, slots, unbound>>

JoinMetrics ==
    /\ pc["main"] = "join_metrics" /\ pc["metrics"] = "done"
    /\ Goto("main", "join_timer")
    /\ UNCHANGED <<stop, failed, mutex, exit, slots, unbound>>

JoinTimer ==
    /\ pc["main"] = "join_timer" /\ pc["timer"] = "done"
    /\ Goto("main", "returned")
    /\ exit' = IF failed THEN 1 ELSE 0
    /\ UNCHANGED <<stop, failed, mutex, slots, unbound>>

-----------------------------------------------------------------------------
\* Both listeners

Bind(t) ==
    /\ pc[t] = "bind"
    /\ Goto(t, "loop")
    /\ UNCHANGED <<stop, failed, mutex, exit, slots, unbound>>

\* Mistake: a listener without a socket ends, and that is all.
BindFails_Quiet(t) ==
    /\ pc[t] = "bind"
    /\ failed' = TRUE
    /\ unbound' = unbound \cup {t}
    /\ Goto(t, "done")
    /\ UNCHANGED <<stop, mutex, exit, slots>>

BindFails(t) ==
    /\ pc[t] = "bind"
    /\ failed' = TRUE
    /\ unbound' = unbound \cup {t}
    /\ Goto(t, "stopping")
    /\ UNCHANGED <<stop, mutex, exit, slots>>

\* The condition of the loop, and the end of the listener.
TestLoop(t) ==
    /\ pc[t] = "loop"
    /\ Goto(t, IF stop THEN "done" ELSE "select")
    /\ UNCHANGED <<stop, failed, mutex, exit, slots, unbound>>

\* select: nothing came, or accept failed; or select failed for good, which
\* ends the listener and nothing else.
SelectNone(t) ==
    /\ pc[t] = "select"
    /\ \E next \in {"loop", "done"} : Goto(t, next)
    /\ UNCHANGED <<stop, failed, mutex, exit, slots, unbound>>

-----------------------------------------------------------------------------
\* RESP clients

Connect(c) ==
    /\ conn[c] = "none" /\ pc["resp"] \in {"loop", "select", "slot", "launch", "cleanup"}
    /\ conn' = [conn EXCEPT ![c] = "pending"]
    /\ UNCHANGED <<pc, stop, failed, mutex, exit, active, current, client, unbound>>

GiveUp(c) ==
    /\ conn[c] = "pending"
    /\ conn' = [conn EXCEPT ![c] = "none"]
    /\ UNCHANGED <<pc, stop, failed, mutex, exit, active, current, client, unbound>>

\* accept, and the load of TryAcquireRespSlot.
Accept(c) ==
    /\ pc["resp"] = "select" /\ conn[c] = "pending"
    /\ conn' = [conn EXCEPT ![c] = "accepted"]
    /\ client' = c
    /\ current' = active
    /\ Goto("resp", "slot")
    /\ UNCHANGED <<stop, failed, mutex, exit, active, unbound>>

Full == current >= MaxClients

\* "max clients reached": the connection is closed.
Reject ==
    /\ pc["resp"] = "slot" /\ Full
    /\ conn' = [conn EXCEPT ![client] = "none"]
    /\ client' = None
    /\ Goto("resp", "loop")
    /\ UNCHANGED <<stop, failed, mutex, exit, active, current, unbound>>

\* compare_exchange_weak, which may also fail without cause.
CompareExchange ==
    /\ pc["resp"] = "slot" /\ ~Full
    /\ \/ /\ active = current
          /\ active' = current + 1
          /\ Goto("resp", "launch")
          /\ UNCHANGED current
       \/ /\ current' = active
          /\ UNCHANGED <<pc, active>>
    /\ UNCHANGED <<stop, failed, mutex, exit, client, conn, unbound>>

\* StartRespWorker.
Launch ==
    /\ pc["resp"] = "launch"
    /\ conn' = [conn EXCEPT ![client] = "serving"]
    /\ client' = None
    /\ Goto("resp", "loop")
    /\ UNCHANGED <<stop, failed, mutex, exit, active, current, unbound>>

\* Mistake: the connection is closed, the slot kept.
LaunchFails_Leaks ==
    /\ pc["resp"] = "launch"
    /\ conn' = [conn EXCEPT ![client] = "none"]
    /\ client' = None
    /\ Goto("resp", "loop")
    /\ UNCHANGED <<stop, failed, mutex, exit, active, current, unbound>>

\* The thread cannot be created: cleanup closes the connection ...
LaunchFails ==
    /\ pc["resp"] = "launch"
    /\ conn' = [conn EXCEPT ![client] = "none"]
    /\ Goto("resp", "cleanup")
    /\ UNCHANGED <<stop, failed, mutex, exit, active, current, client, unbound>>

\* ... and releases the slot.
Cleanup ==
    /\ pc["resp"] = "cleanup"
    /\ active' = active - 1
    /\ client' = None
    /\ Goto("resp", "loop")
    /\ UNCHANGED <<stop, failed, mutex, exit, current, conn, unbound>>

\* The end of HandleRespClient, and close.
FinishClient(c) ==
    /\ conn[c] = "serving"
    /\ conn' = [conn EXCEPT ![c] = "closed"]
    /\ UNCHANGED <<pc, stop, failed, mutex, exit, active, current, client, unbound>>

ReleaseRespSlot(c) ==
    /\ conn[c] = "closed"
    /\ active' = active - 1
    /\ conn' = [conn EXCEPT ![c] = "none"]
    /\ UNCHANGED <<pc, stop, failed, mutex, exit, current, client, unbound>>

-----------------------------------------------------------------------------
\* Metrics clients are served by the listener itself.

AcceptMetrics ==
    /\ pc["metrics"] = "select"
    /\ Goto("metrics", "serve")
    /\ UNCHANGED <<stop, failed, mutex, exit, slots, unbound>>

ServeMetrics ==
    /\ pc["metrics"] = "serve"
    /\ Goto("metrics", "loop")
    /\ UNCHANGED <<stop, failed, mutex, exit, slots, unbound>>

-----------------------------------------------------------------------------
MainStep == StartThreads \/ StartFails \/ TestStop \/ Shutdown \/ JoinResp \/ JoinMetrics \/ JoinTimer

WaitStep(t) == Evaluate(t) \/ FallAsleep(t) \/ Expire(t)

ListenerStep(t) == Bind(t) \/ BindFails(t) \/ TestLoop(t) \/ SelectNone(t)

RespStep ==
    \/ \E c \in Clients : Accept(c)
    \/ Reject \/ CompareExchange \/ Launch \/ LaunchFails \/ Cleanup

Step(t) ==
    \/ StoreStop(t) \/ Notify(t)
    \/ t = "main" /\ MainStep
    \/ t \in {"main", "timer"} /\ WaitStep(t)
    \/ t \in Listeners /\ ListenerStep(t)
    \/ t = "resp" /\ RespStep
    \/ t = "metrics" /\ (AcceptMetrics \/ ServeMetrics)

Worker(c) == FinishClient(c) \/ ReleaseRespSlot(c)

Next ==
    \/ Signal
    \/ \E t \in Threads : Step(t) \/ WakeUp(t)
    \/ \E c \in Clients : Connect(c) \/ GiveUp(c) \/ Worker(c)

Spec == Init /\ [][Next]_vars

\* Every thread runs on: waits and selects have timeouts.
FairSpec == Spec /\ \A t \in Threads : WF_vars(Step(t))

-----------------------------------------------------------------------------
\* Properties

\* Those who have been given a slot and have not given it back; the one the
\* listener is about to serve, or failed to, is among them.
Holders == {c \in Clients : conn[c] \in {"serving", "closed"}}

InHand == IF pc["resp"] \in {"launch", "cleanup"} THEN 1 ELSE 0

\* No slot is lost or given back twice, on the paths where a worker cannot be
\* started or ends while the listener is between load and compare-exchange; so
\* there are never more than max_resp_clients workers.
SlotsExact == active = Cardinality(Holders) + InHand /\ active <= MaxClients

\* The exit code says that a server could not bind exactly when that
\* happened, even if it happens while the server is being stopped.
ExitHonest ==
    pc["main"] = "returned" => (exit = 1 <=> unbound # {}) /\ \A t \in Listeners : pc[t] = "done"

\* A server told to stop, or unable to listen, ends.
ShutdownCompletes == (stop \/ unbound # {}) ~> (pc["main"] = "returned")

=============================================================================
