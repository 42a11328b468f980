------------------------ MODULE ServerRuntimeProofs ------------------------
(***************************************************************************)
(* No slot is lost, and the exit code is honest, for every number of       *)
(* clients and every limit.                                                *)
(***************************************************************************)
EXTENDS ServerRuntime, FiniteSetTheorems, TLAPS

Labels == {"start", "unborn", "test", "wait", "sleeping", "asleep", "woken", "expired", "stopping",
           "notify", "shutdown", "join_resp", "join_metrics", "join_timer", "returned", "done",
           "bind", "loop", "select", "slot", "launch", "cleanup", "serve"}

TypeOK ==
    /\ pc \in [Threads -> Labels]
    /\ active \in Nat /\ current \in Nat
    /\ client \in Clients \cup {None}
    /\ conn \in [Clients -> {"none", "pending", "accepted", "serving", "closed"}]

\* The client the listener deals with is its own until it is served or not.
InDeal == pc["resp"] \in {"slot", "launch"} => client \in Clients /\ conn[client] = "accepted"

\* The listeners are there once main has started them.
Started == pc["main"] = "start" => pc["resp"] = "unborn" /\ pc["metrics"] = "unborn"

SlotsInv == TypeOK /\ InDeal /\ Started /\ SlotsExact

\* What main has joined when, and what failed and exit stand for.
ExitInv ==
    /\ pc["main"] = "start" =>
         unbound = {} /\ pc["resp"] = "unborn" /\ pc["metrics"] = "unborn"
    /\ pc["main"] \in {"join_metrics", "join_timer", "returned"} => pc["resp"] = "done"
    /\ pc["main"] \in {"join_timer", "returned"} => pc["metrics"] = "done"
    /\ failed <=> \E t \in Listeners : t \in unbound
    /\ unbound \subseteq Listeners \/ pc["main"] = "returned"
    /\ pc["main"] = "returned" => (exit = 1 <=> unbound # {})

-----------------------------------------------------------------------------
LEMMA HoldersFinite == IsFiniteSet(Holders)
  BY ClientsAssumption, FS_Subset DEF Holders

Dealing == {"slot", "launch", "cleanup"}

\* Steps that have nothing to do with RESP clients.
Elsewhere ==
    /\ UNCHANGED slots
    /\ pc' \in [Threads -> Labels]
    /\ Started'
    /\ pc'["resp"] = pc["resp"] \/ (pc["resp"] \notin Dealing /\ pc'["resp"] \notin Dealing)

LEMMA ElsewhereKeeps ==
  ASSUME SlotsInv, Elsewhere
  PROVE  SlotsInv'
<1>1. Holders' = Holders /\ InHand' = InHand
  BY DEF Elsewhere, Dealing, Holders, InHand, slots
<1>2. QED BY <1>1 DEF SlotsInv, TypeOK, InDeal, SlotsExact, Elsewhere, slots, Dealing

LEMMA WaitingElsewhere ==
  ASSUME SlotsInv, NEW t \in Threads,
         \/ StoreStop(t) \/ Notify(t) \/ WakeUp(t) \/ Signal \/ MainStep
         \/ t \in {"main", "timer"} /\ WaitStep(t)
         \/ t \in Listeners /\ ListenerStep(t)
         \/ AcceptMetrics \/ ServeMetrics
  PROVE  Elsewhere
<1>0. Started /\ pc \in [Threads -> Labels] /\ "resp" \in Threads /\ "main" \in Threads /\ "metrics" \in Threads
  BY DEF SlotsInv, TypeOK, Threads
<1>1. CASE StoreStop(t) \/ WakeUp(t) \/ Signal
  BY <1>0, <1>1 DEF StoreStop, WakeUp, Signal, Goto, Elsewhere, Labels, Dealing, Started
<1>2. CASE Notify(t)
  BY <1>0, <1>2 DEF Notify, Elsewhere, Labels, Dealing, Started
<1>3. CASE MainStep
  <2>1. CASE StartThreads
    BY <1>0, <2>1 DEF StartThreads, Elsewhere, Labels, Dealing, Started, Threads, Listeners
  <2>2. CASE StartFails
    BY <1>0, <2>2 DEF StartFails, Elsewhere, Labels, Dealing, Started
  <2>3. CASE TestStop \/ Shutdown \/ JoinResp \/ JoinMetrics \/ JoinTimer
    BY <1>0, <2>3 DEF TestStop, Shutdown, JoinResp, JoinMetrics, JoinTimer, Goto, Elsewhere, Labels, Dealing, Started
  <2>4. QED BY <1>3, <2>1, <2>2, <2>3 DEF MainStep
<1>4. CASE t \in {"main", "timer"} /\ WaitStep(t)
  BY <1>0, <1>4 DEF WaitStep, Evaluate, FallAsleep, Expire, Goto, Elsewhere, Labels, Dealing, Started
<1>5. CASE t \in Listeners /\ ListenerStep(t)
  BY <1>0, <1>5 DEF ListenerStep, Bind, BindFails, TestLoop, SelectNone, Goto, Elsewhere, Labels, Dealing, Started
<1>6. CASE AcceptMetrics \/ ServeMetrics
  BY <1>0, <1>6 DEF AcceptMetrics, ServeMetrics, Goto, Elsewhere, Labels, Dealing, Started
<1>7. QED BY <1>1, <1>2, <1>3, <1>4, <1>5, <1>6

-----------------------------------------------------------------------------
\* Steps that give and take slots.

LEMMA ClientsKeep ==
  ASSUME SlotsInv, NEW c \in Clients,
         Connect(c) \/ GiveUp(c) \/ Accept(c) \/ FinishClient(c)
  PROVE  SlotsInv'
<1>1. Holders' = Holders /\ InHand' = InHand
  BY DEF SlotsInv, TypeOK, Connect, GiveUp, Accept, FinishClient, Goto, Holders, InHand, Threads
<1>2. /\ TypeOK' /\ InDeal' /\ Started' /\ active' = active
  BY DEF SlotsInv, TypeOK, InDeal, Started, Connect, GiveUp, Accept, FinishClient, Goto, Labels, Threads
<1>3. QED BY <1>1, <1>2 DEF SlotsInv, SlotsExact

LEMMA ReleaseKeeps ==
  ASSUME SlotsInv, NEW c \in Clients, ReleaseRespSlot(c)
  PROVE  SlotsInv'
<1>1. c \in Holders /\ Holders' = Holders \ {c} /\ InHand' = InHand
  BY DEF SlotsInv, TypeOK, ReleaseRespSlot, Holders, InHand
<1>2. /\ Cardinality(Holders') = Cardinality(Holders) - 1
      /\ Cardinality(Holders) \in Nat /\ Cardinality(Holders') \in Nat /\ InHand \in {0, 1}
  <2>1. IsFiniteSet(Holders) /\ IsFiniteSet(Holders \ {c})
    BY HoldersFinite, FS_RemoveElement
  <2>2. Cardinality(Holders \ {c}) = Cardinality(Holders) - 1
    BY <1>1, <2>1, FS_RemoveElement
  <2>3. QED BY <1>1, <2>1, <2>2, FS_CardinalityType DEF InHand
<1>3. active' = active - 1 /\ active = Cardinality(Holders) + InHand /\ active <= MaxClients
  BY DEF SlotsInv, SlotsExact, ReleaseRespSlot
<1>4. SlotsExact' /\ active' \in Nat
  BY <1>1, <1>2, <1>3, ClientsAssumption DEF SlotsExact
<1>5. TypeOK' /\ InDeal' /\ Started'
  BY <1>4 DEF SlotsInv, TypeOK, InDeal, Started, ReleaseRespSlot
<1>6. QED BY <1>4, <1>5 DEF SlotsInv

LEMMA RespKeeps ==
  ASSUME SlotsInv, Reject \/ CompareExchange \/ Launch \/ LaunchFails \/ Cleanup
  PROVE  SlotsInv'
<1>1. /\ Cardinality(Holders) \in Nat /\ active = Cardinality(Holders) + InHand
      /\ active <= MaxClients /\ MaxClients \in Nat /\ active \in Nat /\ current \in Nat
  BY HoldersFinite, FS_CardinalityType, ClientsAssumption DEF SlotsInv, SlotsExact, TypeOK
<1>2. pc \in [Threads -> Labels] /\ "resp" \in Threads /\ "main" \in Threads /\ "metrics" \in Threads
  BY DEF SlotsInv, TypeOK, Threads
<1>3. CASE Reject \/ LaunchFails
  <2>1. Holders' = Holders /\ InHand' = InHand /\ active' = active
    BY <1>2, <1>3 DEF SlotsInv, TypeOK, InDeal, Reject, LaunchFails, Goto, Holders, InHand
  <2>2. TypeOK' /\ InDeal' /\ Started'
    BY <1>2, <1>3 DEF SlotsInv, TypeOK, InDeal, Started, Reject, LaunchFails, Goto, Labels
  <2>3. QED BY <2>1, <2>2 DEF SlotsInv, SlotsExact
<1>4. CASE CompareExchange
  <2>1. Holders' = Holders
    BY <1>4 DEF CompareExchange, Holders
  <2>2. TypeOK' /\ InDeal' /\ Started'
    BY <1>1, <1>2, <1>4 DEF SlotsInv, TypeOK, InDeal, Started, CompareExchange, Goto, Labels
  <2>3. SlotsExact'
    BY <1>1, <1>2, <1>4, <2>1 DEF CompareExchange, Full, Goto, InHand, SlotsExact
  <2>4. QED BY <2>2, <2>3 DEF SlotsInv
<1>5. CASE Launch
  <2>1. client \in Clients /\ client \notin Holders /\ Holders' = Holders \cup {client}
    BY <1>2, <1>5 DEF SlotsInv, TypeOK, InDeal, Launch, Holders
  <2>2. Cardinality(Holders') = Cardinality(Holders) + 1
    BY <2>1, HoldersFinite, FS_AddElement
  <2>3. InHand = 1 /\ InHand' = 0 /\ active' = active
    BY <1>2, <1>5 DEF Launch, Goto, InHand
  <2>4. TypeOK' /\ InDeal' /\ Started'
    BY <1>2, <1>5, <2>1 DEF SlotsInv, TypeOK, InDeal, Started, Launch, Goto, Labels
  <2>5. QED BY <1>1, <2>2, <2>3, <2>4 DEF SlotsInv, SlotsExact
<1>6. CASE Cleanup
  <2>1. Holders' = Holders /\ InHand = 1 /\ InHand' = 0 /\ active' = active - 1
    BY <1>2, <1>6 DEF Cleanup, Goto, Holders, InHand
  <2>2. active' \in Nat
    BY <1>1, <2>1
  <2>3. TypeOK' /\ InDeal' /\ Started'
    BY <1>2, <1>6, <2>2 DEF SlotsInv, TypeOK, InDeal, Started, Cleanup, Goto, Labels
  <2>4. QED BY <1>1, <2>1, <2>3 DEF SlotsInv, SlotsExact
<1>7. QED BY <1>3, <1>4, <1>5, <1>6

LEMMA SlotsInvariance == Spec => []SlotsInv
<1>1. Init => SlotsInv
  <2> SUFFICES ASSUME Init PROVE SlotsInv
    OBVIOUS
  <2>1. Holders = {} /\ InHand = 0
    BY DEF Init, Holders, InHand, Threads
  <2>2. TypeOK /\ InDeal /\ Started
    BY DEF Init, TypeOK, InDeal, Started, Threads, Labels
  <2>3. QED BY <2>1, <2>2, FS_EmptySet, ClientsAssumption DEF SlotsInv, SlotsExact, Init
<1>2. SlotsInv /\ [Next]_vars => SlotsInv'
  <2> SUFFICES ASSUME SlotsInv, [Next]_vars PROVE SlotsInv'
    OBVIOUS
  <2>1. ASSUME NEW t \in Threads, Step(t) \/ WakeUp(t) \/ Signal PROVE SlotsInv'
    <3>1. CASE t = "resp" /\ RespStep
      BY <3>1, ClientsKeep, RespKeeps DEF RespStep
    <3>2. CASE ~(t = "resp" /\ RespStep)
      BY <2>1, <3>2, WaitingElsewhere, ElsewhereKeeps DEF Step
    <3>3. QED BY <3>1, <3>2
  <2>2. ASSUME NEW c \in Clients, Connect(c) \/ GiveUp(c) \/ Worker(c) PROVE SlotsInv'
    BY <2>2, ClientsKeep, ReleaseKeeps DEF Worker
  <2>3. CASE UNCHANGED vars
    <3>1. Elsewhere
      BY <2>3 DEF vars, slots, Elsewhere, SlotsInv, TypeOK, Started
    <3>2. QED BY <3>1, ElsewhereKeeps
  <2>4. "main" \in Threads
    BY DEF Threads
  <2>5. QED BY <2>1, <2>2, <2>3, <2>4 DEF Next
<1>3. QED BY <1>1, <1>2, PTL DEF Spec

\* A slot taken is a slot held or in hand, and there are at most
\* max_resp_clients, whatever workers end while the listener decides.
THEOREM SlotsAlwaysExact == Spec => []SlotsExact
<1>1. SlotsInv => SlotsExact
  BY DEF SlotsInv
<1>2. QED BY <1>1, SlotsInvariance, PTL

-----------------------------------------------------------------------------
\* The exit code.

\* Steps that neither bind nor move main, and revive no listener.
Apart ==
    /\ UNCHANGED <<failed, unbound, exit>>
    /\ pc' \in [Threads -> Labels]
    /\ pc'["main"] = pc["main"]
    /\ \A t \in Listeners : pc[t] \in {"unborn", "done"} => pc'[t] = pc[t]

LEMMA ApartKeeps ==
  ASSUME ExitInv, Apart
  PROVE  ExitInv'
  BY DEF ExitInv, Apart, Listeners

LEMMA ClientsApart ==
  ASSUME TypeOK,
         \/ Signal \/ RespStep \/ AcceptMetrics \/ ServeMetrics
         \/ \E c \in Clients : Connect(c) \/ GiveUp(c) \/ Worker(c)
  PROVE  Apart
<1>0. pc \in [Threads -> Labels] /\ "resp" \in Threads /\ "main" \in Threads /\ "metrics" \in Threads
  BY DEF TypeOK, Threads
<1>1. CASE Signal \/ AcceptMetrics \/ ServeMetrics
  BY <1>0, <1>1 DEF Signal, AcceptMetrics, ServeMetrics, Goto, Apart, Labels, Listeners
<1>2. CASE RespStep
  BY <1>0, <1>2 DEF RespStep, Accept, Reject, CompareExchange, Launch, LaunchFails, Cleanup, Goto, Apart, Labels, Listeners
<1>3. CASE \E c \in Clients : Connect(c) \/ GiveUp(c) \/ Worker(c)
  BY <1>0, <1>3 DEF Connect, GiveUp, Worker, FinishClient, ReleaseRespSlot, Apart
<1>4. QED BY <1>1, <1>2, <1>3

LEMMA ThreadsKeepExit ==
  ASSUME TypeOK, ExitInv, NEW t \in Threads, Step(t) \/ WakeUp(t)
  PROVE  ExitInv'
<1>0. pc \in [Threads -> Labels] /\ "resp" \in Threads /\ "main" \in Threads /\ "metrics" \in Threads
  BY DEF TypeOK, Threads
<1>1. CASE StoreStop(t)
  BY <1>0, <1>1 DEF StoreStop, Goto, ExitInv, Listeners
<1>2. CASE Notify(t)
  BY <1>0, <1>2 DEF Notify, ExitInv, Listeners
<1>3. CASE StartThreads
  BY <1>0, <1>3 DEF StartThreads, ExitInv, Listeners
<1>4. CASE StartFails
  BY <1>0, <1>4 DEF StartFails, ExitInv, Listeners
<1>5. CASE TestStop \/ Shutdown \/ JoinResp \/ JoinMetrics
  BY <1>0, <1>5 DEF TestStop, Shutdown, JoinResp, JoinMetrics, Goto, ExitInv, Listeners
<1>6. CASE JoinTimer
  <2>1. unbound \subseteq Listeners /\ (failed <=> unbound # {})
    BY <1>6 DEF JoinTimer, ExitInv
  <2>2. exit' = 1 <=> unbound' # {}
    BY <1>6, <2>1 DEF JoinTimer
  <2>3. QED BY <1>0, <1>6, <2>2 DEF JoinTimer, Goto, ExitInv, Listeners
<1>7. CASE (t \in {"main", "timer"} /\ WaitStep(t)) \/ WakeUp(t)
  BY <1>0, <1>7 DEF WaitStep, Evaluate, FallAsleep, Expire, WakeUp, Goto, ExitInv, Listeners
<1>8. CASE t \in Listeners /\ (Bind(t) \/ TestLoop(t) \/ SelectNone(t))
  <2>1. Apart
    BY <1>0, <1>8 DEF Bind, TestLoop, SelectNone, Goto, Apart, Labels, Listeners
  <2>2. QED BY <2>1, ApartKeeps
<1>9. CASE t \in Listeners /\ BindFails(t)
  <2>1. /\ pc'["main"] = pc["main"] /\ pc["main"] \notin {"start", "join_timer", "returned"}
        /\ \A u \in Listeners \ {t} : pc'[u] = pc[u]
    BY <1>0, <1>9 DEF BindFails, Goto, ExitInv, Listeners
  <2>2. pc["main"] = "join_metrics" => t = "metrics"
    BY <1>0, <1>9 DEF BindFails, ExitInv, Listeners
  <2>3. QED BY <1>0, <1>9, <2>1, <2>2 DEF BindFails, ExitInv, Listeners
<1>10. CASE RespStep \/ AcceptMetrics \/ ServeMetrics
  BY <1>10, ClientsApart, ApartKeeps
<1>11. QED
  BY <1>1, <1>2, <1>3, <1>4, <1>5, <1>6, <1>7, <1>8, <1>9, <1>10 DEF Step, MainStep, ListenerStep

\* Main returns 1 exactly when a server could not bind, and only after both
\* listeners have ended, even if a listener fails while main is stopping.
THEOREM ExitAlwaysHonest == Spec => []ExitHonest
<1>1. Init => ExitInv
  BY DEF Init, ExitInv, Listeners, Threads
<1>2. TypeOK /\ ExitInv /\ [Next]_vars => ExitInv'
  <2> SUFFICES ASSUME TypeOK, ExitInv, [Next]_vars PROVE ExitInv'
    OBVIOUS
  <2>1. CASE \E t \in Threads : Step(t) \/ WakeUp(t)
    BY <2>1, ThreadsKeepExit
  <2>2. CASE Signal \/ \E c \in Clients : Connect(c) \/ GiveUp(c) \/ Worker(c)
    BY <2>2, ClientsApart, ApartKeeps
  <2>3. CASE UNCHANGED vars
    BY <2>3 DEF vars, ExitInv
  <2>4. QED BY <2>1, <2>2, <2>3 DEF Next
<1>3. SlotsInv => TypeOK
  BY DEF SlotsInv
<1>4. ExitInv => ExitHonest
  BY DEF ExitInv, ExitHonest, Listeners
<1>5. QED BY <1>1, <1>2, <1>3, <1>4, SlotsInvariance, PTL DEF Spec

=============================================================================
