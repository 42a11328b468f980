----------------------- MODULE HeartbeatManagerProofs -----------------------
(***************************************************************************)
(* The properties of HeartbeatManager, proved for any managers, nodes and  *)
(* times.  The argument is about one entry: each kind of observation keeps *)
(* it sound with respect to what has been told about the node.             *)
(***************************************************************************)
EXTENDS HeartbeatManager, TLAPS

\* An entry e agrees with the reports O it was made of, the heartbeats B that
\* the node gave and the timeouts T the manager saw.
Sound(e, O, B, T) ==
    /\ e.known => /\ \A o \in O : o.heartbeat <= e.observed
                  /\ \E o \in O : o.heartbeat = e.observed /\ o.alive = e.alive
    /\ ~e.known => O = {} /\ e.heartbeat = 0 /\ e.observed = 0 /\ ~e.alive
    /\ e.alive => e.heartbeat \in B /\ e.heartbeat = e.observed
    /\ e.heartbeat \in B \cup {0} /\ e.heartbeat <= e.observed
    /\ e.known /\ ~e.alive => e.observed = e.heartbeat \/ e.observed \in T

\* A report that the heartbeats B stand behind.
Truthful(o, B) == (o.alive => o.heartbeat \in B) /\ o.heartbeat \in B \cup {0}

AllSound ==
    \A m \in Managers, n \in Nodes : Sound(health[m][n], obs[m][n], beats[n], timeouts[m][n])

AllTruthful == \A s \in inFlight : \A n \in DOMAIN s : Truthful(s[n], beats[n])

IInv == TypeOK /\ AllSound /\ AllTruthful

-----------------------------------------------------------------------------
\* One entry

\* A heartbeat keeps the entry sound, whether it is taken or is too old.
LEMMA HeartbeatSound ==
  ASSUME NEW e \in Entry, NEW O \in SUBSET Report, NEW B, NEW T, NEW ms \in Nat, Sound(e, O, B, T)
  PROVE  /\ Heartbeat(e, ms) \in Entry
         /\ Sound(Heartbeat(e, ms), O \cup {[alive |-> TRUE, heartbeat |-> ms]}, B \cup {ms}, T)
<1> DEFINE o == [alive |-> TRUE, heartbeat |-> ms]
<1>0. o.alive = TRUE /\ o.heartbeat = ms
  OBVIOUS
<1> HIDE DEF o
<1>1. CASE e.known /\ ms < e.observed
  <2>1. Heartbeat(e, ms) = e
    BY <1>1 DEF Heartbeat
  <2>2. QED BY <1>0, <1>1, <2>1 DEF Sound, Entry, o
<1>2. CASE ~(e.known /\ ms < e.observed)
  <2> DEFINE d == [known |-> TRUE, alive |-> TRUE, heartbeat |-> ms, observed |-> ms]
  <2>1. Heartbeat(e, ms) = d
    BY <1>2 DEF Heartbeat
  <2>2. d \in Entry /\ d.known = TRUE /\ d.alive = TRUE /\ d.heartbeat = ms /\ d.observed = ms
    BY DEF Entry
  <2> HIDE DEF d
  <2>3. \A p \in O \cup {o} : p.heartbeat <= ms
    BY <1>0, <1>2 DEF Sound, Entry, Report
  <2>4. Sound(d, O \cup {o}, B \cup {ms}, T)
    BY <1>0, <2>2, <2>3 DEF Sound
  <2>5. QED BY <2>1, <2>2, <2>4 DEF o
<1>3. QED BY <1>1, <1>2

\* So does a timeout.
LEMMA TimeoutSound ==
  ASSUME NEW e \in Entry, NEW O \in SUBSET Report, NEW B, NEW T, NEW ms \in Nat, Sound(e, O, B, T)
  PROVE  /\ Timeout(e, ms) \in Entry
         /\ Sound(Timeout(e, ms), O \cup {[alive |-> FALSE, heartbeat |-> ms]}, B, T \cup {ms})
<1> DEFINE o == [alive |-> FALSE, heartbeat |-> ms]
<1>0. o.alive = FALSE /\ o.heartbeat = ms
  OBVIOUS
<1> HIDE DEF o
<1>1. CASE e.known /\ ms < e.observed
  <2>1. Timeout(e, ms) = e
    BY <1>1 DEF Timeout
  <2>2. QED BY <1>0, <1>1, <2>1 DEF Sound, Entry, o
<1>2. CASE ~(e.known /\ ms < e.observed)
  <2> DEFINE t == IF ms > e.observed THEN ms ELSE e.observed
             d == [known |-> TRUE, alive |-> FALSE, heartbeat |-> e.heartbeat, observed |-> t]
  <2>1. Timeout(e, ms) = d
    BY <1>2 DEF Timeout
  <2>2. /\ t \in Nat /\ t >= e.observed /\ t >= ms
        /\ d \in Entry /\ d.known = TRUE /\ d.alive = FALSE
        /\ d.heartbeat = e.heartbeat /\ d.observed = t
    BY DEF Entry
  <2>3. e.heartbeat \in Nat /\ e.observed \in Nat /\ \A p \in O : p.heartbeat \in Nat
    BY DEF Entry, Report
  <2>4. t = ms /\ e.observed <= ms
    BY <1>2, <2>3 DEF Sound
  <2> HIDE DEF d, t
  <2>5. \A p \in O \cup {o} : p.heartbeat <= ms
    BY <1>0, <2>3, <2>4 DEF Sound
  <2>6. e.heartbeat <= ms /\ e.heartbeat \in B \cup {0}
    BY <2>3, <2>4 DEF Sound
  <2>7. Sound(d, O \cup {o}, B, T \cup {ms})
    BY <1>0, <2>2, <2>4, <2>5, <2>6 DEF Sound
  <2>8. QED BY <2>1, <2>2, <2>7 DEF o
<1>3. QED BY <1>1, <1>2

\* So does a truthful report.
LEMMA IngestSound ==
  ASSUME NEW e \in Entry, NEW O \in SUBSET Report, NEW B, NEW T, NEW o \in Report,
         Sound(e, O, B, T), Truthful(o, B)
  PROVE  Ingest(e, o) \in Entry /\ Sound(Ingest(e, o), O \cup {o}, B, T)
<1>0. /\ e.heartbeat \in Nat /\ e.observed \in Nat /\ o.heartbeat \in Nat
      /\ e.known \in BOOLEAN /\ e.alive \in BOOLEAN /\ o.alive \in BOOLEAN
      /\ \A p \in O : p.heartbeat \in Nat
  BY DEF Entry, Report
<1>1. CASE Ignores(e, o)
  <2>1. Ingest(e, o) = e
    BY <1>1 DEF Ingest
  <2>2. e.known /\ o.heartbeat <= e.observed
    BY <1>0, <1>1 DEF Ignores
  <2>3. QED BY <2>1, <2>2 DEF Sound
<1>2. CASE ~Ignores(e, o)
  <2> DEFINE d == [known |-> TRUE, alive |-> o.alive, heartbeat |-> o.heartbeat,
                   observed |-> o.heartbeat]
  <2>1. Ingest(e, o) = d
    BY <1>2 DEF Ingest
  <2>2. /\ d \in Entry /\ d.known = TRUE /\ d.alive = o.alive
        /\ d.heartbeat = o.heartbeat /\ d.observed = o.heartbeat
    BY <1>0 DEF Entry
  <2> HIDE DEF d
  <2>3. e.known => e.observed <= o.heartbeat
    BY <1>0, <1>2 DEF Ignores
  <2>4. \A p \in O \cup {o} : p.heartbeat <= o.heartbeat
    BY <1>0, <2>3 DEF Sound
  <2>5. Sound(d, O \cup {o}, B, T)
    BY <1>0, <2>2, <2>4 DEF Sound, Truthful
  <2>6. QED BY <2>1, <2>2, <2>5
<1>3. QED BY <1>1, <1>2

\* A heartbeat given to another manager disturbs nothing.
LEMMA SoundGrows ==
  ASSUME NEW e, NEW O, NEW B, NEW C, NEW T, Sound(e, O, B, T)
  PROVE  Sound(e, O, B \cup C, T)
  BY DEF Sound

\* A report that was true of the heartbeats given stays true.
LEMMA TruthfulGrows ==
  ASSUME NEW o, NEW B, NEW C, Truthful(o, B)
  PROVE  Truthful(o, B \cup C)
  BY DEF Truthful

-----------------------------------------------------------------------------
\* The steps

\* The invariant holds of managers that know nothing.
LEMMA InitIInv == Init => IInv
<1> SUFFICES ASSUME Init PROVE IInv
  OBVIOUS
<1>1. Unknown \in Entry /\ \A B, T : Sound(Unknown, {}, B, T)
  BY DEF Unknown, Entry, Sound
<1>2. TypeOK
  BY <1>1 DEF Init, TypeOK
<1>3. AllSound
  BY <1>1 DEF Init, AllSound
<1>4. AllTruthful
  BY DEF Init, AllTruthful
<1>5. QED BY <1>2, <1>3, <1>4 DEF IInv

\* RegisterNode and RecordHeartbeat keep the invariant.
LEMMA HeartbeatStep ==
  ASSUME IInv, NEW m \in Managers, NEW n \in Nodes, NEW ms \in Times, RecordHeartbeat(m, n, ms)
  PROVE  IInv'
<1> DEFINE o == [alive |-> TRUE, heartbeat |-> ms]
           d == Heartbeat(health[m][n], ms)
<1>1. ms \in Nat /\ o \in Report
  BY TimesAssumption DEF Report
<1>2. /\ health' = [health EXCEPT ![m] = [health[m] EXCEPT ![n] = d]]
      /\ obs' = [obs EXCEPT ![m] = [obs[m] EXCEPT ![n] = obs[m][n] \cup {o}]]
      /\ beats' = [beats EXCEPT ![n] = beats[n] \cup {ms}]
      /\ inFlight' = inFlight /\ timeouts' = timeouts
  BY DEF RecordHeartbeat, Observe, IInv, TypeOK
<1>3. health[m][n] \in Entry /\ obs[m][n] \in SUBSET Report
      /\ Sound(health[m][n], obs[m][n], beats[n], timeouts[m][n])
  BY DEF IInv, TypeOK, AllSound
<1>4. d \in Entry /\ Sound(d, obs[m][n] \cup {o}, beats[n] \cup {ms}, timeouts[m][n])
  BY <1>1, <1>3, HeartbeatSound
<1> HIDE DEF d, o
<1>5. TypeOK'
  BY <1>1, <1>2, <1>4 DEF IInv, TypeOK
<1>6. \A k \in Nodes : beats'[k] = IF k = n THEN beats[k] \cup {ms} ELSE beats[k]
  BY <1>2 DEF IInv, TypeOK
<1>7. AllSound'
  <2> SUFFICES ASSUME NEW i \in Managers, NEW k \in Nodes
               PROVE  Sound(health'[i][k], obs'[i][k], beats'[k], timeouts'[i][k])
    BY DEF AllSound, Sound
  <2>1. CASE i = m /\ k = n
    BY <1>2, <1>4, <1>6, <2>1 DEF IInv, TypeOK
  <2>2. CASE ~(i = m /\ k = n)
    <3>1. health'[i][k] = health[i][k] /\ obs'[i][k] = obs[i][k] /\ timeouts'[i][k] = timeouts[i][k]
      BY <1>2, <2>2 DEF IInv, TypeOK
    <3>2. Sound(health[i][k], obs[i][k], beats[k], timeouts[i][k])
      BY DEF IInv, AllSound
    <3>3. Sound(health[i][k], obs[i][k], beats[k] \cup {ms}, timeouts[i][k])
      BY <3>2, SoundGrows
    <3>4. beats'[k] = beats[k] \/ beats'[k] = beats[k] \cup {ms}
      BY <1>6
    <3>5. QED BY <3>1, <3>2, <3>3, <3>4
  <2>3. QED BY <2>1, <2>2
<1>8. AllTruthful'
  <2> SUFFICES ASSUME NEW s \in inFlight, NEW k \in DOMAIN s
               PROVE  Truthful(s[k], beats'[k])
    BY <1>2 DEF AllTruthful, Truthful
  <2>1. Truthful(s[k], beats[k]) /\ k \in Nodes
    BY DEF IInv, TypeOK, AllTruthful
  <2>2. Truthful(s[k], beats[k] \cup {ms})
    BY <2>1, TruthfulGrows
  <2>3. beats'[k] = beats[k] \/ beats'[k] = beats[k] \cup {ms}
    BY <1>6, <2>1
  <2>4. QED BY <2>1, <2>2, <2>3
<1>9. QED BY <1>5, <1>7, <1>8 DEF IInv

\* OnHeartbeatTimeout keeps the invariant.
LEMMA TimeoutStep ==
  ASSUME IInv, NEW m \in Managers, NEW n \in Nodes, NEW ms \in Times, OnHeartbeatTimeout(m, n, ms)
  PROVE  IInv'
<1> DEFINE o == [alive |-> FALSE, heartbeat |-> ms]
           d == Timeout(health[m][n], ms)
<1>1. ms \in Nat /\ o \in Report
  BY TimesAssumption DEF Report
<1>2. /\ health' = [health EXCEPT ![m] = [health[m] EXCEPT ![n] = d]]
      /\ obs' = [obs EXCEPT ![m] = [obs[m] EXCEPT ![n] = obs[m][n] \cup {o}]]
      /\ timeouts' = [timeouts EXCEPT ![m] = [timeouts[m] EXCEPT ![n] = timeouts[m][n] \cup {ms}]]
      /\ inFlight' = inFlight /\ beats' = beats
  BY DEF OnHeartbeatTimeout, Observe, IInv, TypeOK
<1>3. health[m][n] \in Entry /\ obs[m][n] \in SUBSET Report
      /\ Sound(health[m][n], obs[m][n], beats[n], timeouts[m][n])
  BY DEF IInv, TypeOK, AllSound
<1>4. d \in Entry /\ Sound(d, obs[m][n] \cup {o}, beats[n], timeouts[m][n] \cup {ms})
  BY <1>1, <1>3, TimeoutSound
<1> HIDE DEF d, o
<1>5. TypeOK'
  BY <1>1, <1>2, <1>4 DEF IInv, TypeOK
<1>6. AllSound'
  <2> SUFFICES ASSUME NEW i \in Managers, NEW k \in Nodes
               PROVE  Sound(health'[i][k], obs'[i][k], beats'[k], timeouts'[i][k])
    BY DEF AllSound, Sound
  <2>1. CASE i = m /\ k = n
    BY <1>2, <1>4, <2>1 DEF IInv, TypeOK
  <2>2. CASE ~(i = m /\ k = n)
    BY <1>2, <2>2 DEF IInv, TypeOK, AllSound
  <2>3. QED BY <2>1, <2>2
<1>7. AllTruthful'
  BY <1>2 DEF IInv, AllTruthful, Truthful
<1>8. QED BY <1>5, <1>6, <1>7 DEF IInv

\* What a manager sends out has the heartbeats behind it that its entry has.
LEMMA SendStep ==
  ASSUME IInv, NEW m \in Managers, SendSnapshot(m)
  PROVE  IInv'
<1> DEFINE z == Snapshot(m)
<1>1. inFlight' = inFlight \cup {z} /\ UNCHANGED <<health, beats, timeouts, obs>>
  BY DEF SendSnapshot
<1>2. /\ DOMAIN z \subseteq Nodes
      /\ \A n \in DOMAIN z : z[n] = ReportOf(health[m][n])
  BY DEF Snapshot
<1>3. \A n \in Nodes : /\ ReportOf(health[m][n]) \in Report
                       /\ Truthful(ReportOf(health[m][n]), beats[n])
  BY DEF IInv, TypeOK, AllSound, Sound, Truthful, ReportOf, Report, Entry
<1> HIDE DEF z
<1>4. TypeOK'
  BY <1>1, <1>2, <1>3 DEF IInv, TypeOK
<1>5. AllSound'
  BY <1>1 DEF IInv, AllSound, Sound
<1>6. AllTruthful'
  <2> SUFFICES ASSUME NEW s \in inFlight \cup {z}, NEW k \in DOMAIN s
               PROVE  Truthful(s[k], beats[k])
    BY <1>1 DEF AllTruthful, Truthful
  <2>1. QED BY <1>2, <1>3 DEF IInv, AllTruthful
<1>7. QED BY <1>4, <1>5, <1>6 DEF IInv

\* IngestGossip keeps the invariant, for snapshots however old.
LEMMA GossipStep ==
  ASSUME IInv, NEW m \in Managers, NEW s \in inFlight, IngestGossip(m, s)
  PROVE  IInv'
<1> DEFINE h == [n \in Nodes |-> IF n \in DOMAIN s THEN Ingest(health[m][n], s[n])
                                 ELSE health[m][n]]
           w == [n \in Nodes |-> IF n \in DOMAIN s THEN obs[m][n] \cup {s[n]} ELSE obs[m][n]]
<1>1. /\ health' = [health EXCEPT ![m] = h] /\ obs' = [obs EXCEPT ![m] = w]
      /\ UNCHANGED <<inFlight, beats, timeouts>>
  BY DEF IngestGossip
<1>2. \A n \in Nodes : /\ health[m][n] \in Entry /\ obs[m][n] \in SUBSET Report
                       /\ Sound(health[m][n], obs[m][n], beats[n], timeouts[m][n])
  BY DEF IInv, TypeOK, AllSound
<1>3. \A n \in DOMAIN s : s[n] \in Report /\ Truthful(s[n], beats[n])
  BY DEF IInv, TypeOK, AllTruthful
<1>4. \A n \in Nodes : /\ h[n] \in Entry /\ w[n] \in SUBSET Report
                       /\ Sound(h[n], w[n], beats[n], timeouts[m][n])
  <2> SUFFICES ASSUME NEW n \in Nodes
               PROVE  /\ h[n] \in Entry /\ w[n] \in SUBSET Report
                      /\ Sound(h[n], w[n], beats[n], timeouts[m][n])
    OBVIOUS
  <2>1. CASE n \in DOMAIN s
    <3>1. h[n] = Ingest(health[m][n], s[n]) /\ w[n] = obs[m][n] \cup {s[n]}
      BY <2>1
    <3> HIDE DEF h, w
    <3>2. QED BY <1>2, <1>3, <2>1, <3>1, IngestSound
  <2>2. CASE n \notin DOMAIN s
    BY <1>2, <2>2
  <2>3. QED BY <2>1, <2>2
<1>5. h \in [Nodes -> Entry] /\ w \in [Nodes -> SUBSET Report]
  BY <1>4
<1> HIDE DEF h, w
<1>6. TypeOK'
  BY <1>1, <1>5 DEF IInv, TypeOK
<1>7. AllSound'
  <2> SUFFICES ASSUME NEW i \in Managers, NEW k \in Nodes
               PROVE  Sound(health'[i][k], obs'[i][k], beats'[k], timeouts'[i][k])
    BY DEF AllSound, Sound
  <2>1. CASE i = m
    BY <1>1, <1>4, <2>1 DEF IInv, TypeOK
  <2>2. CASE i # m
    BY <1>1, <2>2 DEF IInv, TypeOK, AllSound
  <2>3. QED BY <2>1, <2>2
<1>8. AllTruthful'
  BY <1>1 DEF IInv, AllTruthful, Truthful
<1>9. QED BY <1>6, <1>7, <1>8 DEF IInv

\* Every step keeps the invariant.
LEMMA IInvStep == IInv /\ [Next]_vars => IInv'
<1> SUFFICES ASSUME IInv, [Next]_vars PROVE IInv'
  OBVIOUS
<1>1. CASE UNCHANGED vars
  BY <1>1 DEF vars, IInv, TypeOK, AllSound, AllTruthful, Sound, Truthful
<1>2. ASSUME NEW s \in inFlight, LoseSnapshot(s) PROVE IInv'
  BY <1>2 DEF LoseSnapshot, IInv, TypeOK, AllSound, AllTruthful, Sound, Truthful
<1>3. QED
  BY <1>1, <1>2, HeartbeatStep, TimeoutStep, SendStep, GossipStep DEF Next

\* The inductive invariant holds throughout.
LEMMA Invariance == Spec => []IInv
  BY InitIInv, IInvStep, PTL DEF Spec

-----------------------------------------------------------------------------
\* The variables keep their types.
THEOREM Typing == Spec => []TypeOK
  BY Invariance, PTL DEF IInv

\* The latest observation decides, whatever the order of arrival.
THEOREM LatestAlwaysWins == Spec => []LatestWins
<1>1. IInv => LatestWins
  BY DEF IInv, AllSound, Sound, LatestWins
<1>2. QED BY <1>1, Invariance, PTL

\* A node is believed alive only on the strength of a heartbeat it gave.
THEOREM HeartbeatsAlwaysReal == Spec => []HeartbeatsAreReal
<1>1. IInv => HeartbeatsAreReal
  BY DEF IInv, AllSound, Sound, HeartbeatsAreReal
<1>2. QED BY <1>1, Invariance, PTL

\* Two managers between which gossip has settled agree on a node, unless the
\* doubting one has timed it out itself.
THEOREM GossipAlwaysSettles == Spec => []GossipSettles
<1>1. IInv => GossipSettles
  <2> SUFFICES ASSUME IInv, NEW a \in Managers, NEW b \in Managers, NEW n \in Nodes,
                      Settled(a, b, n), Settled(b, a, n),
                      health[a][n].alive, health[b][n].known, ~health[b][n].alive
               PROVE  \E ms \in timeouts[b][n] : ms = health[b][n].observed
                                                 /\ ms >= health[a][n].heartbeat
    BY DEF GossipSettles
  <2> DEFINE ea == health[a][n]
             eb == health[b][n]
  <2>1. /\ ea \in Entry /\ eb \in Entry
        /\ Sound(ea, obs[a][n], beats[n], timeouts[a][n])
        /\ Sound(eb, obs[b][n], beats[n], timeouts[b][n])
    BY DEF IInv, TypeOK, AllSound
  <2>2. /\ ea.known /\ eb.known /\ ea.alive /\ ~eb.alive
        /\ Ingest(eb, ReportOf(ea)) = eb /\ Ingest(ea, ReportOf(eb)) = ea
    BY <2>1 DEF Sound, Settled
  <2> HIDE DEF ea, eb
  <2>3. Ignores(eb, ReportOf(ea))
    <3>1. SUFFICES ASSUME ~Ignores(eb, ReportOf(ea)) PROVE FALSE
      OBVIOUS
    <3>2. Ingest(eb, ReportOf(ea)).alive = ea.alive
      BY <3>1 DEF Ingest, ReportOf
    <3>3. QED BY <2>2, <3>2
  <2>4. Ignores(ea, ReportOf(eb))
    <3>1. SUFFICES ASSUME ~Ignores(ea, ReportOf(eb)) PROVE FALSE
      OBVIOUS
    <3>2. Ingest(ea, ReportOf(eb)).alive = eb.alive
      BY <3>1 DEF Ingest, ReportOf
    <3>3. QED BY <2>2, <3>2
  <2>5. ea.heartbeat <= eb.observed
    BY <2>1, <2>3 DEF Ignores, ReportOf, Entry
  <2>6. eb.heartbeat < ea.heartbeat
    BY <2>1, <2>2, <2>4 DEF Ignores, ReportOf, Entry, Sound
  <2>7. eb.observed \in timeouts[b][n]
    BY <2>1, <2>2, <2>5, <2>6 DEF Sound, Entry
  <2>8. QED BY <2>1, <2>5, <2>7 DEF ea, eb, Entry
<1>2. QED BY <1>1, Invariance, PTL

=============================================================================
