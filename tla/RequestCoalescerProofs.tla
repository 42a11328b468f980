---------------------- MODULE RequestCoalescerProofs ----------------------
(***************************************************************************)
(* Proofs about RequestCoalescer, for any number of calls and keys and any *)
(* nesting.  The invariant: inflight_ holds exactly the futures of the     *)
(* calls between their two critical sections, and a future held belongs to *)
(* a call that made it for the same key and was not over at the time.      *)
(***************************************************************************)
EXTENDS RequestCoalescer, TLAPS

\* Between the two critical sections.
Leading(c) == at[c] \in {"working", "erasing"}

\* inflight_ is the set of calls that lead, one for each key.
Exact ==
    /\ \A c \in Calls : Leading(c) => key[c] \in DOMAIN inflight /\ inflight[key[c]] = c
    /\ \A k \in DOMAIN inflight : Leading(inflight[k]) /\ key[inflight[k]] = k

\* What is in flight was made by its own call.
Own == \A c \in Calls : Leading(c) => fut[c] = c

\* Futures come from calls that were made.
Begun == \A c \in Calls : at[c] # "unborn" => at[fut[c]] # "unborn"

\* The calls earlier than c were over, so they are still.
Past == \A c \in Calls : \A d \in earlier[c] : at[d] \in {"waiting", "returned"} /\ fut[d] = d

IInv == TypeOK /\ Exact /\ Own /\ Begun /\ Past /\ FreshAnswer

\* The invariant holds before the first call.
LEMMA InitIInv == Init => IInv
<1> SUFFICES ASSUME Init PROVE IInv
  OBVIOUS
<1>1. DOMAIN inflight = {} /\ \A c \in Calls : at[c] = "unborn" /\ earlier[c] = {}
  BY DEF Init
<1>2. TypeOK
  BY <1>1, NeedsAssumption DEF Init, TypeOK
<1>3. QED BY <1>1, <1>2 DEF IInv, Exact, Own, Begun, Past, FreshAnswer, Leading

\* A call that finds its key joins a leader of that key; one that does not
\* becomes the only leader.
LEMMA ExecuteStep ==
  ASSUME IInv, NEW c \in Calls, NEW k \in Keys, NEW p \in Calls \cup {None}, Execute(c, k, p)
  PROVE  IInv'
<1>0. TypeOK /\ Exact /\ Own /\ Begun /\ Past /\ FreshAnswer
  BY DEF IInv
<1> DEFINE over == {d \in Calls : fut[d] = d /\ at[d] \in {"waiting", "returned"}}
<1>1. /\ at[c] = "unborn" /\ key' = [key EXCEPT ![c] = k]
      /\ earlier' = [earlier EXCEPT ![c] = over] /\ outcome' = outcome
      /\ nested' \in [Calls -> Calls \cup {None}]
      /\ k \in DOMAIN inflight => Join(c, k)
      /\ k \notin DOMAIN inflight => Lead(c, k)
  BY <1>0 DEF Execute, CalledBy, Enter, TypeOK
<1>2. /\ key'[c] = k /\ earlier'[c] = over
      /\ \A d \in Calls : d # c => key'[d] = key[d] /\ earlier'[d] = earlier[d]
  BY <1>0, <1>1 DEF TypeOK
<1>3. ~Leading(c) /\ \A d \in Calls : c \notin earlier[d]
  BY <1>0, <1>1 DEF Leading, Past
<1>4. PICK f \in Calls, l \in {"working", "waiting"} :
         /\ fut' = [fut EXCEPT ![c] = f] /\ at' = [at EXCEPT ![c] = l]
         /\ \/ /\ k \in DOMAIN inflight /\ f = inflight[k] /\ l = "waiting"
               /\ inflight' = inflight /\ Leading(f) /\ key[f] = k /\ f # c
            \/ /\ k \notin DOMAIN inflight /\ f = c /\ l = "working"
               /\ inflight' = [j \in DOMAIN inflight \cup {k} |-> IF j = k THEN c ELSE inflight[j]]
  <2>1. CASE k \in DOMAIN inflight
    BY <1>0, <1>1, <1>3, <2>1 DEF Join, Exact, TypeOK
  <2>2. CASE k \notin DOMAIN inflight
    BY <1>1, <2>2 DEF Lead
  <2>3. QED BY <2>1, <2>2
<1>5. /\ fut'[c] = f /\ at'[c] = l
      /\ \A d \in Calls : d # c => fut'[d] = fut[d] /\ at'[d] = at[d]
  BY <1>0, <1>4 DEF TypeOK
<1>6. over \subseteq Calls /\ f \notin over /\ c \notin over
  BY <1>0, <1>1, <1>4 DEF Leading
<1> HIDE DEF over
<1>7. TypeOK'
  <2>1. /\ at' \in [Calls -> {"unborn", "working", "erasing", "waiting", "returned"}]
        /\ key' \in [Calls -> Keys \cup {None}] /\ fut' \in [Calls -> Calls \cup {None}]
        /\ earlier' \in [Calls -> SUBSET Calls]
    BY <1>0, <1>1, <1>4, <1>6 DEF TypeOK
  <2>2. \A d \in Calls : at'[d] # "unborn" => key'[d] \in Keys /\ fut'[d] \in Calls
    BY <1>0, <1>2, <1>5 DEF TypeOK
  <2>3. DOMAIN inflight' \subseteq Keys /\ \A j \in DOMAIN inflight' : inflight'[j] \in Calls
    BY <1>0, <1>4 DEF TypeOK
  <2>4. QED BY <1>0, <1>1, <2>1, <2>2, <2>3 DEF TypeOK
<1>8. Exact'
  <2>1. CASE k \in DOMAIN inflight
    BY <1>0, <1>2, <1>3, <1>4, <1>5, <2>1 DEF Exact, Leading, TypeOK
  <2>2. CASE k \notin DOMAIN inflight
    <3>1. /\ DOMAIN inflight' = DOMAIN inflight \cup {k} /\ inflight'[k] = c
          /\ \A j \in DOMAIN inflight : inflight'[j] = inflight[j] /\ inflight[j] # c
      BY <1>0, <1>3, <1>4, <2>2 DEF Exact
    <3>2. at'[c] = "working"
      BY <1>4, <1>5, <2>2
    <3>3. QED BY <1>0, <1>2, <1>5, <2>2, <3>1, <3>2 DEF Exact, Leading, TypeOK
  <2>3. QED BY <2>1, <2>2
<1>9. Own'
  BY <1>0, <1>4, <1>5 DEF Own, Leading
<1>10. Past'
  <2> SUFFICES ASSUME NEW e \in Calls, NEW d \in earlier'[e]
               PROVE  at'[d] \in {"waiting", "returned"} /\ fut'[d] = d
    BY DEF Past
  <2>1. CASE e = c
    <3>1. d \in Calls /\ d # c /\ at[d] \in {"waiting", "returned"} /\ fut[d] = d
      BY <1>2, <1>6, <2>1 DEF over
    <3>2. QED BY <1>5, <3>1
  <2>2. CASE e # c
    <3>1. d \in earlier[e] /\ d \in Calls /\ d # c
      BY <1>0, <1>2, <1>3, <2>2 DEF TypeOK
    <3>2. QED BY <1>0, <1>5, <3>1 DEF Past
  <2>3. QED BY <2>1, <2>2
<1>11. FreshAnswer'
  <2> SUFFICES ASSUME NEW e \in Calls, at'[e] # "unborn"
               PROVE  key'[fut'[e]] = key'[e] /\ fut'[e] \notin earlier'[e]
    BY DEF FreshAnswer
  <2>1. CASE e = c
    <3>1. key'[f] = k
      BY <1>2, <1>4
    <3>2. QED BY <1>2, <1>5, <1>6, <2>1, <3>1
  <2>2. CASE e # c
    <3>1. at[e] # "unborn" /\ fut'[e] = fut[e] /\ earlier'[e] = earlier[e] /\ key'[e] = key[e]
      BY <1>2, <1>5, <2>2
    <3>2. fut[e] \in Calls /\ key[fut[e]] = key[e] /\ fut[e] \notin earlier[e]
      BY <1>0, <3>1 DEF FreshAnswer, TypeOK
    <3>3. CASE fut[e] # c
      BY <1>2, <3>1, <3>2, <3>3
    <3>4. fut[e] # c
      BY <1>0, <1>1, <3>1, <3>2 DEF Begun
    <3>5. QED BY <3>3, <3>4
  <2>3. QED BY <2>1, <2>2
<1>12. Begun'
  BY <1>0, <1>4, <1>5 DEF Begun, Leading, TypeOK
<1>13. QED BY <1>7, <1>8, <1>9, <1>10, <1>11, <1>12 DEF IInv

\* A promise that is kept changes nothing in inflight_.
LEMMA FinishWorkStep ==
  ASSUME IInv, NEW c \in Calls, NEW o \in {"value", "threw"}, FinishWork(c, o)
  PROVE  IInv'
<1>0. TypeOK /\ Exact /\ Own /\ Begun /\ Past /\ FreshAnswer
  BY DEF IInv
<1>1. /\ at[c] = "working" /\ at' = [at EXCEPT ![c] = "erasing"]
      /\ outcome' = [outcome EXCEPT ![c] = o]
      /\ UNCHANGED <<key, fut, nested, inflight, earlier>>
  BY DEF FinishWork
<1>2. at'[c] = "erasing" /\ \A d \in Calls : d # c => at'[d] = at[d]
  BY <1>0, <1>1 DEF TypeOK
<1>3. TypeOK'
  BY <1>0, <1>1, <1>2 DEF TypeOK
<1>4. \A d \in Calls : Leading(d)' <=> Leading(d)
  BY <1>1, <1>2 DEF Leading
<1>5. Exact' /\ Own'
  BY <1>0, <1>1, <1>4 DEF Exact, Own, TypeOK
<1>6. Begun' /\ FreshAnswer'
  BY <1>0, <1>1, <1>2 DEF Begun, FreshAnswer, TypeOK
<1>7. Past'
  BY <1>0, <1>1, <1>2 DEF Past, TypeOK
<1>8. QED BY <1>3, <1>5, <1>6, <1>7 DEF IInv

\* A call erases its own future and no other.
LEMMA EraseStep ==
  ASSUME IInv, NEW c \in Calls, Erase(c)
  PROVE  IInv'
<1>0. TypeOK /\ Exact /\ Own /\ Begun /\ Past /\ FreshAnswer
  BY DEF IInv
<1>1. /\ at[c] = "erasing" /\ at' = [at EXCEPT ![c] = "waiting"]
      /\ UNCHANGED <<key, fut, nested, outcome, earlier>>
      /\ DOMAIN inflight' = DOMAIN inflight \ {key[c]}
      /\ \A j \in DOMAIN inflight' : inflight'[j] = inflight[j]
  BY DEF Erase, Erased
<1>2. at'[c] = "waiting" /\ \A d \in Calls : d # c => at'[d] = at[d]
  BY <1>0, <1>1 DEF TypeOK
<1>3. TypeOK'
  BY <1>0, <1>1, <1>2 DEF TypeOK
<1>4. ~Leading(c)' /\ \A d \in Calls : d # c => (Leading(d)' <=> Leading(d))
  BY <1>2 DEF Leading
<1>5. Leading(c) /\ inflight[key[c]] = c
  BY <1>0, <1>1 DEF Leading, Exact
<1>6. Exact'
  <2>1. \A d \in Calls : d # c /\ Leading(d) => key[d] # key[c]
    BY <1>0, <1>5 DEF Exact
  <2>2. \A j \in DOMAIN inflight' : inflight[j] # c /\ inflight[j] \in Calls
    BY <1>0, <1>1 DEF Exact, TypeOK
  <2>3. QED BY <1>0, <1>1, <1>4, <2>1, <2>2 DEF Exact
<1>7. Own'
  BY <1>0, <1>1, <1>4 DEF Own
<1>8. Begun' /\ FreshAnswer'
  BY <1>0, <1>1, <1>2 DEF Begun, FreshAnswer, TypeOK
<1>9. Past'
  BY <1>0, <1>1, <1>2 DEF Past, TypeOK
<1>10. QED BY <1>3, <1>6, <1>7, <1>8, <1>9 DEF IInv

\* A caller that takes its answer changes nothing in inflight_.
LEMMA GetStep ==
  ASSUME IInv, NEW c \in Calls, Get(c)
  PROVE  IInv'
<1>0. TypeOK /\ Exact /\ Own /\ Begun /\ Past /\ FreshAnswer
  BY DEF IInv
<1>1. /\ at[c] = "waiting" /\ at' = [at EXCEPT ![c] = "returned"]
      /\ nested' = [p \in Calls |-> IF nested[p] = c THEN None ELSE nested[p]]
      /\ UNCHANGED <<key, fut, inflight, outcome, earlier>>
  BY DEF Get
<1>2. at'[c] = "returned" /\ \A d \in Calls : d # c => at'[d] = at[d]
  BY <1>0, <1>1 DEF TypeOK
<1>3. TypeOK'
  <2>1. nested' \in [Calls -> Calls \cup {None}]
    BY <1>0, <1>1 DEF TypeOK
  <2>2. QED BY <1>0, <1>1, <1>2, <2>1 DEF TypeOK
<1>4. \A d \in Calls : Leading(d)' <=> Leading(d)
  BY <1>1, <1>2 DEF Leading
<1>5. Exact' /\ Own'
  BY <1>0, <1>1, <1>4 DEF Exact, Own, TypeOK
<1>6. Begun' /\ FreshAnswer'
  BY <1>0, <1>1, <1>2 DEF Begun, FreshAnswer, TypeOK
<1>7. Past'
  BY <1>0, <1>1, <1>2 DEF Past, TypeOK
<1>8. QED BY <1>3, <1>5, <1>6, <1>7 DEF IInv

\* Every step keeps the invariant.
LEMMA IInvStep == IInv /\ [Next]_vars => IInv'
<1> SUFFICES ASSUME IInv, [Next]_vars PROVE IInv'
  OBVIOUS
<1>1. CASE UNCHANGED vars
  BY <1>1 DEF vars, IInv, TypeOK, Exact, Own, Begun, Past, FreshAnswer, Leading
<1>2. QED
  BY <1>1, ExecuteStep, FinishWorkStep, EraseStep, GetStep DEF Next, Step

\* The inductive invariant holds throughout.
LEMMA Invariance == Spec => []IInv
  BY InitIInv, IInvStep, PTL DEF Spec

-----------------------------------------------------------------------------
\* The variables keep their types.
THEOREM Typing == Spec => []TypeOK
  BY Invariance, PTL DEF IInv

\* The work for a key never runs twice at once.
THEOREM AlwaysSingleFlight == Spec => []SingleFlight
<1>1. IInv => SingleFlight
  BY DEF IInv, Exact, Leading, SingleFlight
<1>2. QED BY <1>1, Invariance, PTL

\* Nobody is given the answer of an Execute that was over before the call.
THEOREM AnswersAlwaysFresh == Spec => []FreshAnswer
  BY Invariance, PTL DEF IInv

=============================================================================
