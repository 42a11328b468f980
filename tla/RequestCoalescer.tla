------------------------- MODULE RequestCoalescer -------------------------
(***************************************************************************)
(* Execute of the RequestCoalescer (src/core/request_coalescer.cpp) and    *)
(* the callers that wait on the futures it returns.                        *)
(*                                                                         *)
(* Each section of Execute under mutex_ is one step.  work() runs without  *)
(* the mutex and may itself call Execute and wait for the answer, on the   *)
(* keys Needs allows.  A call names the promise it makes.                  *)
(***************************************************************************)
EXTENDS FiniteSets, Integers

CONSTANTS
    Calls,   \* bound: the calls of Execute, nested ones included
    Keys,
    Needs,   \* key -> the keys the work for it may ask for
    None

ASSUME NeedsAssumption == Needs \in [Keys -> SUBSET Keys] /\ None \notin Calls

\* The work for a key never comes back to that key.
ASSUME NeedsAcyclic ==
    \E rank \in [Keys -> 1..Cardinality(Keys)] :
        \A k \in Keys : \A n \in Needs[k] : rank[n] < rank[k]

VARIABLES
    at,        \* call -> where it is
    key,       \* call -> its key
    fut,       \* call -> the call whose promise the future it holds belongs to
    nested,    \* call -> the call its work waits for, or None
    inflight,  \* inflight_: the key's future, for the keys in it
    outcome,   \* call -> what its promise holds
    earlier    \* history: call -> calls of Execute over when it was made

vars == <<at, key, fut, nested, inflight, outcome, earlier>>

Init ==
    /\ at = [c \in Calls |-> "unborn"]
    /\ key = [c \in Calls |-> None]
    /\ fut = [c \in Calls |-> None]
    /\ nested = [c \in Calls |-> None]
    /\ inflight = << >>
    /\ outcome = [c \in Calls |-> "pending"]
    /\ earlier = [c \in Calls |-> {}]

\* Who calls: a thread of its own, or the work of an earlier call.
CalledBy(c, k, p) ==
    \/ p = None /\ UNCHANGED nested
    \/ /\ p \in Calls /\ at[p] = "working" /\ nested[p] = None /\ k \in Needs[key[p]]
       /\ nested' = [nested EXCEPT ![p] = c]

\* Mistake: the promise is made first, and its future returned in any case.
Join_Own(c, k) ==
    /\ fut' = [fut EXCEPT ![c] = c]
    /\ at' = [at EXCEPT ![c] = "waiting"]
    /\ UNCHANGED inflight

\* The early return of a future in flight.
Join(c, k) ==
    /\ fut' = [fut EXCEPT ![c] = inflight[k]]
    /\ at' = [at EXCEPT ![c] = "waiting"]
    /\ UNCHANGED inflight

\* Mistake: the future does not enter inflight_ before the work begins.
Lead_Unseen(c, k) ==
    /\ fut' = [fut EXCEPT ![c] = c]
    /\ at' = [at EXCEPT ![c] = "working"]
    /\ UNCHANGED inflight

\* From the promise to lock.unlock().
Lead(c, k) ==
    /\ fut' = [fut EXCEPT ![c] = c]
    /\ at' = [at EXCEPT ![c] = "working"]
    /\ inflight' = [j \in DOMAIN inflight \cup {k} |-> IF j = k THEN c ELSE inflight[j]]

Enter(c, k) == IF k \in DOMAIN inflight THEN Join(c, k) ELSE Lead(c, k)

Execute(c, k, p) ==
    /\ at[c] = "unborn"
    /\ CalledBy(c, k, p)
    /\ Enter(c, k)
    /\ key' = [key EXCEPT ![c] = k]
    /\ earlier' = [earlier EXCEPT ![c] = {d \in Calls : fut[d] = d /\ at[d] \in {"waiting", "returned"}}]
    /\ UNCHANGED outcome

\* work() returns or throws; set_value, set_exception.
FinishWork(c, o) ==
    /\ at[c] = "working" /\ nested[c] = None
    /\ outcome' = [outcome EXCEPT ![c] = o]
    /\ at' = [at EXCEPT ![c] = "erasing"]
    /\ UNCHANGED <<key, fut, nested, inflight, earlier>>

\* Mistake: work that threw leaves its future behind.
Erased_OnSuccess(c) ==
    IF outcome[c] = "threw" THEN inflight
    ELSE [j \in DOMAIN inflight \ {key[c]} |-> inflight[j]]

Erased(c) == [j \in DOMAIN inflight \ {key[c]} |-> inflight[j]]

\* Execute from lock.lock() to its end.
Erase(c) ==
    /\ at[c] = "erasing"
    /\ inflight' = Erased(c)
    /\ at' = [at EXCEPT ![c] = "waiting"]
    /\ UNCHANGED <<key, fut, nested, outcome, earlier>>

\* The caller's get() on the future; work that waited for it goes on.
Get(c) ==
    /\ at[c] = "waiting" /\ outcome[fut[c]] # "pending"
    /\ at' = [at EXCEPT ![c] = "returned"]
    /\ nested' = [p \in Calls |-> IF nested[p] = c THEN None ELSE nested[p]]
    /\ UNCHANGED <<key, fut, inflight, outcome, earlier>>

Step(c) == (\E o \in {"value", "threw"} : FinishWork(c, o)) \/ Erase(c) \/ Get(c)

Next ==
    \/ \E c \in Calls, k \in Keys, p \in Calls \cup {None} : Execute(c, k, p)
    \/ \E c \in Calls : Step(c)

Spec == Init /\ [][Next]_vars

\* Threads run on, and work that waits for nothing ends.
FairSpec == Spec /\ \A c \in Calls : WF_vars(Step(c))

-----------------------------------------------------------------------------
\* Properties

\* Every call that has begun has a future, and inflight_ holds futures of calls
\* that were made (Execute never returns an empty future).
TypeOK ==
    /\ at \in [Calls -> {"unborn", "working", "erasing", "waiting", "returned"}]
    /\ key \in [Calls -> Keys \cup {None}] /\ fut \in [Calls -> Calls \cup {None}]
    /\ \A c \in Calls : at[c] # "unborn" => key[c] \in Keys /\ fut[c] \in Calls
    /\ nested \in [Calls -> Calls \cup {None}]
    /\ DOMAIN inflight \subseteq Keys /\ \A k \in DOMAIN inflight : inflight[k] \in Calls
    /\ outcome \in [Calls -> {"pending", "value", "threw"}]
    /\ earlier \in [Calls -> SUBSET Calls]

\* The work for a key never runs twice at once, whoever asks and whatever
\* became of earlier work for it.
SingleFlight ==
    \A c, d \in Calls : at[c] = "working" /\ at[d] = "working" /\ key[c] = key[d] => c = d

\* No answer is left over: what a caller gets was made for its key, by an
\* Execute that was not over when the caller's began.  So a value, or a
\* failure, is never handed to someone who asked after everyone had it.
FreshAnswer ==
    \A c \in Calls : at[c] # "unborn" => key[fut[c]] = key[c] /\ fut[c] \notin earlier[c]

\* Every caller gets its answer, though works wait for one another.
EveryoneAnswered ==
    \A c \in Calls : (at[c] # "unborn") ~> (at[c] = "returned")

=============================================================================
