--------------------------- MODULE DashboardPage ---------------------------
(***************************************************************************)
(* What the dashboard's page fetches (dashboard/src/app/page.tsx), and the *)
(* timeline that plays the fetched events back (components/simulations/    *)
(* simulation-timeline.tsx).                                               *)
(*                                                                         *)
(* A callback runs to its end before the next; an async function stops at  *)
(* each await.  React keeps the state of a page whose effects are cleaned  *)
(* up and run again.  It runs the effects of a change some time after the  *)
(* change: a timer or a click may come first.                              *)
(***************************************************************************)
EXTENDS Integers

CONSTANTS
    Sources,  \* what is fetched: "mock-events", "benchmark-snapshot", "scenarios"
    MaxRuns,  \* bound: times the effects run
    Lengths,  \* bound: how many events there may be
    Nowhere

ASSUME RunsAssumption == MaxRuns \in Nat /\ Lengths \subseteq Nat /\ Nowhere \notin Nat

VARIABLES
    run,        \* times the effects have run
    cancelled,  \* run -> cancelled
    fetch,      \* run -> source -> where its load function is
    shown,      \* source -> its status on the page
    outcome,    \* history: run -> source -> what came of its fetch
    length,     \* orderedEvents.length
    index,      \* currentIndex
    playing,    \* isPlaying
    timer,      \* the interval is set
    seen        \* length and isPlaying when the timeline's effects last ran

page_vars == <<run, cancelled, fetch, shown, outcome, length, index, playing, timer, seen>>
timeline == <<length, index, playing, timer, seen>>

Runs == 1 .. MaxRuns

PageInit ==
    /\ run = 0
    /\ cancelled = [r \in Runs |-> FALSE]
    /\ fetch = [r \in Runs |-> [s \in Sources |-> "unsent"]]
    /\ shown = [s \in Sources |-> "loading"]
    /\ outcome = fetch
    /\ length = 0 /\ index = Nowhere /\ playing = FALSE /\ timer = FALSE
    /\ seen = [length |-> 0, playing |-> FALSE]

-----------------------------------------------------------------------------
\* Effects

\* The timeline's effects on the number of events and on isPlaying.
Effects ==
    /\ index' = CASE length = 0 -> Nowhere
                  [] length > 0 /\ (index = Nowhere \/ index >= length) -> 0
                  [] OTHER -> index
    /\ playing' = (playing /\ length > 0)
    /\ timer' = (playing /\ length > 0)
    /\ seen' = [length |-> length, playing |-> playing]
    /\ UNCHANGED length

\* The page is mounted, or its effects run again: everything is fetched.  The
\* benchmark's status is not reset.
RunEffects ==
    /\ run < MaxRuns /\ (run > 0 => cancelled[run])
    /\ run' = run + 1
    /\ fetch' = [fetch EXCEPT ![run + 1] = [s \in Sources |-> "fetch"]]
    /\ outcome' = [outcome EXCEPT ![run + 1] = [s \in Sources |-> "none"]]
    /\ shown' = [s \in Sources |-> IF s = "benchmark-snapshot" THEN shown[s] ELSE "loading"]
    /\ Effects
    /\ UNCHANGED cancelled

\* abort makes a fetch fail that has not been answered.
CleanUp ==
    /\ run > 0 /\ ~cancelled[run]
    /\ cancelled' = [cancelled EXCEPT ![run] = TRUE]
    /\ timer' = FALSE
    /\ UNCHANGED <<run, fetch, shown, outcome, length, index, playing, seen>>

\* A change has been rendered.
Commit ==
    /\ run > 0 /\ ~cancelled[run]
    /\ seen # [length |-> length, playing |-> playing]
    /\ Effects
    /\ UNCHANGED <<run, cancelled, fetch, shown, outcome>>

-----------------------------------------------------------------------------
\* Fetches

\* A response that is ok.
Answer(r, s) ==
    /\ fetch[r][s] = "fetch"
    /\ fetch' = [fetch EXCEPT ![r][s] = "json"]
    /\ UNCHANGED <<run, cancelled, shown, outcome, timeline>>

\* Mistake: a page is told what an earlier run has fetched.
Tell_Late(r, s, status) == [shown EXCEPT ![s] = status]

Tell(r, s, status) == IF cancelled[r] THEN shown ELSE [shown EXCEPT ![s] = status]

\* It is not ok, cannot be read or has not the form it should; or no response.
Fail(r, s) ==
    /\ fetch[r][s] \in {"fetch", "json"}
    /\ fetch' = [fetch EXCEPT ![r][s] = "over"]
    /\ outcome' = [outcome EXCEPT ![r][s] = "error"]
    /\ shown' = Tell(r, s, "error")
    /\ UNCHANGED <<run, cancelled, timeline>>

\* The body has been read.  Events that are malformed are left out.
Load(r, s, n) ==
    /\ fetch[r][s] = "json"
    /\ fetch' = [fetch EXCEPT ![r][s] = "over"]
    /\ outcome' = [outcome EXCEPT ![r][s] = "ready"]
    /\ shown' = Tell(r, s, "ready")
    /\ length' = IF s = "mock-events" /\ ~cancelled[r] THEN n ELSE length
    /\ UNCHANGED <<run, cancelled, index, playing, timer, seen>>

-----------------------------------------------------------------------------
\* The timeline

\* Mistake: the last event is played for ever.
Tick_Stays ==
    /\ timer
    /\ index' = CASE index = Nowhere -> 0
                  [] index # Nowhere /\ index + 1 < seen.length -> index + 1
                  [] OTHER -> index
    /\ UNCHANGED <<run, cancelled, fetch, shown, outcome, length, playing, timer, seen>>

\* The interval, with the number of events its effect saw.
Tick ==
    /\ timer
    /\ \/ index = Nowhere /\ index' = 0 /\ UNCHANGED playing
       \/ index # Nowhere /\ index + 1 < seen.length /\ index' = index + 1 /\ UNCHANGED playing
       \/ index # Nowhere /\ index + 1 >= seen.length /\ playing' = FALSE /\ UNCHANGED index
    /\ UNCHANGED <<run, cancelled, fetch, shown, outcome, length, timer, seen>>

Start == IF length > 0 THEN 0 ELSE Nowhere

\* handlePlay, the other half of whose button is handlePause
Play ==
    /\ length > 0 /\ ~playing
    /\ playing' = TRUE
    /\ index' = IF index = Nowhere THEN 0 ELSE index
    /\ UNCHANGED <<run, cancelled, fetch, shown, outcome, length, timer, seen>>

\* handlePause leaves the position, handleReset and handleScenarioChange go to
\* the start, handleScrub to any position there is.
StopAt(position) ==
    /\ playing' = FALSE /\ index' = position
    /\ UNCHANGED <<run, cancelled, fetch, shown, outcome, length, timer, seen>>

Click == Play \/ StopAt(index) \/ StopAt(Start) \/ \E v \in 0 .. length - 1 : StopAt(v)

PageNext ==
    \/ RunEffects \/ CleanUp \/ Commit \/ Tick
    \/ run > 0 /\ ~cancelled[run] /\ Click
    \/ \E r \in Runs, s \in Sources : Answer(r, s) \/ Fail(r, s) \/ \E n \in Lengths : Load(r, s, n)

-----------------------------------------------------------------------------
\* Properties

\* The page shows what came of the fetches of its present run, whenever those
\* of an earlier one are answered; until then it shows that it is loading,
\* except for the benchmark, of which it may show what it had.
ShowsLatest ==
    run > 0 => \A s \in Sources :
        CASE outcome[run][s] # "none" -> shown[s] = outcome[run][s] \/ cancelled[run]
          [] outcome[run][s] = "none" -> s # "benchmark-snapshot" => shown[s] = "loading"

\* A playback that is neither stopped nor left comes to its end, though events
\* are fetched anew while it plays; and the position is that of an event as
\* soon as the timeline has seen how many there are.
PlaybackEnds ==
    /\ [](seen.length = length /\ index # Nowhere => index < length)
    /\ playing ~> (~playing \/ cancelled[run])

=============================================================================
