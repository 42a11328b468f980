---------------------------- MODULE DevScripts ----------------------------
(***************************************************************************)
(* scripts/dev-up.sh and scripts/dev-down.sh: starting, tracking by pid    *)
(* file, rolling back and stopping the cache server and the dashboard.     *)
(* One script runs at a time; the services and every other process of the  *)
(* machine come and go at any moment, and the kernel reuses process ids.   *)
(* A service's process group is represented by its leader, whose id is the *)
(* pid the scripts record.                                                 *)
(***************************************************************************)
EXTENDS Naturals, Sequences, SequencesExt

CONSTANTS Pids,      \* process ids
          None,      \* no process / no pid file
          Junk,      \* a pid file that holds no number
          Text       \* a line of text captured where a pid was meant

ASSUME PidsAssumption == {None, Junk, Text} \cap Pids = {}

VARIABLES live,      \* what runs under each pid: None, "other" or a service
          file,      \* the pid file of each service
          script,    \* the script running or last run
          pc,        \* where it is
          todo,      \* the services its current phase still has to treat
          pid,       \* CACHE_PID and DASHBOARD_PID
          started,   \* CACHE_STARTED and DASHBOARD_STARTED
          target,    \* the process being stopped
          launched,  \* history: the pids this run launched
          victims,   \* history: whose processes this run has signalled
          code       \* exit code of the run

vars == <<live, file, script, pc, todo, pid, started, target, launched, victims, code>>
run == <<script, pid, started, launched>>

Services == {"cache", "dashboard"}
UpOrder == <<"cache", "dashboard">>
RollbackOrder == Reverse(UpOrder)

\* A machine after a reboot: left-over pid files may name anything.
Init ==
    /\ live \in [Pids -> {None, "other"}]
    /\ file \in [Services -> Pids \cup {None, Junk}]
    /\ script = "none"
    /\ pc = "idle"
    /\ todo = <<>>
    /\ pid = [s \in Services |-> None]
    /\ started = [s \in Services |-> FALSE]
    /\ target = None
    /\ launched = {}
    /\ victims = {}
    /\ code = 0

-----------------------------------------------------------------------------
\* The machine.

\* A service or an unrelated process ends: on its own, or on a SIGTERM sent to it.
ProcessEnds ==
    /\ \E p \in Pids : live[p] # None /\ live' = [live EXCEPT ![p] = None]
    /\ UNCHANGED <<file, script, pc, todo, pid, started, target, launched, victims, code>>

\* The kernel does not hand out an id again within the moments one stop takes.
OtherStarts ==
    /\ \E p \in Pids \ {target} : live[p] = None /\ live' = [live EXCEPT ![p] = "other"]
    /\ UNCHANGED <<file, script, pc, todo, pid, started, target, launched, victims, code>>

-----------------------------------------------------------------------------
\* Helpers the two scripts share.

\* Mistake: any process under that id is taken for the service.
Matches_AnyCommand(p, s) == p \in Pids /\ live[p] # None

\* is_running and pid_matches.
Matches(p, s) == p \in Pids /\ live[p] = s

\* What start_cache_server and start_dashboard capture of validate_pid_file's
\* output: nothing without a readable pid file, the pid when it is good, and the
\* diagnostic when the process is gone or is another one.
validate_pid_file(s) ==
    IF file[s] \notin Pids THEN None
    ELSE IF Matches(file[s], s) THEN file[s] ELSE Text

Finish(c) == pc' = "idle" /\ todo' = <<>> /\ target' = None /\ code' = c

\* Go on to the next service of the phase, or to what follows the phase.
After(c) ==
    IF Len(todo) = 1 THEN Finish(c)
    ELSE pc' = "stop" /\ todo' = Tail(todo) /\ target' = None /\ UNCHANGED code

ExitCode == IF script = "up" THEN 1 ELSE 0

\* stop_owned_process / stop_process up to the checks: without a live process
\* of the right command the pid file is removed and nothing is signalled.
BeginStop ==
    /\ pc = "stop"
    /\ LET s == Head(todo)
           p == IF script = "up" THEN pid[s] ELSE file[s]
           skip == script = "up" /\ ~started[s]
       IN IF ~skip /\ Matches(p, s)
          THEN pc' = "kill" /\ target' = p /\ UNCHANGED <<file, todo, code>>
          ELSE /\ file' = IF skip THEN file ELSE [file EXCEPT ![s] = None]
               /\ After(ExitCode)
    /\ UNCHANGED <<live, victims, run>>

Owner(p) == IF live[p] = "other" THEN "other" ELSE IF p \in launched THEN "own" ELSE "found"

\* pgid=$(...) and kill. When the process is gone by now either of them fails,
\* and set -e ends the script there.
Kill ==
    /\ pc = "kill"
    /\ IF live[target] = None
       THEN Finish(1) /\ UNCHANGED victims
       ELSE pc' = "await" /\ victims' = victims \cup {Owner(target)} /\ UNCHANGED <<todo, target, code>>
    /\ UNCHANGED <<live, file, run>>

\* Mistake: no kill -9 after the polls.
Await_GivesUp ==
    /\ pc = "await"
    /\ file' = [file EXCEPT ![Head(todo)] = None]
    /\ After(ExitCode)
    /\ UNCHANGED <<live, victims, run>>

\* The process left within the forty polls, or it is killed with SIGKILL.
Await ==
    /\ pc = "await"
    /\ live' = [live EXCEPT ![target] = None]
    /\ file' = [file EXCEPT ![Head(todo)] = None]
    /\ After(ExitCode)
    /\ UNCHANGED <<victims, run>>

-----------------------------------------------------------------------------
\* dev-up.sh

BeginUp ==
    /\ pc = "idle"
    /\ script' = "up"
    /\ pc' = "build"
    /\ pid' = [s \in Services |-> None]
    /\ started' = [s \in Services |-> FALSE]
    /\ launched' = {}
    /\ victims' = {}
    /\ code' = 0
    /\ UNCHANGED <<live, file, todo, target>>

\* The EXIT trap: rollback_on_failure.
rollback_on_failure == pc' = "stop" /\ todo' = RollbackOrder

\* require_cmd, ensure_cache_server and ensure_dashboard_deps, each of which may fail.
Build ==
    /\ pc = "build"
    /\ \/ pc' = "start" /\ todo' = UpOrder
       \/ rollback_on_failure
    /\ UNCHANGED <<live, file, target, victims, code, run>>

\* An unreadable pid file is removed by read_pid_file, a stale one by validate_pid_file.
Cleaned(s) == IF Matches(file[s], s) THEN file ELSE [file EXCEPT ![s] = None]

Launch(s, p) ==
    /\ live[p] = None
    /\ live' = [live EXCEPT ![p] = s]
    /\ file' = [file EXCEPT ![s] = p]
    /\ pid' = [pid EXCEPT ![s] = p]
    /\ started' = [started EXCEPT ![s] = TRUE]
    /\ launched' = launched \cup {p}

\* Mistake: the pid file is not looked at.
AlreadyRunning_Never(s) == FALSE

\* Whether start_cache_server and start_dashboard take a service for running.
AlreadyRunning(s) == validate_pid_file(s) # None

\* start_cache_server, then start_dashboard.
Start ==
    /\ pc = "start"
    /\ LET s == Head(todo)
       IN IF AlreadyRunning(s)
          THEN /\ pid' = [pid EXCEPT ![s] = validate_pid_file(s)]
               /\ file' = Cleaned(s)
               /\ UNCHANGED <<live, started, launched>>
          ELSE \E p \in Pids : Launch(s, p)
    /\ IF Len(todo) = 1
       THEN pc' = "ready" /\ todo' = <<>>
       ELSE UNCHANGED pc /\ todo' = Tail(todo)
    /\ UNCHANGED <<script, target, victims, code>>

\* wait_for_port and wait_for_http. Any listener on the ports will do for them,
\* so the outcome does not depend on the processes modelled here.
AwaitReady ==
    /\ pc = "ready"
    /\ \/ Finish(0)
       \/ rollback_on_failure /\ UNCHANGED <<target, code>>
    /\ UNCHANGED <<live, file, victims, run>>

-----------------------------------------------------------------------------
\* dev-down.sh

BeginDown ==
    /\ pc = "idle"
    /\ script' = "down"
    /\ pc' = "stop"
    /\ todo' = UpOrder
    /\ launched' = {}
    /\ victims' = {}
    /\ code' = 0
    /\ UNCHANGED <<live, file, pid, started, target>>

Next ==
    \/ ProcessEnds \/ OtherStarts
    \/ BeginUp \/ Build \/ Start \/ AwaitReady
    \/ BeginDown
    \/ BeginStop \/ Kill \/ Await

Spec == Init /\ [][Next]_vars

-----------------------------------------------------------------------------
\* Properties

\* Whatever the pid files name, and however ids have been reused since they were
\* written, neither script signals a process that is not the service the file is
\* for (pid_matches before every kill); and a failing dev-up.sh stops only what
\* this run started, so that a service it found running keeps running (the
\* CACHE_STARTED and DASHBOARD_STARTED flags).
SignalsOwnOnly ==
    /\ "other" \notin victims
    /\ script = "up" => victims \subseteq {"own"}

\* Between two runs every live service process is the one its pid file names, so
\* there is at most one per service and dev-down.sh can always find it, also
\* after a rollback that set -e cut short.
NoOrphans ==
    pc = "idle" => \A p \in Pids : live[p] \in Services => file[live[p]] = p

\* When dev-down.sh exits with 0 neither service is running, even one that ignores
\* SIGTERM (the forty polls end in kill -9).
DownStops ==
    (script = "down" /\ pc = "idle" /\ code = 0) =>
        \A p \in Pids : live[p] \notin Services

\* Once dev-up.sh is past start_cache_server and start_dashboard it knows a process
\* for each service: one it found running or one it launched.
BothServicesStarted == (script = "up" /\ pc = "ready") => \A s \in Services : pid[s] \in Pids

=============================================================================
