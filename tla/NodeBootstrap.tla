-------------------------- MODULE NodeBootstrap --------------------------
(***************************************************************************)
(* The server from its command line to the point where it serves: ParseArgs*)
(* and the first part of main (src/server/main.cpp), with the ring they    *)
(* set up.                                                                 *)
(*                                                                         *)
(* An argument is a flag and what stands after its "=": an integer of long *)
(* long, a name, or neither.                                               *)
(***************************************************************************)
EXTENDS HashRing, Sequences, SequencesExt

CONSTANTS
    Argvs,        \* what the command line may be
    DefaultNode,  \* NodeConfig::Default
    MaxInt,       \* the largest int
    MaxLong,      \* the largest long long
    MaxPort,      \* kMaxPort
    Unset

VARIABLES
    argv,
    options,  \* what ParseArgs returned
    status    \* "starting", "serving", or how main ended

node_vars == <<argv, options, status>>

NodeInit == argv \in Argvs /\ options = Unset /\ status = "starting"

\* The fields of RuntimeOptions by flag.
IntFlags ==
    {<<"--shard-count", "shard_count">>, <<"--virtual-nodes", "virtual_nodes">>,
     <<"--max-resp-clients", "max_resp_clients">>, <<"--listen-port", "listen_port">>,
     <<"--resp-port", "listen_port">>, <<"--grpc-port", "grpc_port">>,
     <<"--metrics-port", "metrics_port">>}

\* ParseIntFlag, ParseDurationFlag and ParseStringFlag, as ParseArgs calls them:
\* the fields an argument sets.  run_for alone may be more than an int.
Sets(arg) ==
    LET fits(flag, min, max) == arg.flag = flag /\ arg.value \in min .. max
    IN  {g[2] : g \in {h \in IntFlags : fits(h[1], 0 - MaxInt - 1, MaxInt)}}
          \cup {f \in {"run_for"} : fits("--run-for-ms", 0, MaxLong)}
          \cup {f \in {"resp_idle_timeout_ms"} : fits("--resp-idle-timeout-ms", 0, MaxInt)}
          \cup {f \in {"node_id"} : arg.flag = "--node-id"}
          \cup {f \in {"dry_run"} : arg.flag = "--dry-run"}

\* One turn of the loop; an argument that sets nothing ends it.
Option(o, arg) ==
    IF o = Unset \/ Sets(arg) = {} THEN Unset
    ELSE [f \in DOMAIN o |-> IF f \notin Sets(arg) THEN o[f]
                             ELSE IF f = "dry_run" THEN TRUE ELSE arg.value]

PortInRange(port) == 0 <= port /\ port <= MaxPort

\* Mistake: zero virtual nodes will do.
InLimits_Zero(o) ==
    /\ o.shard_count > 0 /\ o.virtual_nodes >= 0
    /\ PortInRange(o.listen_port) /\ PortInRange(o.grpc_port) /\ PortInRange(o.metrics_port)
    /\ o.max_resp_clients > 0 /\ o.resp_idle_timeout_ms > 0 /\ o.node_id # NoNode

\* The tests after the loop.
InLimits(o) ==
    /\ o.shard_count > 0 /\ o.virtual_nodes > 0
    /\ PortInRange(o.listen_port) /\ PortInRange(o.grpc_port) /\ PortInRange(o.metrics_port)
    /\ o.max_resp_clients > 0 /\ o.resp_idle_timeout_ms > 0 /\ o.node_id # NoNode

ParseArgs(args) ==
    LET o == FoldLeft(Option, DefaultNode, args)
    IN  IF o = Unset \/ ~InLimits(o) THEN Unset ELSE o

\* main up to the dry run.  The exception of AddNode is caught nowhere.
Start(bootstrap) ==
    LET o == ParseArgs(argv)
    IN  /\ status = "starting"
        /\ options' = o
        /\ \/ o = Unset /\ status' = "exit 1" /\ UNCHANGED vars
           \/ o # Unset /\ AddNothing(o.node_id, o.virtual_nodes) /\ status' = "abort"
           \/ /\ o # Unset /\ AddNode(o.node_id, o.virtual_nodes)
              /\ status' = CASE OwnerForKey(bootstrap)' = NoNode -> "exit 1"
                             [] OwnerForKey(bootstrap)' # NoNode /\ o.dry_run -> "exit 0"
                             [] OTHER -> "serving"
        /\ UNCHANGED argv

-----------------------------------------------------------------------------
\* Properties

\* The server starts if every argument is an option with a value of its kind
\* and the last value of each field is in its limits, and on those values; it
\* never starts on others, and never fails on the ring it sets up, which leads
\* every key to the node itself.
StartsAsTold ==
    LET given(f) == {i \in DOMAIN argv : f \in Sets(argv[i])}
        last(f) == CHOOSE i \in given(f) : \A j \in given(f) : j <= i
        told == [f \in DOMAIN DefaultNode |->
                   IF given(f) = {} THEN DefaultNode[f]
                   ELSE IF f = "dry_run" THEN TRUE ELSE argv[last(f)].value]
        positive == {"shard_count", "virtual_nodes", "max_resp_clients", "resp_idle_timeout_ms"}
        ports == {"listen_port", "grpc_port", "metrics_port"}
        startable == /\ \A i \in DOMAIN argv : Sets(argv[i]) # {}
                     /\ \A f \in positive : told[f] > 0
                     /\ \A f \in ports : told[f] \in 0 .. MaxPort
                     /\ told.node_id # NoNode
    IN  /\ status # "starting" =>
             status = IF ~startable THEN "exit 1" ELSE IF told.dry_run THEN "exit 0" ELSE "serving"
        /\ status = "serving" =>
             options = told /\ \A key \in Tokens : RouteKeyToNode(key) = told.node_id

=============================================================================
