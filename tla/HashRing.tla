----------------------------- MODULE HashRing -----------------------------
(***************************************************************************)
(* The consistent-hash ring (src/cluster/hash_ring.cpp) and the router     *)
(* that asks it (src/cluster/shard_router.cpp).                            *)
(*                                                                         *)
(* Nothing is assumed of the hash: it is any function of Hashes, with      *)
(* whatever collisions that has.  A key is as good as the hash of it.      *)
(***************************************************************************)
EXTENDS Integers

CONSTANTS
    Nodes,
    Tokens,    \* uint64_t
    Attempts,  \* bound: the values of attempt
    MaxVnodes, \* bound: virtual_nodes
    Hashes,    \* the functions Hash64 may be, on the strings TokenFor makes
    NoNode     \* the empty string

ASSUME RingAssumption ==
    /\ Tokens \subseteq Nat /\ Attempts \subseteq Nat /\ MaxVnodes \in Nat
    /\ Hashes \subseteq [Nodes \X (0 .. MaxVnodes - 1) \X Attempts -> Tokens]
    /\ NoNode \notin Nodes

VARIABLES
    hash,
    ring,        \* ring_: token -> node, for the tokens in it
    node_tokens  \* node_tokens_: node -> its tokens by vnode, for the nodes in it

vars == <<hash, ring, node_tokens>>

Init == hash \in Hashes /\ ring = << >> /\ node_tokens = << >>

TokenFor(n, vnode, attempt) == hash[n, vnode, attempt]

\* Mistake: the old tokens are looked up by what a first attempt gives.
Unplaced_First(n) ==
    [t \in {u \in DOMAIN ring : n \in DOMAIN node_tokens =>
                \A i \in DOMAIN node_tokens[n] : u # TokenFor(n, i, 0)} |-> ring[t]]

\* ring_ without the tokens of n.
Unplaced(n) ==
    [t \in {u \in DOMAIN ring : ring[u] # n \/ n \notin DOMAIN node_tokens
                \/ \A i \in DOMAIN node_tokens[n] : u # node_tokens[n][i]} |-> ring[t]]

RemoveNode(n) ==
    /\ ring' = Unplaced(n)
    /\ node_tokens' = [m \in DOMAIN node_tokens \ {n} |-> node_tokens[m]]
    /\ UNCHANGED hash

\* Mistake: a token in use is taken over.
Found_Taken(n, i, token, taken) == token = TokenFor(n, i, 0)

\* Where the search for a token of vnode i ends.
Found(n, i, token, taken) ==
    \E a \in Attempts :
        /\ token = TokenFor(n, i, a) /\ token \notin taken
        /\ \A b \in Attempts : b < a => TokenFor(n, i, b) \in taken

\* The new node's tokens are searched among those of the others and its own.
AddNode(n, virtual_nodes) ==
    /\ virtual_nodes > 0
    /\ \E tokens \in [0 .. virtual_nodes - 1 -> Tokens] :
        /\ \A i \in 0 .. virtual_nodes - 1 :
             Found(n, i, tokens[i], DOMAIN Unplaced(n) \cup {tokens[j] : j \in 0 .. i - 1})
        /\ ring' = [t \in DOMAIN Unplaced(n) \cup {tokens[i] : i \in 0 .. virtual_nodes - 1} |->
                      IF \E i \in 0 .. virtual_nodes - 1 : t = tokens[i] THEN n ELSE ring[t]]
        /\ node_tokens' = [m \in DOMAIN node_tokens \cup {n} |->
                             IF m = n THEN tokens ELSE node_tokens[m]]
    /\ UNCHANGED hash

\* The exception comes before anything is done.
AddNothing(n, virtual_nodes) == virtual_nodes <= 0 /\ UNCHANGED vars

Next ==
    \E n \in Nodes :
        \/ RemoveNode(n)
        \/ \E v \in 0 .. MaxVnodes : AddNode(n, v) \/ AddNothing(n, v)

Spec == Init /\ [][Next]_vars

\* lower_bound, or begin.
Successor(key) ==
    LET after == {t \in DOMAIN ring : key <= t}
        from == IF after = {} THEN DOMAIN ring ELSE after
    IN  CHOOSE t \in from : \A u \in from : t <= u

OwnerForKey(key) == IF DOMAIN ring = {} THEN NoNode ELSE ring[Successor(key)]

RouteKeyToNode(key) == OwnerForKey(key)

-----------------------------------------------------------------------------
\* Properties

\* The two maps agree: the tokens listed for a node are tokens of the ring that
\* lead to it, all different, and the ring has no others.  Without this a
\* removed node would go on owning keys.
RingConsistent ==
    /\ \A n \in DOMAIN node_tokens : \A i \in DOMAIN node_tokens[n] :
         /\ node_tokens[n][i] \in DOMAIN ring /\ ring[node_tokens[n][i]] = n
         /\ \A j \in DOMAIN node_tokens[n] : node_tokens[n][i] = node_tokens[n][j] => i = j
    /\ \A t \in DOMAIN ring :
         ring[t] \in DOMAIN node_tokens /\ \E i \in DOMAIN node_tokens[ring[t]] : t = node_tokens[ring[t]][i]

\* What n has in node_tokens_, if anything.
TokensOf(n) == IF n \in DOMAIN node_tokens THEN node_tokens[n] ELSE << >>

\* A key changes hands only from or to the node a call is about: a node that
\* leaves moves no key of another, a node that joins only takes keys, whatever
\* collided before.
KeysStay ==
    [][\A key \in Tokens :
          \/ RouteKeyToNode(key)' = RouteKeyToNode(key)
          \/ \E n \in Nodes : /\ n = RouteKeyToNode(key) \/ n = RouteKeyToNode(key)'
                              /\ TokensOf(n)' # TokensOf(n)]_vars

=============================================================================
