-------------------------- MODULE HashRingProofs --------------------------
(***************************************************************************)
(* The ring is consistent, and keys stay with their nodes, for every hash  *)
(* and however it collides.                                                *)
(***************************************************************************)
EXTENDS HashRing, WellFoundedInduction, TLAPS

\* The inductive invariant: RingConsistent, and what the order of tokens needs.
IInv == RingConsistent /\ DOMAIN ring \subseteq Tokens

\* What a call about n does to the ring: the tokens of others stay as they are,
\* and none is added.
OthersStay(n) ==
    /\ \A t \in DOMAIN ring : ring[t] # n => t \in DOMAIN ring' /\ ring'[t] = ring[t]
    /\ \A t \in DOMAIN ring' : ring'[t] # n => t \in DOMAIN ring /\ ring'[t] = ring[t]

\* The ring is what it was.
Same == DOMAIN ring' = DOMAIN ring /\ \A t \in DOMAIN ring : ring'[t] = ring[t]

-----------------------------------------------------------------------------
\* Where lower_bound and begin look, and what they find.
From(D, key) == IF {t \in D : key <= t} = {} THEN D ELSE {t \in D : key <= t}

First(D, key) == CHOOSE t \in From(D, key) : \A u \in From(D, key) : t <= u

\* A nonempty ring has a first token for every key.
LEMMA FirstExists ==
  ASSUME NEW D, D \subseteq Nat, D # {}, NEW key \in Nat
  PROVE  First(D, key) \in From(D, key) /\ \A u \in From(D, key) : First(D, key) <= u
<1> DEFINE S == From(D, key)
<1>1. S \subseteq Nat /\ S # {}
  BY DEF From
<1> HIDE DEF S
<1>2. PICK x \in S : \A y \in S : ~(<<y, x>> \in OpToRel(<, Nat))
  BY <1>1, NatLessThanWellFounded, WFMin
<1>3. \A y \in S : x <= y
  <2>1. ASSUME NEW y \in S PROVE ~(y < x)
    <3>1. x \in Nat /\ y \in Nat
      BY <1>1
    <3>2. y < x => <<y, x>> \in OpToRel(<, Nat)
      BY <3>1, Zenon DEF OpToRel
    <3>3. QED BY <1>2, <3>2
  <2>2. QED BY <1>1, <2>1
<1>4. QED BY <1>3 DEF First, S

\* Two rings that each have the other's first token for a key have the same.
LEMMA FirstShared ==
  ASSUME NEW D, D \subseteq Nat, D # {}, NEW E, E \subseteq Nat, E # {}, NEW key \in Nat,
         First(D, key) \in E, First(E, key) \in D
  PROVE  First(D, key) = First(E, key)
<1>1. First(D, key) \in From(D, key) /\ \A u \in From(D, key) : First(D, key) <= u
  BY FirstExists
<1>2. First(E, key) \in From(E, key) /\ \A u \in From(E, key) : First(E, key) <= u
  BY FirstExists
<1>3. First(E, key) \in From(D, key) /\ First(D, key) \in From(E, key)
  BY <1>1, <1>2 DEF From
<1>4. First(D, key) <= First(E, key) /\ First(E, key) <= First(D, key)
  BY <1>1, <1>2, <1>3
<1>5. First(D, key) \in Nat /\ First(E, key) \in Nat
  OBVIOUS
<1>6. QED BY <1>4, <1>5

-----------------------------------------------------------------------------
\* A removal leaves only tokens of others.
LEMMA UnplacedOthers ==
  ASSUME IInv, NEW n
  PROVE  /\ DOMAIN Unplaced(n) = {t \in DOMAIN ring : ring[t] # n}
         /\ \A t \in DOMAIN Unplaced(n) : Unplaced(n)[t] = ring[t]
  BY DEF IInv, RingConsistent, Unplaced

LEMMA RemoveKeeps ==
  ASSUME IInv, NEW n \in Nodes, RemoveNode(n)
  PROVE  IInv' /\ OthersStay(n)
<1>1. /\ DOMAIN ring' = {t \in DOMAIN ring : ring[t] # n}
      /\ \A t \in DOMAIN ring' : ring'[t] = ring[t]
  BY UnplacedOthers DEF RemoveNode
<1>2. /\ DOMAIN node_tokens' = DOMAIN node_tokens \ {n}
      /\ \A m \in DOMAIN node_tokens' : node_tokens'[m] = node_tokens[m]
  BY DEF RemoveNode
<1>3. RingConsistent'
  BY <1>1, <1>2 DEF IInv, RingConsistent
<1>4. QED BY <1>1, <1>3 DEF IInv, OthersStay

\* Tokens that are searched one after the other are new, and all different.  A
\* node that gets the tokens it had changes nothing.
LEMMA AddKeeps ==
  ASSUME IInv, NEW n \in Nodes, NEW v \in 0 .. MaxVnodes, AddNode(n, v)
  PROVE  /\ IInv' /\ OthersStay(n)
         /\ TokensOf(n)' = TokensOf(n) => Same
<1>1. v \in Nat /\ v > 0
  BY RingAssumption DEF AddNode
<1>2. PICK tokens \in [0 .. v - 1 -> Tokens] :
        /\ \A i \in 0 .. v - 1 :
             Found(n, i, tokens[i], DOMAIN Unplaced(n) \cup {tokens[j] : j \in 0 .. i - 1})
        /\ ring' = [t \in DOMAIN Unplaced(n) \cup {tokens[i] : i \in 0 .. v - 1} |->
                      IF \E i \in 0 .. v - 1 : t = tokens[i] THEN n ELSE ring[t]]
        /\ node_tokens' = [m \in DOMAIN node_tokens \cup {n} |->
                             IF m = n THEN tokens ELSE node_tokens[m]]
  BY DEF AddNode
<1> DEFINE Old == {t \in DOMAIN ring : ring[t] # n}
           New == {tokens[i] : i \in 0 .. v - 1}
<1>3. DOMAIN Unplaced(n) = Old
  BY UnplacedOthers
<1>4. /\ \A i \in 0 .. v - 1 : tokens[i] \notin Old
      /\ \A i, j \in 0 .. v - 1 : tokens[i] = tokens[j] => i = j
  <2>1. \A i \in 0 .. v - 1 : Found(n, i, tokens[i], Old \cup {tokens[j] : j \in 0 .. i - 1})
    BY <1>2, <1>3
  <2>2. \A i \in 0 .. v - 1 : tokens[i] \notin Old /\ \A j \in 0 .. i - 1 : tokens[i] # tokens[j]
    BY <2>1 DEF Found
  <2>3. \A i, j \in 0 .. v - 1 : i < j => tokens[i] # tokens[j]
    BY <1>1, <2>2
  <2>4. QED BY <1>1, <2>2, <2>3
<1>5. /\ DOMAIN ring' = Old \cup New
      /\ \A t \in New : ring'[t] = n
      /\ \A t \in Old : ring'[t] = ring[t]
  BY <1>2, <1>3, <1>4
<1>6. /\ DOMAIN node_tokens' = DOMAIN node_tokens \cup {n}
      /\ node_tokens'[n] = tokens
      /\ \A m \in DOMAIN node_tokens : m # n => node_tokens'[m] = node_tokens[m]
  BY <1>2
<1>7. OthersStay(n)
  BY <1>5 DEF OthersStay
<1>8. DOMAIN ring' \subseteq Tokens
  BY <1>5 DEF IInv
<1>9. RingConsistent'
  <2>1. ASSUME NEW m \in DOMAIN node_tokens', NEW i \in DOMAIN node_tokens'[m]
        PROVE  /\ node_tokens'[m][i] \in DOMAIN ring' /\ ring'[node_tokens'[m][i]] = m
               /\ \A j \in DOMAIN node_tokens'[m] : node_tokens'[m][i] = node_tokens'[m][j] => i = j
    <3>1. CASE m = n
      BY <1>4, <1>5, <1>6, <2>1, <3>1
    <3>2. CASE m # n
      <4>1. m \in DOMAIN node_tokens /\ node_tokens'[m] = node_tokens[m]
        BY <1>6, <2>1, <3>2
      <4>2. /\ node_tokens[m][i] \in DOMAIN ring /\ ring[node_tokens[m][i]] = m
            /\ \A j \in DOMAIN node_tokens[m] : node_tokens[m][i] = node_tokens[m][j] => i = j
        BY <2>1, <4>1 DEF IInv, RingConsistent
      <4>3. QED BY <1>5, <3>2, <4>1, <4>2
    <3>3. QED BY <3>1, <3>2
  <2>2. ASSUME NEW t \in DOMAIN ring'
        PROVE  /\ ring'[t] \in DOMAIN node_tokens'
               /\ \E i \in DOMAIN node_tokens'[ring'[t]] : t = node_tokens'[ring'[t]][i]
    <3>1. CASE t \in New
      BY <1>5, <1>6, <3>1
    <3>2. CASE t \in Old
      <4>1. /\ ring[t] \in DOMAIN node_tokens /\ ring[t] # n
            /\ \E i \in DOMAIN node_tokens[ring[t]] : t = node_tokens[ring[t]][i]
        BY <3>2 DEF IInv, RingConsistent
      <4>2. QED BY <1>5, <1>6, <3>2, <4>1
    <3>3. QED BY <1>5, <2>2, <3>1, <3>2
  <2>3. QED BY <2>1, <2>2 DEF RingConsistent
<1>10. ASSUME TokensOf(n)' = TokensOf(n) PROVE Same
  <2>1. TokensOf(n)' = tokens /\ DOMAIN tokens = 0 .. v - 1
    BY <1>6 DEF TokensOf
  <2>2. n \in DOMAIN node_tokens /\ node_tokens[n] = tokens
    <3>1. SUFFICES ASSUME n \notin DOMAIN node_tokens PROVE FALSE
      BY <1>10, <2>1 DEF TokensOf
    <3>2. tokens = << >>
      BY <1>10, <2>1, <3>1 DEF TokensOf
    <3>3. QED BY <1>1, <2>1, <3>2
  <2>3. New = {t \in DOMAIN ring : ring[t] = n}
    BY <2>1, <2>2 DEF IInv, RingConsistent
  <2>4. QED BY <1>5, <2>3 DEF Same
<1>11. QED BY <1>7, <1>8, <1>9, <1>10 DEF IInv

\* What both calls keep, and that they move no key between two other nodes.
LEMMA Invariance == Spec => []IInv
<1>1. Init => IInv
  BY DEF Init, IInv, RingConsistent
<1>2. IInv /\ [Next]_vars => IInv'
  <2> SUFFICES ASSUME IInv, [Next]_vars PROVE IInv'
    OBVIOUS
  <2>1. ASSUME NEW n \in Nodes, RemoveNode(n) PROVE IInv'
    BY <2>1, RemoveKeeps
  <2>2. ASSUME NEW n \in Nodes, NEW v \in 0 .. MaxVnodes, AddNode(n, v) PROVE IInv'
    BY <2>2, AddKeeps
  <2>3. CASE UNCHANGED vars
    BY <2>3 DEF IInv, RingConsistent, vars
  <2>4. QED BY <2>1, <2>2, <2>3 DEF Next, AddNothing
<1>3. QED BY <1>1, <1>2, PTL DEF Spec

\* The owner of a key is at the first token.
LEMMA OwnerAtFirst ==
  ASSUME NEW key
  PROVE  RouteKeyToNode(key) = IF DOMAIN ring = {} THEN NoNode ELSE ring[First(DOMAIN ring, key)]
  BY DEF RouteKeyToNode, OwnerForKey, Successor, First, From

LEMMA OwnerAtFirstNext ==
  ASSUME NEW key
  PROVE  RouteKeyToNode(key)' = IF DOMAIN ring' = {} THEN NoNode ELSE ring'[First(DOMAIN ring', key)]
  BY DEF RouteKeyToNode, OwnerForKey, Successor, First, From

LEMMA OwnersStay ==
  ASSUME IInv, IInv', NEW n \in Nodes, OthersStay(n), NEW key \in Tokens,
         RouteKeyToNode(key) # n, RouteKeyToNode(key)' # n
  PROVE  RouteKeyToNode(key)' = RouteKeyToNode(key)
<1> DEFINE D == DOMAIN ring
           E == DOMAIN ring'
<1>1. D \subseteq Nat /\ E \subseteq Nat /\ key \in Nat
  BY RingAssumption DEF IInv
<1>2. RouteKeyToNode(key) = IF D = {} THEN NoNode ELSE ring[First(D, key)]
  BY OwnerAtFirst
<1>3. RouteKeyToNode(key)' = IF E = {} THEN NoNode ELSE ring'[First(E, key)]
  BY OwnerAtFirstNext
<1>4. D # {} => First(D, key) \in D /\ First(D, key) \in E
                /\ ring'[First(D, key)] = ring[First(D, key)]
  <2> SUFFICES ASSUME D # {} PROVE First(D, key) \in D
    BY <1>2 DEF OthersStay
  <2>1. First(D, key) \in From(D, key)
    BY <1>1, FirstExists
  <2>2. QED BY <2>1 DEF From
<1>5. E # {} => First(E, key) \in E /\ First(E, key) \in D
  <2> SUFFICES ASSUME E # {} PROVE First(E, key) \in E
    BY <1>3 DEF OthersStay
  <2>1. First(E, key) \in From(E, key)
    BY <1>1, FirstExists
  <2>2. QED BY <2>1 DEF From
<1>6. D # {} /\ E # {} => First(D, key) = First(E, key)
  BY <1>1, <1>4, <1>5, FirstShared
<1>7. QED BY <1>2, <1>3, <1>4, <1>5, <1>6

-----------------------------------------------------------------------------
\* The two maps of the ring agree.
THEOREM RingAlwaysConsistent == Spec => []RingConsistent
  BY Invariance, PTL DEF IInv

\* A key changes hands only from or to the node a call is about.
THEOREM KeysAlwaysStay == Spec => KeysStay
<1> DEFINE Stays(key) ==
      \/ RouteKeyToNode(key)' = RouteKeyToNode(key)
      \/ \E n \in Nodes : /\ n = RouteKeyToNode(key) \/ n = RouteKeyToNode(key)'
                          /\ TokensOf(n)' # TokensOf(n)
<1>1. IInv /\ IInv' /\ [Next]_vars => [\A key \in Tokens : Stays(key)]_vars
  <2> SUFFICES ASSUME IInv, IInv', Next, NEW key \in Tokens PROVE Stays(key)
    OBVIOUS
  <2>1. ASSUME NEW n \in Nodes, OthersStay(n), TokensOf(n)' # TokensOf(n) PROVE Stays(key)
    BY <2>1, OwnersStay
  <2>2. ASSUME Same PROVE Stays(key)
    <3>1. DOMAIN ring' = DOMAIN ring
      BY <2>2 DEF Same
    <3>2. CASE DOMAIN ring = {}
      BY <3>1, <3>2, OwnerAtFirst, OwnerAtFirstNext
    <3>3. CASE DOMAIN ring # {}
      <4>1. First(DOMAIN ring, key) \in From(DOMAIN ring, key)
        BY <3>3, FirstExists, RingAssumption DEF IInv
      <4>2. First(DOMAIN ring, key) \in DOMAIN ring
        BY <4>1 DEF From
      <4>3. QED BY <2>2, <3>1, <4>2, OwnerAtFirst, OwnerAtFirstNext DEF Same
    <3>4. QED BY <3>2, <3>3
  <2>3. ASSUME NEW n \in Nodes, RemoveNode(n) PROVE Stays(key)
    <3>1. OthersStay(n)
      BY <2>3, RemoveKeeps
    <3>2. CASE n \in DOMAIN node_tokens /\ DOMAIN node_tokens[n] # {}
      <4>1. TokensOf(n) = node_tokens[n] /\ TokensOf(n)' = << >>
        BY <2>3, <3>2 DEF RemoveNode, TokensOf
      <4>2. QED BY <2>1, <3>1, <3>2, <4>1
    <3>3. CASE ~(n \in DOMAIN node_tokens /\ DOMAIN node_tokens[n] # {})
      <4>1. \A t \in DOMAIN ring : ring[t] # n
        BY <3>3 DEF IInv, RingConsistent
      <4>2. \A t \in DOMAIN ring' : ring'[t] # n
        BY <2>3, <4>1, UnplacedOthers DEF RemoveNode
      <4>3. Same
        BY <3>1, <4>1, <4>2 DEF OthersStay, Same
      <4>4. QED BY <2>2, <4>3
    <3>4. QED BY <3>2, <3>3
  <2>4. ASSUME NEW n \in Nodes, NEW v \in 0 .. MaxVnodes, AddNode(n, v) PROVE Stays(key)
    BY <2>1, <2>2, <2>4, AddKeeps
  <2>5. CASE UNCHANGED vars
    BY <2>2, <2>5 DEF vars, Same
  <2>6. QED BY <2>3, <2>4, <2>5 DEF Next, AddNothing
<1>2. QED BY <1>1, Invariance, PTL DEF Spec, KeysStay

=============================================================================
