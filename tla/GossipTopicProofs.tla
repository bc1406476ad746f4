------------------------- MODULE GossipTopicProofs --------------------------
(***************************************************************************)
(* awaitNeighbor misses no wake-up, and the broadcast waits for the overlay: *)
(* for every capacity of seen and however often links flap.                  *)
(***************************************************************************)
EXTENDS GossipTopic, SequenceTheorems, TLAPS

AllLinks == {Links[i] : i \in 1..Len(Links)}

\* The link the j-th wait of run is about.
LinkOf(j) == {Waits[j][1], Waits[j][2]}

-----------------------------------------------------------------------------

\* How far the joins are: run is past both when it waits, and only then.
Joins ==
  /\ pc = "join" => step \in 1..2 /\ step = joined + 1
  /\ pc = "broadcast" => step = 1
  /\ pc = "receive" => step \in 1..2

\* While no link went down, a neighbour that a node has recorded or is yet to
\* hear of is linked to it.
HeardOfIsLinked ==
  \A n \in Node :
    /\ \A m \in up[n] : {n, m} \in linked
    /\ \A i \in 1..Len(events[n]) :
         events[n][i].kind = "NeighborUp" => {n, events[n][i].peer} \in linked

\* While no link went down, every wait that is over has its link.
WaitedIsLinked ==
  /\ pc \in {"await", "select"} => \A j \in 1..(step - 1) : LinkOf(j) \in linked
  /\ pc \in {"broadcast", "receive", "done"} \/ has # {} => linked = AllLinks

-----------------------------------------------------------------------------
(* The chain.                                                              *)

LEMMA Chain ==
  /\ Len(Links) = 2 /\ Len(Waits) = 4
  /\ Links[1] = {"A", "B"} /\ Links[2] = {"B", "C"}
  /\ AllLinks = {{"A", "B"}, {"B", "C"}}
  /\ \A j \in 1..4 : LinkOf(j) \in AllLinks /\ Waits[j][1] \in Node /\ Waits[j][2] \in Node
  /\ LinkOf(1) = {"A", "B"} /\ LinkOf(4) = {"B", "C"}
<1>1. Len(Links) = 2 /\ Links[1] = {"A", "B"} /\ Links[2] = {"B", "C"}
  BY DEF Links
<1>2. Len(Waits) = 4
  BY DEF Waits
<1>3. AllLinks = {{"A", "B"}, {"B", "C"}}
  <2>1. AllLinks = {Links[i] : i \in {1, 2}}
    BY <1>1 DEF AllLinks
  <2> QED
    BY <2>1, <1>1
<1>4. /\ Waits[1] = <<"A", "B">> /\ Waits[2] = <<"B", "A">>
      /\ Waits[3] = <<"B", "C">> /\ Waits[4] = <<"C", "B">>
  BY DEF Waits
<1>5. /\ LinkOf(1) = {"A", "B"} /\ LinkOf(2) = {"A", "B"}
      /\ LinkOf(3) = {"B", "C"} /\ LinkOf(4) = {"B", "C"}
  BY <1>4 DEF LinkOf
<1>6. \A j \in 1..4 : j = 1 \/ j = 2 \/ j = 3 \/ j = 4
  OBVIOUS
<1>7. \A j \in 1..4 : LinkOf(j) \in AllLinks
  BY <1>3, <1>5, <1>6
<1>8. \A j \in 1..4 : Waits[j][1] \in Node /\ Waits[j][2] \in Node
  BY <1>4, <1>6 DEF Node
<1> QED
  BY <1>1, <1>2, <1>3, <1>5, <1>7, <1>8

\* What Tell puts in the stream of an end of l names the other end.
LEMMA OtherEnd ==
  ASSUME NEW l \in AllLinks, NEW n \in l
  PROVE  LET m == CHOOSE m \in l : m # n
         IN  n \in Node /\ m \in Node /\ l = {n, m}
<1> DEFINE m == CHOOSE m \in l : m # n
<1>1. l = {"A", "B"} \/ l = {"B", "C"}
  BY Chain
<1>2. \E x \in l : x # n
  BY <1>1
<1>3. m \in l /\ m # n
  BY <1>2
<1> HIDE DEF m
<1> QED
  BY <1>1, <1>3 DEF Node

-----------------------------------------------------------------------------
(* Types.                                                                  *)

LEMMA Sizes == Len(Links) = 2 /\ Len(Waits) = 4
BY Chain

\* What only run and its context change.
Control ==
  /\ pc \in {"join", "await", "select", "broadcast", "receive", "done", "failed"}
  /\ step \in 1..4 /\ held \in Nat /\ joined \in 0..2
  /\ Joins

\* What consume and the overlay change.
Records ==
  /\ up \in [Node -> SUBSET Node]
  /\ changed \in [Node -> Nat]
  /\ seen \in [Node -> 0..SeenCap] /\ draining \subseteq Node
  /\ events \in [Node -> Seq(Event)]
  /\ linked \subseteq AllLinks
  /\ downs \in 0..MaxDown /\ has \subseteq Node

Inv ==
  /\ world \in World /\ expired \in BOOLEAN
  /\ Control /\ Records
  /\ NoLostWakeup
  /\ downs = 0 => HeardOfIsLinked /\ WaitedIsLinked

LEMMA HereAndWant ==
  ASSUME step \in 1..4
  PROVE  Here \in Node /\ Want \in Node /\ LinkOf(step) = {Here, Want} /\ LinkOf(step) \in AllLinks
BY Chain DEF Here, Want, LinkOf

\* Tell adds one event at each end of a link and nothing elsewhere.
LEMMA TellBothEnds ==
  ASSUME events \in [Node -> Seq(Event)], NEW l \in AllLinks,
         NEW kind \in {"NeighborUp", "NeighborDown"}, Tell(l, kind)
  PROVE  /\ events' \in [Node -> Seq(Event)]
         /\ \A n \in Node : \/ events'[n] = events[n]
                            \/ \E m \in Node : /\ l = {n, m}
                                              /\ events'[n] = Append(events[n], [kind |-> kind, peer |-> m])
<1> DEFINE end(n) == CHOOSE m \in l : m # n
<1>1. \A n \in l : n \in Node /\ end(n) \in Node /\ l = {n, end(n)}
  BY OtherEnd
<1>2. events' = [n \in Node |-> IF n \in l THEN Append(events[n], [kind |-> kind, peer |-> end(n)])
                                          ELSE events[n]]
  BY DEF Tell
<1> HIDE DEF end
<1>3. \A n \in l : [kind |-> kind, peer |-> end(n)] \in Event
  BY <1>1 DEF Event
<1>4. \A n \in l : Append(events[n], [kind |-> kind, peer |-> end(n)]) \in Seq(Event)
  BY <1>1, <1>3
<1> QED
  BY <1>1, <1>2, <1>4

LEMMA ControlStep ==
  ASSUME Control, Records, Run \/ Expire
  PROVE  Control' /\ Records'
<1> USE Sizes DEF Control, Records, Joins
<1>1. CASE JoinPeers
  BY <1>1 DEF JoinPeers, node
<1>2. CASE awaitNeighbor
  <2>1. held' \in Nat
    BY <1>2, HereAndWant DEF awaitNeighbor
  <2> QED
    BY <1>2, <2>1 DEF awaitNeighbor, waitOver, node, overlay
<1>3. CASE awaitChanged \/ awaitExpires \/ callExpires \/ Expire
  BY <1>3 DEF awaitChanged, awaitExpires, callExpires, Expire, node, overlay
<1>4. CASE Broadcast
  BY <1>4 DEF Broadcast, node, Node
<1>5. CASE awaitMessage
  BY <1>5, ConstantsAssumption DEF awaitMessage, overlay, Node
<1> QED
  BY <1>1, <1>2, <1>3, <1>4, <1>5 DEF Run

LEMMA OverlayStep ==
  ASSUME Control, Records,
         LinkUp \/ LinkDown \/ Relay \/ (\E n \in Node : consume(n)) \/ \E n \in Node : consumeFails(n)
  PROVE  Control' /\ Records'
<1>1. Control'
  BY DEF Control, Joins, LinkUp, LinkDown, Relay, consume, consumeFails, overlay
<1> USE DEF Records
<1>2. CASE LinkUp
  <2>1. PICK i \in 1..2 : linked' = linked \cup {Links[i]} /\ Tell(Links[i], "NeighborUp")
    BY <1>2 DEF LinkUp, Control
  <2>2. Links[i] \in AllLinks
    <3>1. i = 1 \/ i = 2
      OBVIOUS
    <3> QED
      BY <3>1, Chain
  <2>3. events' \in [Node -> Seq(Event)]
    BY <2>1, <2>2, TellBothEnds
  <2> QED
    BY <1>1, <1>2, <2>1, <2>2, <2>3 DEF LinkUp, node
<1>3. CASE LinkDown
  <2>1. PICK l \in linked : Tell(l, "NeighborDown")
    BY <1>3 DEF LinkDown
  <2>2. events' \in [Node -> Seq(Event)]
    BY <2>1, TellBothEnds
  <2>3. downs' \in 0..MaxDown /\ linked' \subseteq linked
    BY <1>3, ConstantsAssumption DEF LinkDown
  <2> QED
    BY <1>1, <1>3, <2>2, <2>3 DEF LinkDown, node
<1>4. CASE Relay
  <2>1. PICK l \in linked : \E m \in l \cap has : \E n \in l \ has :
            /\ has' = has \cup {n}
            /\ events' = [events EXCEPT ![n] = Append(@, [kind |-> "Received", peer |-> m])]
    BY <1>4 DEF Relay
  <2>2. PICK m \in Node, n \in Node :
            /\ has' = has \cup {n}
            /\ events' = [events EXCEPT ![n] = Append(@, [kind |-> "Received", peer |-> m])]
    BY <2>1, OtherEnd
  <2>3. [kind |-> "Received", peer |-> m] \in Event
    BY <2>2 DEF Event
  <2>4. events' \in [Node -> Seq(Event)]
    BY <2>2, <2>3
  <2> QED
    BY <1>1, <1>4, <2>2, <2>4 DEF Relay, node
<1>5. CASE \E n \in Node : consume(n)
  <2>1. PICK n \in Node : consume(n)
    BY <1>5
  <2>2. events' \in [Node -> Seq(Event)] /\ Head(events[n]) \in Event
    BY <2>1 DEF consume
  <2>3. Head(events[n]).peer \in Node
    BY <2>2 DEF Event
  <2>4. /\ up' \in [Node -> SUBSET Node] /\ changed' \in [Node -> Nat]
        /\ seen' \in [Node -> 0..SeenCap]
    <3>1. CASE Head(events[n]).kind = "Received"
      <4>1. /\ seen' = [seen EXCEPT ![n] = IF @ < SeenCap THEN @ + 1 ELSE @]
            /\ up' = up /\ changed' = changed
        BY <2>1, <3>1 DEF consume
      <4> QED
        BY <4>1, ConstantsAssumption
    <3>2. CASE Head(events[n]).kind # "Received"
      <4>1. setNeighbor(n, Head(events[n]).peer, Head(events[n]).kind = "NeighborUp") /\ seen' = seen
        BY <2>1, <3>2 DEF consume
      <4> QED
        BY <2>3, <4>1 DEF setNeighbor
    <3> QED
      BY <3>1, <3>2
  <2> QED
    BY <1>1, <2>1, <2>2, <2>4 DEF consume
<1>6. CASE \E n \in Node : consumeFails(n)
  BY <1>1, <1>6 DEF consumeFails, overlay
<1> QED
  BY <1>1, <1>2, <1>3, <1>4, <1>5, <1>6

-----------------------------------------------------------------------------
(* Wake-ups.  A change of up[n] after awaitNeighbor looked closes the        *)
(* channel it took with the same look.                                      *)

LEMMA WakeUpsAreKept ==
  ASSUME Control, Records, NoLostWakeup, [Next]_vars
  PROVE  NoLostWakeup'
<1> USE HereAndWant DEF Control, Records, NoLostWakeup
<1>1. CASE awaitNeighbor
  BY <1>1 DEF awaitNeighbor, waitOver, node, Here, Want
<1>2. CASE \E n \in Node : consume(n)
  <2>1. PICK n \in Node : consume(n)
    BY <1>2
  <2>2. pc' = pc /\ held' = held /\ Here' = Here /\ Want' = Want
    BY <2>1 DEF consume, Here, Want
  <2>3. CASE UNCHANGED <<up, changed>>
    BY <2>2, <2>3
  <2>4. CASE ~UNCHANGED <<up, changed>>
    <3>1. PICK m, isUp : setNeighbor(n, m, isUp)
      BY <2>1, <2>4 DEF consume, node
    <3>2. /\ changed'[n] = changed[n] + 1
          /\ \A k \in Node \ {n} : changed'[k] = changed[k] /\ up'[k] = up[k]
      BY <3>1 DEF setNeighbor
    <3>3. pc = "select" => held < changed'[Here] \/ (changed'[Here] = changed[Here] /\ up'[Here] = up[Here])
      <4>1. CASE Here = n
        BY <3>2, <4>1
      <4>2. CASE Here # n
        BY <3>2, <4>2
      <4> QED
        BY <4>1, <4>2
    <3>4. \A k \in Node : changed'[k] \in Nat
      BY <3>1 DEF setNeighbor
    <3> QED
      BY <2>2, <3>3, <3>4
  <2> QED
    BY <2>3, <2>4
<1>3. CASE JoinPeers \/ awaitChanged \/ awaitExpires \/ Broadcast \/ awaitMessage \/ callExpires
  BY <1>3 DEF JoinPeers, awaitChanged, awaitExpires, Broadcast, awaitMessage, callExpires
<1>4. CASE Expire \/ LinkUp \/ LinkDown \/ Relay \/ (\E n \in Node : consumeFails(n)) \/ UNCHANGED vars
  BY <1>4 DEF Expire, LinkUp, LinkDown, Relay, consumeFails, vars, node, Here, Want
<1> QED
  BY <1>1, <1>2, <1>3, <1>4 DEF Next, Run

-----------------------------------------------------------------------------
(* The overlay before the broadcast.                                       *)

\* What nodes have heard of stays linked.
LEMMA HeardOfIsKept ==
  ASSUME Control, Records, HeardOfIsLinked, downs' = 0, [Next]_vars
  PROVE  HeardOfIsLinked'
<1> USE DEF Records, HeardOfIsLinked
<1>1. CASE LinkUp
  <2>1. PICK i \in 1..2 : /\ linked' = linked \cup {Links[i]} /\ Tell(Links[i], "NeighborUp")
                         /\ UNCHANGED up
    BY <1>1 DEF LinkUp, Control, node
  <2>2. Links[i] \in AllLinks
    <3>1. i = 1 \/ i = 2
      OBVIOUS
    <3> QED
      BY <3>1, Chain
  <2> SUFFICES ASSUME NEW n \in Node, NEW j \in 1..Len(events'[n]), events'[n][j].kind = "NeighborUp"
               PROVE  {n, events'[n][j].peer} \in linked'
    BY <2>1
  <2>3. CASE events'[n] = events[n]
    BY <2>1, <2>3
  <2>4. CASE \E m \in Node : /\ Links[i] = {n, m}
                            /\ events'[n] = Append(events[n], [kind |-> "NeighborUp", peer |-> m])
    <3>1. PICK m \in Node : /\ Links[i] = {n, m}
                            /\ events'[n] = Append(events[n], [kind |-> "NeighborUp", peer |-> m])
      BY <2>4
    <3>2. events[n] \in Seq(Event)
      OBVIOUS
    <3>3. \/ j \in 1..Len(events[n]) /\ events'[n][j] = events[n][j]
          \/ events'[n][j] = [kind |-> "NeighborUp", peer |-> m]
      BY <3>1, <3>2
    <3>4. CASE j \in 1..Len(events[n]) /\ events'[n][j] = events[n][j]
      BY <2>1, <3>4
    <3>5. CASE events'[n][j] = [kind |-> "NeighborUp", peer |-> m]
      BY <2>1, <3>1, <3>5
    <3> QED
      BY <3>3, <3>4, <3>5
  <2>5. \/ events'[n] = events[n]
        \/ \E m \in Node : /\ Links[i] = {n, m}
                          /\ events'[n] = Append(events[n], [kind |-> "NeighborUp", peer |-> m])
    BY <2>1, <2>2, TellBothEnds
  <2> QED
    BY <2>3, <2>4, <2>5
<1>2. CASE Relay
  <2>1. PICK l \in linked : \E m \in l \cap has : \E n \in l \ has :
            /\ has' = has \cup {n}
            /\ events' = [events EXCEPT ![n] = Append(@, [kind |-> "Received", peer |-> m])]
    BY <1>2 DEF Relay
  <2>2. PICK m \in Node, n \in Node :
            events' = [events EXCEPT ![n] = Append(@, [kind |-> "Received", peer |-> m])]
    BY <2>1, OtherEnd
  <2>3. UNCHANGED <<up, linked>>
    BY <1>2 DEF Relay, node
  <2> SUFFICES ASSUME NEW k \in Node, NEW j \in 1..Len(events'[k]), events'[k][j].kind = "NeighborUp"
               PROVE  {k, events'[k][j].peer} \in linked
    BY <2>3
  <2> DEFINE new == [kind |-> "Received", peer |-> m]
  <2>4. new \in Event /\ new.kind # "NeighborUp"
    BY DEF Event
  <2>5. events'[k] = events[k] \/ events'[k] = Append(events[k], new)
    BY <2>2
  <2> HIDE DEF new
  <2>6. CASE events'[k] = Append(events[k], new)
    <3>1. events[k] \in Seq(Event) /\ Len(events'[k]) = Len(events[k]) + 1
      BY <2>6
    <3>2. j \in 1..Len(events[k]) \/ events'[k][j] = new
      BY <2>6, <3>1
    <3>3. j \in 1..Len(events[k]) /\ events'[k][j] = events[k][j]
      BY <2>4, <2>6, <3>1, <3>2
    <3> QED
      BY <3>3
  <2> QED
    BY <2>5, <2>6
<1>3. CASE \E n \in Node : consume(n)
  <2>1. PICK n \in Node : consume(n)
    BY <1>3
  <2>2. events[n] # <<>> /\ events' = [events EXCEPT ![n] = Tail(@)] /\ linked' = linked
    BY <2>1 DEF consume
  <2>3. ASSUME NEW k \in Node, NEW j \in 1..Len(events'[k]), events'[k][j].kind = "NeighborUp"
        PROVE  {k, events'[k][j].peer} \in linked
    <3>1. CASE k = n
      <4>1. events'[k] = Tail(events[k]) /\ events[k] # <<>> /\ events[k] \in Seq(Event)
        BY <2>2, <3>1
      <4>2. j + 1 \in 1..Len(events[k]) /\ events'[k][j] = events[k][j + 1]
        BY <4>1
      <4> QED
        BY <2>3, <4>2
    <3>2. CASE k # n
      BY <2>2, <2>3, <3>2
    <3> QED
      BY <3>1, <3>2
  <2>4. ASSUME NEW k \in Node, NEW m \in up'[k]
        PROVE  {k, m} \in linked
    <3> DEFINE ev == Head(events[n])
    <3>1. ev = events[n][1] /\ 1 \in 1..Len(events[n])
      BY <2>2
    <3>2. ev.kind = "NeighborUp" => {n, ev.peer} \in linked
      BY <3>1
    <3>3. m \in up[k] \/ (k = n /\ m = ev.peer /\ ev.kind = "NeighborUp")
      BY <2>1, <2>4 DEF consume, setNeighbor, node
    <3> QED
      BY <3>2, <3>3
  <2> QED
    BY <2>2, <2>3, <2>4
<1>4. CASE Run \/ Expire \/ (\E n \in Node : consumeFails(n)) \/ UNCHANGED vars
  BY <1>4 DEF Run, Expire, consumeFails, JoinPeers, awaitNeighbor, awaitChanged, awaitExpires, Broadcast, awaitMessage,
              callExpires, vars, node, overlay
<1>5. ~LinkDown
  BY ConstantsAssumption DEF LinkDown
<1> QED
  BY <1>1, <1>2, <1>3, <1>4, <1>5 DEF Next

\* A wait that ends has its neighbour recorded, so linked.
LEMMA WaitedIsKept ==
  ASSUME Control, Records, HeardOfIsLinked, WaitedIsLinked, downs' = 0, [Next]_vars
  PROVE  WaitedIsLinked'
<1> USE DEF WaitedIsLinked
<1>1. linked \subseteq AllLinks
  BY DEF Records
<1>2. CASE JoinPeers
  BY <1>2 DEF JoinPeers, Control, Joins
<1>3. CASE awaitNeighbor
  <2>1. UNCHANGED <<linked, has>> /\ pc = "await"
    BY <1>3 DEF awaitNeighbor, overlay
  <2>2. CASE Want \in up[Here]
    <3>1. LinkOf(step) \in linked
      BY <2>2, HereAndWant DEF HeardOfIsLinked, Control
    <3>2. \A j \in 1..step : LinkOf(j) \in linked
      BY <2>1, <3>1 DEF Control
    <3>3. CASE step = 4
      <4>1. LinkOf(1) \in linked /\ LinkOf(4) \in linked
        BY <3>2, <3>3
      <4>2. AllLinks = {LinkOf(1), LinkOf(4)}
        BY Chain
      <4>3. linked = AllLinks
        BY <1>1, <4>1, <4>2
      <4> QED
        BY <1>3, <2>1, <2>2, <3>3, <4>3, Sizes DEF awaitNeighbor, waitOver
    <3>4. CASE step # 4
      BY <1>3, <2>1, <2>2, <3>2, <3>4, Sizes DEF awaitNeighbor, waitOver, Control
    <3> QED
      BY <3>3, <3>4
  <2>3. CASE Want \notin up[Here]
    BY <1>3, <2>1, <2>3 DEF awaitNeighbor
  <2> QED
    BY <2>2, <2>3
<1>4. CASE awaitChanged \/ awaitExpires \/ callExpires \/ Expire
  BY <1>4 DEF awaitChanged, awaitExpires, callExpires, Expire, overlay
<1>5. CASE Broadcast \/ awaitMessage
  BY <1>5 DEF Broadcast, awaitMessage, overlay
<1>6. CASE LinkUp
  <2>1. /\ linked \subseteq linked' /\ linked' \subseteq AllLinks
        /\ UNCHANGED <<pc, step, has>>
    BY <1>6, OverlayStep DEF LinkUp, Records
  <2> QED
    BY <1>1, <2>1
<1>7. CASE Relay
  BY <1>1, <1>7 DEF Relay
<1>8. CASE (\E n \in Node : consume(n) \/ consumeFails(n)) \/ UNCHANGED vars
  BY <1>8 DEF consume, consumeFails, overlay, vars
<1>9. ~LinkDown
  BY ConstantsAssumption DEF LinkDown, Records
<1> QED
  BY <1>2, <1>3, <1>4, <1>5, <1>6, <1>7, <1>8, <1>9 DEF Next, Run

-----------------------------------------------------------------------------

LEMMA InvIsInvariant == Spec => []Inv
<1>1. Init => Inv
  <2> SUFFICES ASSUME Init PROVE Inv
    OBVIOUS
  <2>1. Control
    BY DEF Init, Control, Joins
  <2>2. Records
    BY ConstantsAssumption DEF Init, Records
  <2>3. NoLostWakeup /\ HeardOfIsLinked /\ WaitedIsLinked
    BY DEF Init, NoLostWakeup, HeardOfIsLinked, WaitedIsLinked
  <2>4. world \in World /\ expired \in BOOLEAN
    BY DEF Init
  <2> QED
    BY <2>1, <2>2, <2>3, <2>4 DEF Inv
<1>2. Inv /\ [Next]_vars => Inv'
  <2> SUFFICES ASSUME Inv, [Next]_vars PROVE Inv'
    OBVIOUS
  <2>1. Control' /\ Records'
    <3>1. CASE UNCHANGED vars
      BY <3>1 DEF Inv, Control, Records, Joins, vars
    <3> QED
      BY <3>1, ControlStep, OverlayStep DEF Inv, Next
  <2>2. NoLostWakeup'
    BY WakeUpsAreKept DEF Inv
  <2>3. downs' = 0 => downs = 0
    <3>1. LinkDown => downs' > 0
      BY DEF Inv, Records, LinkDown
    <3>2. LinkDown \/ downs' = downs
      BY DEF Next, Run, JoinPeers, awaitNeighbor, awaitChanged, awaitExpires, Broadcast,
             awaitMessage, callExpires, Expire, LinkUp, Relay, consume, consumeFails, overlay, vars
    <3> QED
      BY <3>1, <3>2
  <2>4. downs' = 0 => HeardOfIsLinked' /\ WaitedIsLinked'
    BY <2>3, HeardOfIsKept, WaitedIsKept DEF Inv
  <2>5. world' \in World
    BY DEF Inv, Next, Run, JoinPeers, awaitNeighbor, awaitChanged, awaitExpires, Broadcast,
           awaitMessage, callExpires, Expire, LinkUp, LinkDown, Relay, consume, consumeFails, vars
  <2>6. expired' \in BOOLEAN
    BY DEF Inv, Next, Run, JoinPeers, awaitNeighbor, awaitChanged, awaitExpires, Broadcast,
           awaitMessage, callExpires, Expire, LinkUp, LinkDown, Relay, consume, consumeFails, vars
  <2> QED
    BY <2>1, <2>2, <2>4, <2>5, <2>6 DEF Inv
<1> QED
  BY <1>1, <1>2, PTL DEF Spec

\* Every variable stays in its range: seen never holds more than its capacity,
\* and run never counts past its joins, its waits or its receivers.
THEOREM TypeCorrect == Spec => []TypeOK
<1>1. Inv => TypeOK
  BY Sizes DEF Inv, Control, Records, TypeOK, AllLinks
<1> QED
  BY <1>1, InvIsInvariant, PTL

\* awaitNeighbor takes the changed channel in the same critical section in
\* which it reads up, and setNeighbor closes it in the one in which it writes:
\* no waiter is left with a channel that the next change does not close.
THEOREM WakeUpsAreNotLost == Spec => []NoLostWakeup
BY InvIsInvariant, PTL DEF Inv

\* The four waits of run are enough: unless a link goes down, both links exist
\* by the time A broadcasts.
THEOREM OverlayComesFirst == Spec => []OverlayBeforeBroadcast
<1>1. Inv => OverlayBeforeBroadcast
  BY DEF Inv, WaitedIsLinked, OverlayBeforeBroadcast, AllLinks
<1> QED
  BY <1>1, InvIsInvariant, PTL
=============================================================================
