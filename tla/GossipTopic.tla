---------------------------- MODULE GossipTopic -----------------------------
(***************************************************************************)
(* cmd/go-iroh-gossip-topic: three nodes in a chain A - B - C.  Each node  *)
(* drains its topic's events in a goroutine that records neighbours and    *)
(* messages; run joins the nodes, waits for the four ends of the two       *)
(* links, broadcasts once from A and waits for B and C to receive it.      *)
(*                                                                         *)
(* The overlay is external: links between joined nodes come up, may go     *)
(* down and come up again, both ends hear of it in their event streams,    *)
(* and a message is relayed along links that are up.                       *)
(***************************************************************************)
EXTENDS Integers, Sequences

CONSTANTS
  SeenCap,   \* capacity of node.seen
  MaxDown    \* bound on how often links go down

Node == {"A", "B", "C"}
Links == <<{"A", "B"}, {"B", "C"}>>

\* The waits of run, in order: <<node, neighbour>>.
Waits == <<<<"A", "B">>, <<"B", "A">>, <<"B", "C">>, <<"C", "B">>>>

ASSUME ConstantsAssumption ==
  SeenCap \in Nat \ {0} /\ MaxDown \in Nat

Event == [kind : {"NeighborUp", "NeighborDown", "Received"}, peer : Node]

\* "steady": links come up and stay.  "flapping": they may go down, and come up
\* again.  "adverse": they owe nothing, an event stream may end with an error,
\* and run's 30 seconds may pass.
World == {"steady", "flapping", "adverse"}

VARIABLES
  world,    \* the overlay's behaviour, one of World, chosen at the start
  pc,       \* run: "join", "await", "select", "broadcast", "receive", "done" or "failed"
  step,     \* run: which join, wait or receiver it is at
  held,     \* run: the changed channel awaitNeighbor holds, by its number
  expired,  \* run's context is done
  up,       \* up[n]: node.up
  changed,  \* changed[n]: the number of n's current changed channel; smaller ones are closed
  seen,     \* seen[n]: messages in node.seen
  draining, \* the nodes whose consume has not returned
  events,   \* events[n]: what topic.Events still has to yield to n
  joined,   \* how many of Links were joined
  linked,   \* the links that are up
  downs,    \* how often a link went down
  has       \* the nodes the message has reached

vars == <<world, pc, step, held, expired, up, changed, seen, draining, events, joined, linked, downs, has>>
overlay == <<events, joined, linked, downs, has>>
node == <<up, changed, seen, draining>>

Init ==
  /\ world \in World
  /\ pc = "join" /\ step = 1 /\ held = 0 /\ expired = FALSE
  /\ up = [n \in Node |-> {}]
  /\ changed = [n \in Node |-> 0]
  /\ seen = [n \in Node |-> 0]
  /\ draining = Node
  /\ events = [n \in Node |-> <<>>]
  /\ joined = 0 /\ linked = {} /\ downs = 0 /\ has = {}

-----------------------------------------------------------------------------
(* run.                                                                    *)

\* JoinPeers: B is seeded with A, then C with B; after both, the first wait.
JoinPeers ==
  /\ pc = "join"
  /\ joined' = joined + 1
  /\ IF step = 2 THEN pc' = "await" /\ step' = 1 ELSE step' = step + 1 /\ UNCHANGED pc
  /\ UNCHANGED <<world, held, expired, node, events, linked, downs, has>>

\* The wait at hand.
Here == Waits[step][1]
Want == Waits[step][2]

\* A run that waits for two of the four ends only.
waitOverEarly ==
  /\ step' = IF step = 2 THEN 1 ELSE step + 1
  /\ pc' = IF step = 2 THEN "broadcast" ELSE "await"

\* run, after a wait succeeded.
waitOver ==
  /\ step' = IF step = Len(Waits) THEN 1 ELSE step + 1
  /\ pc' = IF step = Len(Waits) THEN "broadcast" ELSE "await"

\* awaitNeighbor, under the mutex: read up and changed together.
awaitNeighbor ==
  /\ pc = "await"
  /\ IF Want \in up[Here]
       THEN waitOver /\ UNCHANGED held
       ELSE pc' = "select" /\ held' = changed[Here] /\ UNCHANGED step
  /\ UNCHANGED <<world, expired, node, overlay>>

\* An awaitNeighbor that gives up when the change is not the one it wants.
awaitFirstChange ==
  /\ pc = "select"
  /\ held < changed[Here]
  /\ pc' = IF Want \in up[Here] THEN "await" ELSE "failed"
  /\ UNCHANGED <<world, step, held, expired, node, overlay>>

\* awaitNeighbor: the channel it holds was closed, look again.
awaitChanged ==
  /\ pc = "select"
  /\ held < changed[Here]
  /\ pc' = "await"
  /\ UNCHANGED <<world, step, held, expired, node, overlay>>

\* awaitNeighbor or awaitMessage: the context is done.
awaitExpires ==
  /\ expired
  /\ pc \in {"select", "receive"}
  /\ pc' = "failed"
  /\ UNCHANGED <<world, step, held, expired, node, overlay>>

\* topic.Broadcast on A: the overlay has the message.
Broadcast ==
  /\ pc = "broadcast"
  /\ has' = {"A"}
  /\ pc' = "receive"
  /\ UNCHANGED <<world, step, held, expired, node, events, joined, linked, downs>>

\* awaitMessage on B, then on C.
awaitMessage ==
  LET n == IF step = 1 THEN "B" ELSE "C" IN
  /\ pc = "receive"
  /\ seen[n] > 0
  /\ seen' = [seen EXCEPT ![n] = @ - 1]
  /\ IF step = 2 THEN pc' = "done" /\ UNCHANGED step ELSE step' = 2 /\ UNCHANGED pc
  /\ UNCHANGED <<world, held, expired, up, changed, draining, overlay>>

\* JoinPeers or Broadcast returns the context's error.
callExpires ==
  /\ expired
  /\ pc \in {"join", "broadcast"}
  /\ pc' = "failed"
  /\ UNCHANGED <<world, step, held, expired, node, overlay>>

Expire ==
  /\ world = "adverse" /\ ~expired
  /\ expired' = TRUE
  /\ UNCHANGED <<world, pc, step, held, node, overlay>>

-----------------------------------------------------------------------------
(* node.consume.                                                           *)

\* A setNeighbor that wakes waiters only when a neighbour comes up for the
\* first time.
setNeighborQuiet(n, m, isUp) ==
  /\ up' = [up EXCEPT ![n] = IF isUp THEN @ \cup {m} ELSE @ \ {m}]
  /\ changed' = [changed EXCEPT ![n] = IF isUp /\ @ = 0 THEN @ + 1 ELSE @]

\* setNeighbor: record, close changed, replace it.
setNeighbor(n, m, isUp) ==
  /\ up' = [up EXCEPT ![n] = IF isUp THEN @ \cup {m} ELSE @ \ {m}]
  /\ changed' = [changed EXCEPT ![n] = @ + 1]

\* A consume without a case for messages.
consumeMembershipOnly(n) ==
  /\ n \in draining /\ events[n] # <<>>
  /\ events' = [events EXCEPT ![n] = Tail(@)]
  /\ LET ev == Head(events[n]) IN
     IF ev.kind = "Received"
       THEN UNCHANGED <<up, changed, seen>>
       ELSE setNeighbor(n, ev.peer, ev.kind = "NeighborUp") /\ UNCHANGED seen
  /\ UNCHANGED <<world, draining, pc, step, held, expired, joined, linked, downs, has>>

\* consume: the next event of the topic; a message that finds seen full is
\* dropped rather than waited with.
consume(n) ==
  /\ n \in draining /\ events[n] # <<>>
  /\ events' = [events EXCEPT ![n] = Tail(@)]
  /\ LET ev == Head(events[n]) IN
     IF ev.kind = "Received"
       THEN /\ seen' = [seen EXCEPT ![n] = IF @ < SeenCap THEN @ + 1 ELSE @]
            /\ UNCHANGED <<up, changed>>
       ELSE /\ setNeighbor(n, ev.peer, ev.kind = "NeighborUp")
            /\ UNCHANGED seen
  /\ UNCHANGED <<world, draining, pc, step, held, expired, joined, linked, downs, has>>

\* consume: an error in place of an event ends it, and nothing says so: what n
\* has recorded stays as it is, and a wait on it ends with run's deadline.
consumeFails(n) ==
  /\ world = "adverse" /\ n \in draining
  /\ draining' = draining \ {n}
  /\ UNCHANGED <<world, pc, step, held, expired, up, changed, seen, overlay>>

-----------------------------------------------------------------------------
(* The overlay.                                                            *)

\* Both ends of link l get an event of this kind.
Tell(l, kind) ==
  events' = [n \in Node |->
    IF n \in l THEN Append(events[n], [kind |-> kind, peer |-> CHOOSE m \in l : m # n])
               ELSE events[n]]

LinkUp ==
  \E i \in 1..joined :
    /\ Links[i] \notin linked
    /\ linked' = linked \cup {Links[i]}
    /\ Tell(Links[i], "NeighborUp")
    /\ UNCHANGED <<world, pc, step, held, expired, node, joined, downs, has>>

LinkDown ==
  \E l \in linked :
    /\ world # "steady" /\ downs < MaxDown
    /\ downs' = downs + 1
    /\ linked' = linked \ {l}
    /\ Tell(l, "NeighborDown")
    /\ UNCHANGED <<world, pc, step, held, expired, node, joined, has>>

\* A node that has the message passes it on; it is delivered once per node.
Relay ==
  \E l \in linked : \E m \in l \cap has : \E n \in l \ has :
    /\ has' = has \cup {n}
    /\ events' = [events EXCEPT ![n] = Append(@, [kind |-> "Received", peer |-> m])]
    /\ UNCHANGED <<world, pc, step, held, expired, node, joined, linked, downs>>

Run ==
  \/ JoinPeers \/ awaitNeighbor \/ awaitChanged \/ awaitExpires
  \/ Broadcast \/ awaitMessage \/ callExpires

Next ==
  \/ Run \/ Expire \/ LinkUp \/ LinkDown \/ Relay
  \/ \E n \in Node : consume(n)
  \/ \E n \in Node : consumeFails(n)

Spec == Init /\ [][Next]_vars

\* The goroutines run and the clock ticks; joined nodes link and relay, unless
\* the overlay is adverse.
FairSpec ==
  /\ Spec
  /\ WF_vars(Run) /\ WF_vars(Expire)
  /\ \A n \in Node : WF_vars(consume(n))
  /\ WF_vars(world # "adverse" /\ LinkUp)
  /\ WF_vars(world # "adverse" /\ Relay)

-----------------------------------------------------------------------------

TypeOK ==
  /\ world \in World
  /\ pc \in {"join", "await", "select", "broadcast", "receive", "done", "failed"}
  /\ step \in 1..Len(Waits) /\ held \in Nat /\ expired \in BOOLEAN
  /\ up \in [Node -> SUBSET Node]
  /\ changed \in [Node -> Nat]
  /\ seen \in [Node -> 0..SeenCap] /\ draining \subseteq Node
  /\ \A n \in Node : events[n] \in Seq(Event)
  /\ joined \in 0..Len(Links) /\ linked \subseteq {Links[i] : i \in 1..Len(Links)}
  /\ downs \in 0..MaxDown /\ has \subseteq Node

\* awaitNeighbor never waits on a channel that the next change would not close:
\* the one it selects on is still the current one, or it is closed.  And if it is
\* the current one then the neighbour is not up: a wake-up cannot be missed.
NoLostWakeup ==
  pc = "select" =>
    /\ held <= changed[Here]
    /\ Want \in up[Here] => held < changed[Here]

\* The broadcast does not race the overlay into existence: while no link goes
\* down, A broadcasts only when both links exist.
OverlayBeforeBroadcast ==
  downs = 0 /\ has # {} => linked = {Links[i] : i \in 1..Len(Links)}

\* Links that flap while run waits for them only delay it: once they stay up
\* every wait returns.  Where links owe nothing, or a consume has returned so that
\* nobody closes changed any more, the deadline ends the wait.
WaitsReturn == <>(pc \in {"broadcast", "receive", "done"} \/ (world = "adverse" /\ pc = "failed"))

\* With steady links the one broadcast reaches B and C, and run ends.
BothReceive == <>(pc = "done" \/ world # "steady")
=============================================================================
