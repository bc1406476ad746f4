---------------------------- MODULE DatagramBus -----------------------------
(***************************************************************************)
(* The in-process transport of cmd/go-iroh-custom-transport: a bus that    *)
(* copies datagrams into one buffered channel per attached port, a Serve   *)
(* goroutine per port that hands them to its endpoint, and counters.  The  *)
(* endpoints above the bus are external: an endpoint sends whenever it     *)
(* likes, reuses its send buffer as soon as Send returned, and refuses a   *)
(* datagram when its receive queue is full.                                *)
(***************************************************************************)
EXTENDS Integers, Sequences, FiniteSets

CONSTANTS
  Port,      \* the addresses that may be attached
  QueueCap,  \* capacity of a port's channel, 64 in the code
  MaxSends   \* bound on the datagrams each endpoint sends

ASSUME ConstantsAssumption ==
  IsFiniteSet(Port) /\ QueueCap \in Nat \ {0} /\ MaxSends \in Nat

VARIABLES
  attached,   \* the ports in bus.ports
  sends,      \* sends[p]: datagrams p's endpoint has begun to send
  buffer,     \* buffer[p]: what p's send buffer holds, the number of a datagram
  sending,    \* sending[p]: where p's call of bus.send is, and its destination
  queue,      \* queue[p]: port.in
  delivered,  \* delivered[p]: the counter behind count
  dropped,    \* the counter bus.dropped
  received,   \* received[p]: history, what Serve handed to p's endpoint, in order
  refused,    \* history: datagrams that bus.send did not take
  overflow,   \* history: datagrams that recv answered false to
  closed,     \* closed[p]: the context of p's endpoint has ended
  stopped     \* stopped[p]: p's Serve has returned

vars == <<attached, sends, buffer, sending, queue, delivered, dropped,
          received, refused, overflow, closed, stopped>>

Idle == [at |-> "idle", to |-> "none"]

Init ==
  /\ attached = {}
  /\ sends = [p \in Port |-> 0]
  /\ buffer = [p \in Port |-> 0]
  /\ sending = [p \in Port |-> Idle]
  /\ queue = [p \in Port |-> <<>>]
  /\ delivered = [p \in Port |-> 0]
  /\ dropped = 0
  /\ received = [p \in Port |-> <<>>]
  /\ refused = 0 /\ overflow = 0
  /\ closed = [p \in Port |-> FALSE]
  /\ stopped = [p \in Port |-> FALSE]

\* A datagram as it waits in a channel: its sender and its bytes, its own copy
\* of them or the sender's buffer.
datagramAliased(p) == [from |-> p, owned |-> FALSE, data |-> buffer[p]]
datagram(p) == [from |-> p, owned |-> TRUE, data |-> buffer[p]]

\* The bytes a reader of d finds.
Bytes(d) == IF d.owned THEN d.data ELSE buffer[d.from]

-----------------------------------------------------------------------------

\* attach, under the mutex: the port is known from here on.
attach(p) ==
  /\ p \notin attached
  /\ attached' = attached \cup {p}
  /\ UNCHANGED <<sends, buffer, sending, queue, delivered, dropped, received, refused,
                 overflow, closed, stopped>>

\* An endpoint fills its buffer and calls Send.
Send(p, to) ==
  /\ p \in attached /\ sending[p] = Idle
  /\ sends[p] < MaxSends
  /\ sends' = [sends EXCEPT ![p] = @ + 1]
  /\ buffer' = [buffer EXCEPT ![p] = sends[p] + 1]
  /\ sending' = [sending EXCEPT ![p] = [at |-> "lookup", to |-> to]]
  /\ UNCHANGED <<attached, queue, delivered, dropped, received, refused, overflow, closed, stopped>>

drop(p) ==
  /\ dropped' = dropped + 1
  /\ refused' = refused + 1
  /\ sending' = [sending EXCEPT ![p] = Idle]

\* bus.send, under the mutex: look the destination up; an unknown one drops.
lookup(p) ==
  /\ sending[p].at = "lookup"
  /\ IF sending[p].to \in attached
       THEN sending' = [sending EXCEPT ![p].at = "enqueue"] /\ UNCHANGED <<dropped, refused>>
       ELSE drop(p)
  /\ UNCHANGED <<attached, sends, buffer, queue, delivered, received, overflow, closed, stopped>>

\* A send that also counts what it drops as delivered.
enqueueCountsAll(p) ==
  LET to == sending[p].to IN
  /\ sending[p].at = "enqueue"
  /\ IF Len(queue[to]) < QueueCap
       THEN /\ queue' = [queue EXCEPT ![to] = Append(@, datagram(p))]
            /\ sending' = [sending EXCEPT ![p].at = "count"]
            /\ UNCHANGED <<delivered, dropped, refused>>
       ELSE drop(p) /\ delivered' = [delivered EXCEPT ![to] = @ + 1] /\ UNCHANGED queue
  /\ UNCHANGED <<attached, sends, buffer, received, overflow, closed, stopped>>

\* bus.send: copy the datagram into the channel, or drop it when that is full.
enqueue(p) ==
  LET to == sending[p].to IN
  /\ sending[p].at = "enqueue"
  /\ IF Len(queue[to]) < QueueCap
       THEN /\ queue' = [queue EXCEPT ![to] = Append(@, datagram(p))]
            /\ sending' = [sending EXCEPT ![p].at = "count"]
            /\ UNCHANGED <<dropped, refused>>
       ELSE drop(p) /\ UNCHANGED queue
  /\ UNCHANGED <<attached, sends, buffer, delivered, received, overflow, closed, stopped>>

\* bus.send: the datagram is in the channel, now it is counted.
count(p) ==
  /\ sending[p].at = "count"
  /\ delivered' = [delivered EXCEPT ![sending[p].to] = @ + 1]
  /\ sending' = [sending EXCEPT ![p] = Idle]
  /\ UNCHANGED <<attached, sends, buffer, queue, dropped, received, refused, overflow, closed, stopped>>

\* Serve: take the next datagram; the endpoint has it, or its receive queue is
\* full and it is dropped.
Serve(p) ==
  /\ ~stopped[p] /\ queue[p] # <<>>
  /\ queue' = [queue EXCEPT ![p] = Tail(@)]
  /\ \/ /\ received' = [received EXCEPT ![p] = Append(@, [from |-> Head(queue[p]).from,
                                                          data |-> Bytes(Head(queue[p]))])]
        /\ UNCHANGED <<dropped, overflow>>
     \/ /\ dropped' = dropped + 1 /\ overflow' = overflow + 1
        /\ UNCHANGED received
  /\ UNCHANGED <<attached, sends, buffer, sending, delivered, refused, closed, stopped>>

\* The endpoint shuts down, and Serve returns.
Shutdown(p) ==
  /\ p \in attached /\ ~closed[p]
  /\ closed' = [closed EXCEPT ![p] = TRUE]
  /\ UNCHANGED <<attached, sends, buffer, sending, queue, delivered, dropped, received,
                 refused, overflow, stopped>>

ServeStops(p) ==
  /\ closed[p] /\ ~stopped[p]
  /\ stopped' = [stopped EXCEPT ![p] = TRUE]
  /\ UNCHANGED <<attached, sends, buffer, sending, queue, delivered, dropped, received,
                 refused, overflow, closed>>

Carry(p) == lookup(p) \/ enqueue(p) \/ count(p)

Next ==
  \E p \in Port :
    \/ attach(p) \/ Carry(p) \/ Serve(p) \/ Shutdown(p) \/ ServeStops(p)
    \/ \E to \in Port \ {p} : Send(p, to)

Spec == Init /\ [][Next]_vars

-----------------------------------------------------------------------------

\* The sum of a count per port, as the number of things counted.
Counted(f) == UNION {{p} \X (1..f[p]) : p \in Port}
Total(f) == Cardinality(Counted(f))

TypeOK ==
  /\ attached \subseteq Port
  /\ sends \in [Port -> 0..MaxSends] /\ buffer \in [Port -> 0..MaxSends]
  /\ sending \in [Port -> {Idle} \cup [at : {"lookup", "enqueue", "count"}, to : Port]]
  /\ \A p \in Port : Len(queue[p]) <= QueueCap
  /\ delivered \in [Port -> Nat] /\ dropped \in Nat
  /\ closed \in [Port -> BOOLEAN] /\ stopped \in [Port -> BOOLEAN]

\* What an endpoint receives from a peer is what that peer sent, each datagram
\* at most once, in order and as it was when Send was called, although the peer
\* reuses its buffer while the datagram waits in the channel.
ReceivedAsSent ==
  \A p \in Port :
    /\ \A i \in DOMAIN received[p] : received[p][i].data \in 1..sends[received[p][i].from]
    /\ \A i, j \in DOMAIN received[p] :
         i < j /\ received[p][i].from = received[p][j].from => received[p][i].data < received[p][j].data

\* No datagram is unaccounted for: each Send that returned is counted once as
\* taken or dropped, and what was taken is waiting, received, or refused by
\* the endpoint, which is counted as a drop again.
Accounted ==
  /\ Total(sends) =
       Total(delivered) + refused + Cardinality({p \in Port : sending[p] # Idle})
  /\ Total(delivered) + Cardinality({p \in Port : sending[p].at = "count"}) =
       Total([p \in Port |-> Len(queue[p]) + Len(received[p])]) + overflow
  /\ dropped = refused + overflow
=============================================================================
