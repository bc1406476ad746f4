------------------------- MODULE DatagramBusProofs --------------------------
(***************************************************************************)
(* What the bus of go-iroh-custom-transport does to the datagrams it       *)
(* carries, for any ports, any capacity of their channels and any number   *)
(* of sends.                                                               *)
(***************************************************************************)
EXTENDS DatagramBus, FiniteSetTheorems, SequenceTheorems, TLAPS

-----------------------------------------------------------------------------
(* The inductive invariant.                                                *)

Carried == [from : Port, owned : {TRUE}, data : Nat]
Handed == [from : Port, data : Nat]

\* Every datagram in a channel is a copy of the sender's bytes.
Shapes ==
  /\ sends \in [Port -> Nat] /\ buffer \in [Port -> Nat]
  /\ sending \in [Port -> {Idle} \cup [at : {"lookup", "enqueue", "count"}, to : Port]]
  /\ queue \in [Port -> Seq(Carried)]
  /\ received \in [Port -> Seq(Handed)]

\* The endpoint's last datagram that the bus has taken or refused.
Decided(p) == IF sending[p].at \in {"lookup", "enqueue"} THEN sends[p] - 1 ELSE sends[p]

\* The send buffer holds the last datagram sent, and a call of bus.send is
\* under way for a datagram that exists.
Buffers(p) ==
  /\ buffer[p] = sends[p]
  /\ sending[p].at # "idle" => sends[p] > 0

\* No datagram is anywhere that the bus has not decided on: while a call of
\* bus.send has its own datagram before it, the datagram is new to every port.
NoneEarly(p) ==
  /\ \A i \in DOMAIN received[p] : received[p][i].data \in 1..Decided(received[p][i].from)
  /\ \A i \in DOMAIN queue[p] : queue[p][i].data \in 1..Decided(queue[p][i].from)

Later(d, e) == d.from = e.from => d.data < e.data

\* What a port was handed and what waits for it, one after the other, is in
\* the order of each sender.
InOrder(p) ==
  /\ \A i, j \in DOMAIN received[p] : i < j => Later(received[p][i], received[p][j])
  /\ \A i, j \in DOMAIN queue[p] : i < j => Later(queue[p][i], queue[p][j])
  /\ \A i \in DOMAIN received[p], j \in DOMAIN queue[p] : Later(received[p][i], queue[p][j])

Inv == Shapes /\ \A p \in Port : Buffers(p) /\ NoneEarly(p) /\ InOrder(p)

-----------------------------------------------------------------------------
(* Sequences, and what the steps of a port do.                             *)

LEMMA TakenOff ==
  ASSUME NEW S, NEW s \in Seq(S), s # <<>>
  PROVE  /\ s[1] = Head(s) /\ Head(s) \in S /\ 1 \in DOMAIN s
         /\ Tail(s) \in Seq(S)
         /\ \A i \in DOMAIN Tail(s) : i \in Nat /\ i >= 1 /\ i + 1 \in DOMAIN s /\ Tail(s)[i] = s[i + 1]
BY HeadTailProperties, LenProperties

LEMMA PutOn ==
  ASSUME NEW S, NEW s \in Seq(S), NEW e \in S
  PROVE  /\ Append(s, e) \in Seq(S)
         /\ \A i \in DOMAIN s : i \in Nat /\ i <= Len(s)
         /\ \A i \in DOMAIN Append(s, e) : \/ i \in DOMAIN s /\ Append(s, e)[i] = s[i]
                                           \/ i = Len(s) + 1 /\ Append(s, e)[i] = e
<1> DEFINE n == Len(s)
           t == Append(s, e)
<1>1. n \in Nat /\ DOMAIN s = 1..n
  BY LenProperties
<1>2. t \in Seq(S) /\ Len(t) = n + 1 /\ (\A i \in 1..n : t[i] = s[i]) /\ t[n + 1] = e
  BY AppendProperties
<1>3. DOMAIN t = 1..(n + 1)
  BY <1>2, LenProperties
<1> HIDE DEF n, t
<1>4. \A i \in 1..(n + 1) : i \in 1..n \/ i = n + 1
  BY <1>1
<1>5. \A i \in DOMAIN s : i \in Nat /\ i <= n
  BY <1>1
<1>6. \A i \in DOMAIN t : \/ i \in DOMAIN s /\ t[i] = s[i]
                          \/ i = n + 1 /\ t[i] = e
  BY <1>1, <1>2, <1>3, <1>4
<1> QED
  BY <1>2, <1>5, <1>6 DEF n, t

\* A call of bus.send under way is to a port.
LEMMA Destination ==
  ASSUME Shapes, NEW p \in Port, sending[p].at \in {"lookup", "enqueue", "count"}
  PROVE  sending[p].to \in Port /\ sending[p] # Idle
BY DEF Shapes, Idle

\* What bus.send puts into a channel is a copy of the send buffer.
LEMMA Enqueued ==
  ASSUME Shapes, NEW p \in Port, enqueue(p)
  PROVE  \E to \in Port :
           /\ sending[p].at = "enqueue"
           /\ \/ /\ queue' = [queue EXCEPT ![to] = Append(queue[to], datagram(p))]
                 /\ sending' = [sending EXCEPT ![p] = [at |-> "count", to |-> to]]
              \/ queue' = queue /\ sending' = [sending EXCEPT ![p] = Idle]
           /\ datagram(p) \in Carried /\ datagram(p).from = p /\ datagram(p).data = buffer[p]
           /\ UNCHANGED <<sends, buffer, received>>
<1>1. sending[p].at = "enqueue"
  BY DEF enqueue
<1>2. sending[p].to \in Port /\ sending[p] \in [at : {"lookup", "enqueue", "count"}, to : Port]
  BY <1>1, Destination DEF Shapes, Idle
<1>3. datagram(p) \in Carried /\ datagram(p).from = p /\ datagram(p).data = buffer[p]
  BY DEF Shapes, datagram, Carried
<1>4. [sending EXCEPT ![p].at = "count"] = [sending EXCEPT ![p] = [at |-> "count", to |-> sending[p].to]]
  <2>1. [sending[p] EXCEPT !.at = "count"] = [at |-> "count", to |-> sending[p].to]
    BY <1>2
  <2> QED
    BY <2>1
<1> QED
  BY <1>1, <1>2, <1>3, <1>4 DEF enqueue, drop

\* What Serve hands to its endpoint is what waited first in the channel.
LEMMA Served ==
  ASSUME Shapes, NEW p \in Port, Serve(p)
  PROVE  /\ queue[p] \in Seq(Carried) /\ queue[p] # <<>>
         /\ queue' = [queue EXCEPT ![p] = Tail(queue[p])]
         /\ \/ received' = received
            \/ \E d \in Handed :
                 /\ received' = [received EXCEPT ![p] = Append(received[p], d)]
                 /\ d.from = queue[p][1].from /\ d.data = queue[p][1].data
         /\ UNCHANGED <<sends, buffer, sending>>
<1>1. queue[p] \in Seq(Carried) /\ queue[p] # <<>>
  BY DEF Shapes, Serve
<1>2. Head(queue[p]) = queue[p][1] /\ Head(queue[p]) \in Carried
  BY <1>1, TakenOff
<1>3. Bytes(Head(queue[p])) = queue[p][1].data
  BY <1>2 DEF Bytes, Carried
<1>4. [from |-> Head(queue[p]).from, data |-> Bytes(Head(queue[p]))] \in Handed
  BY <1>2, <1>3 DEF Carried, Handed
<1> QED
  BY <1>1, <1>2, <1>3, <1>4 DEF Serve

-----------------------------------------------------------------------------
(* Each step keeps the invariant.                                          *)

LEMMA DecidedIsAnInteger ==
  ASSUME Shapes, NEW p \in Port
  PROVE  Decided(p) \in Int
BY DEF Shapes, Decided

\* A step of a call, which moves no datagram, decides on more of them.
LEMMA NothingMoves ==
  ASSUME Inv, Shapes', UNCHANGED <<queue, received>>,
         \A q \in Port : Buffers(q)' /\ Decided(q) <= Decided(q)' /\ Decided(q)' \in Int
  PROVE  Inv'
<1>1. ASSUME NEW q \in Port, NEW n \in 1..Decided(q) PROVE n \in 1..Decided(q)'
  BY <1>1, DecidedIsAnInteger DEF Inv
<1>2. ASSUME NEW p \in Port PROVE NoneEarly(p)'
  <2>1. ASSUME NEW i \in DOMAIN received[p] PROVE received[p][i].from \in Port
    <3>1. received[p] \in Seq(Handed)
      BY DEF Inv, Shapes
    <3>2. received[p][i] \in Handed
      BY <3>1, LenProperties
    <3> QED
      BY <3>2 DEF Handed
  <2>2. ASSUME NEW i \in DOMAIN queue[p] PROVE queue[p][i].from \in Port
    <3>1. queue[p] \in Seq(Carried)
      BY DEF Inv, Shapes
    <3>2. queue[p][i] \in Carried
      BY <3>1, LenProperties
    <3> QED
      BY <3>2 DEF Carried
  <2> QED
    BY <1>1, <2>1, <2>2 DEF Inv, NoneEarly
<1>3. ASSUME NEW p \in Port PROVE InOrder(p)'
  BY DEF Inv, InOrder
<1> QED
  BY <1>2, <1>3 DEF Inv

LEMMA CallsAreKept ==
  ASSUME Inv, NEW p \in Port, lookup(p) \/ count(p) \/ \E to \in Port \ {p} : Send(p, to)
  PROVE  Inv'
<1>1. UNCHANGED <<queue, received>>
  BY DEF lookup, count, Send
<1>2. CASE lookup(p) \/ count(p)
  <2>1. UNCHANGED <<sends, buffer>>
    BY <1>2 DEF lookup, count
  <2>2. /\ sending[p].at \in {"lookup", "count"} /\ sending[p].to \in Port
        /\ sending[p] \in [at : {"lookup", "enqueue", "count"}, to : Port]
        /\ \/ sending' = [sending EXCEPT ![p] = Idle]
           \/ sending[p].at = "lookup" /\ sending' = [sending EXCEPT ![p].at = "enqueue"]
    <3>1. sending[p].at \in {"lookup", "count"}
          /\ \/ sending' = [sending EXCEPT ![p] = Idle]
             \/ sending[p].at = "lookup" /\ sending' = [sending EXCEPT ![p].at = "enqueue"]
      BY <1>2 DEF lookup, count, drop
    <3>2. sending[p].to \in Port /\ sending[p] # Idle
      BY <3>1, Destination DEF Inv
    <3> QED
      BY <3>1, <3>2 DEF Inv, Shapes
  <2>3. \E c \in {Idle} \cup [at : {"lookup", "enqueue", "count"}, to : Port] :
          /\ sending' = [sending EXCEPT ![p] = c]
          /\ c.at = "idle" \/ (c.at = "enqueue" /\ sending[p].at = "lookup")
    <3>1. CASE sending' = [sending EXCEPT ![p] = Idle]
      <4>1. Idle.at = "idle"
        BY DEF Idle
      <4> QED
        BY <3>1, <4>1
    <3>2. CASE sending[p].at = "lookup" /\ sending' = [sending EXCEPT ![p].at = "enqueue"]
      <4>1. [sending[p] EXCEPT !.at = "enqueue"] = [at |-> "enqueue", to |-> sending[p].to]
        BY <2>2
      <4>2. sending' = [sending EXCEPT ![p] = [at |-> "enqueue", to |-> sending[p].to]]
        BY <3>2, <4>1
      <4>3. [at |-> "enqueue", to |-> sending[p].to] \in [at : {"lookup", "enqueue", "count"}, to : Port]
        BY <2>2
      <4> QED
        BY <3>2, <4>2, <4>3
    <3> QED
      BY <2>2, <3>1, <3>2
  <2>4. Shapes'
    BY <1>1, <2>1, <2>3 DEF Inv, Shapes
  <2>5. ASSUME NEW q \in Port
        PROVE  Buffers(q)' /\ Decided(q) <= Decided(q)' /\ Decided(q)' \in Int
    BY <2>1, <2>2, <2>3 DEF Inv, Shapes, Buffers, Decided
  <2> QED
    BY <1>1, <2>4, <2>5, NothingMoves
<1>3. ASSUME NEW to \in Port, Send(p, to)
      PROVE  Inv'
  <2>1. /\ sending[p].at = "idle"
        /\ sends' = [sends EXCEPT ![p] = sends[p] + 1]
        /\ buffer' = [buffer EXCEPT ![p] = sends[p] + 1]
        /\ sending' = [sending EXCEPT ![p] = [at |-> "lookup", to |-> to]]
    BY <1>3 DEF Send, Idle
  <2>2. Shapes'
    <3>1. sends' \in [Port -> Nat] /\ buffer' \in [Port -> Nat]
      BY <2>1 DEF Inv, Shapes
    <3>2. sending' \in [Port -> {Idle} \cup [at : {"lookup", "enqueue", "count"}, to : Port]]
      BY <2>1 DEF Inv, Shapes
    <3> QED
      BY <1>1, <3>1, <3>2 DEF Inv, Shapes
  <2>3. ASSUME NEW q \in Port
        PROVE  Buffers(q)' /\ Decided(q) <= Decided(q)' /\ Decided(q)' \in Int
    BY <2>1 DEF Inv, Shapes, Buffers, Decided
  <2> QED
    BY <1>1, <2>2, <2>3, NothingMoves
<1> QED
  BY <1>2, <1>3

\* bus.send's own datagram is newer than every one its port has carried.
LEMMA EnqueueIsKept ==
  ASSUME Inv, NEW p \in Port, enqueue(p)
  PROVE  Inv'
<1> DEFINE d == datagram(p)
<1>1. PICK to \in Port :
           /\ sending[p].at = "enqueue"
           /\ \/ /\ queue' = [queue EXCEPT ![to] = Append(queue[to], d)]
                 /\ sending' = [sending EXCEPT ![p] = [at |-> "count", to |-> to]]
              \/ queue' = queue /\ sending' = [sending EXCEPT ![p] = Idle]
           /\ d \in Carried /\ d.from = p /\ d.data = buffer[p]
           /\ UNCHANGED <<sends, buffer, received>>
  BY Enqueued DEF Inv
<1> HIDE DEF d
<1>2. \E c \in {Idle} \cup [at : {"lookup", "enqueue", "count"}, to : Port] :
        sending' = [sending EXCEPT ![p] = c] /\ c.at \in {"idle", "count"}
  <2>1. Idle.at = "idle"
    BY DEF Idle
  <2> QED
    BY <1>1, <2>1
<1>3. /\ sending' \in [Port -> {Idle} \cup [at : {"lookup", "enqueue", "count"}, to : Port]]
      /\ sending'[p].at \in {"idle", "count"}
      /\ \A q \in Port : q # p => sending'[q] = sending[q]
  BY <1>2 DEF Inv, Shapes
<1>4. /\ Decided(p)' = sends[p] /\ Decided(p) = sends[p] - 1
      /\ \A q \in Port : q # p => Decided(q)' = Decided(q)
  BY <1>1, <1>3 DEF Decided
<1>5. sends[p] \in Nat /\ sends[p] > 0 /\ d.data = sends[p]
  BY <1>1 DEF Inv, Shapes, Buffers
<1>6. ASSUME NEW q \in Port
      PROVE  Buffers(q)' /\ Decided(q) <= Decided(q)' /\ Decided(q)' \in Int
  <2>1. Decided(q) \in Int
    BY DecidedIsAnInteger DEF Inv
  <2>2. Decided(q) <= Decided(q)' /\ Decided(q)' \in Int
    BY <1>4, <1>5, <2>1
  <2> QED
    BY <1>1, <1>3, <1>5, <2>2 DEF Inv, Buffers
<1>7. CASE queue' = queue
  <2>1. Shapes'
    BY <1>1, <1>3, <1>7 DEF Inv, Shapes
  <2> QED
    BY <1>1, <1>6, <1>7, <2>1, NothingMoves
<1>8. CASE queue' = [queue EXCEPT ![to] = Append(queue[to], d)]
  <2>1. queue[to] \in Seq(Carried) /\ queue'[to] = Append(queue[to], d)
        /\ \A r \in Port : r # to => queue'[r] = queue[r]
    BY <1>8 DEF Inv, Shapes
  <2>2. /\ queue'[to] \in Seq(Carried)
        /\ \A i \in DOMAIN queue[to] : i \in Nat /\ i <= Len(queue[to])
        /\ \A i \in DOMAIN queue'[to] : \/ i \in DOMAIN queue[to] /\ queue'[to][i] = queue[to][i]
                                        \/ i = Len(queue[to]) + 1 /\ queue'[to][i] = d
    BY <1>1, <2>1, PutOn
  <2>3. Shapes'
    BY <1>1, <1>3, <1>8, <2>2 DEF Inv, Shapes
  <2>4. ASSUME NEW r \in Port PROVE NoneEarly(r)'
    <3>1. ASSUME NEW q \in Port, NEW n \in 1..Decided(q) PROVE n \in 1..Decided(q)'
      BY <1>6, <3>1, DecidedIsAnInteger DEF Inv
    <3>2. ASSUME NEW i \in DOMAIN received[r] PROVE received[r][i].from \in Port
      <4>1. received[r] \in Seq(Handed)
        BY DEF Inv, Shapes
      <4>2. received[r][i] \in Handed
        BY <4>1, LenProperties
      <4> QED
        BY <4>2 DEF Handed
    <3>3. ASSUME NEW i \in DOMAIN queue[r] PROVE queue[r][i].from \in Port
      <4>1. queue[r] \in Seq(Carried)
        BY DEF Inv, Shapes
      <4>2. queue[r][i] \in Carried
        BY <4>1, LenProperties
      <4> QED
        BY <4>2 DEF Carried
    <3>4. d.data \in 1..Decided(p)'
      BY <1>1, <1>4, <1>5
    <3>5. ASSUME NEW i \in DOMAIN received'[r]
          PROVE  \E q \in Port : received'[r][i].from = q /\ received'[r][i].data \in 1..Decided(q)'
      BY <1>1, <3>1, <3>2 DEF Inv, NoneEarly
    <3>6. ASSUME NEW i \in DOMAIN queue'[r]
          PROVE  \E q \in Port : queue'[r][i].from = q /\ queue'[r][i].data \in 1..Decided(q)'
      <4>1. CASE queue'[r] = queue[r]
        BY <3>1, <3>3, <4>1 DEF Inv, NoneEarly
      <4>2. CASE r = to
        BY <1>1, <2>2, <3>1, <3>3, <3>4, <4>2 DEF Inv, NoneEarly
      <4> QED
        BY <2>1, <4>1, <4>2
    <3> QED
      BY <3>5, <3>6 DEF NoneEarly, Decided
  <2>5. ASSUME NEW r \in Port PROVE InOrder(r)'
    <3>1. CASE r # to
      BY <1>1, <2>1, <3>1 DEF Inv, InOrder
    <3>2. CASE r = to
      <4>1. ASSUME NEW i \in DOMAIN queue[to] PROVE Later(queue[to][i], d)
        <5>1. queue[to][i].data \in 1..Decided(queue[to][i].from)
          BY DEF Inv, NoneEarly
        <5> QED
          BY <1>1, <1>4, <1>5, <5>1 DEF Later
      <4>2. ASSUME NEW i \in DOMAIN received[to] PROVE Later(received[to][i], d)
        <5>1. received[to][i].data \in 1..Decided(received[to][i].from)
          BY DEF Inv, NoneEarly
        <5> QED
          BY <1>1, <1>4, <1>5, <5>1 DEF Later
      <4>3. Len(queue[to]) \in Nat
        BY <2>1, LenProperties
      <4>4. \A i, j \in DOMAIN queue'[to] : i < j => Later(queue'[to][i], queue'[to][j])
        BY <2>2, <4>1, <4>3 DEF Inv, InOrder
      <4>5. \A i \in DOMAIN received[to], j \in DOMAIN queue'[to] : Later(received[to][i], queue'[to][j])
        BY <2>2, <4>2 DEF Inv, InOrder
      <4> QED
        BY <1>1, <3>2, <4>4, <4>5 DEF Inv, InOrder
    <3> QED
      BY <3>1, <3>2
  <2> QED
    BY <1>6, <2>3, <2>4, <2>5 DEF Inv
<1> QED
  BY <1>1, <1>7, <1>8

\* What Serve hands on comes after all that the port was handed and before all
\* that still waits for it.
LEMMA ServeIsKept ==
  ASSUME Inv, NEW p \in Port, Serve(p)
  PROVE  Inv'
<1>1. /\ queue[p] \in Seq(Carried) /\ queue[p] # <<>>
      /\ queue' = [queue EXCEPT ![p] = Tail(queue[p])]
      /\ \/ received' = received
         \/ \E d \in Handed :
              /\ received' = [received EXCEPT ![p] = Append(received[p], d)]
              /\ d.from = queue[p][1].from /\ d.data = queue[p][1].data
      /\ UNCHANGED <<sends, buffer, sending>>
  BY Served DEF Inv
<1>2. received \in [Port -> Seq(Handed)] /\ received[p] \in Seq(Handed)
  BY DEF Inv, Shapes
<1>3. /\ 1 \in DOMAIN queue[p] /\ queue'[p] \in Seq(Carried)
      /\ \A i \in DOMAIN queue'[p] :
           i \in Nat /\ i >= 1 /\ i + 1 \in DOMAIN queue[p] /\ queue'[p][i] = queue[p][i + 1]
      /\ \A r \in Port : r # p => queue'[r] = queue[r]
  <2>1. queue'[p] = Tail(queue[p]) /\ \A r \in Port : r # p => queue'[r] = queue[r]
    BY <1>1 DEF Inv, Shapes
  <2>2. /\ 1 \in DOMAIN queue[p] /\ Tail(queue[p]) \in Seq(Carried)
        /\ \A i \in DOMAIN Tail(queue[p]) :
             i \in Nat /\ i >= 1 /\ i + 1 \in DOMAIN queue[p] /\ Tail(queue[p])[i] = queue[p][i + 1]
    BY <1>1, TakenOff
  <2> QED
    BY <2>1, <2>2
<1>4. /\ received' \in [Port -> Seq(Handed)]
      /\ \A r \in Port : r # p => received'[r] = received[r]
      /\ \A i \in DOMAIN received[p] : i \in Nat /\ i <= Len(received[p])
      /\ \A i \in DOMAIN received'[p] :
           \/ i \in DOMAIN received[p] /\ received'[p][i] = received[p][i]
           \/ /\ i = Len(received[p]) + 1
              /\ received'[p][i].from = queue[p][1].from /\ received'[p][i].data = queue[p][1].data
  <2>1. CASE received' = received
    <3>1. \A i \in DOMAIN received[p] : i \in Nat /\ i <= Len(received[p])
      BY <1>2, LenProperties
    <3> QED
      BY <1>2, <2>1, <3>1
  <2>2. CASE received' # received
    <3>0. PICK d \in Handed :
            /\ received' = [received EXCEPT ![p] = Append(received[p], d)]
            /\ d.from = queue[p][1].from /\ d.data = queue[p][1].data
      BY <1>1, <2>2
    <3>1. /\ Append(received[p], d) \in Seq(Handed)
          /\ \A i \in DOMAIN received[p] : i \in Nat /\ i <= Len(received[p])
          /\ \A i \in DOMAIN Append(received[p], d) :
               \/ i \in DOMAIN received[p] /\ Append(received[p], d)[i] = received[p][i]
               \/ i = Len(received[p]) + 1 /\ Append(received[p], d)[i] = d
      BY <1>2, PutOn
    <3> QED
      BY <1>2, <3>0, <3>1
  <2> QED
    BY <2>1, <2>2
<1>5. Shapes'
  BY <1>1, <1>3, <1>4 DEF Inv, Shapes
<1>6. ASSUME NEW r \in Port PROVE Buffers(r)'
  BY <1>1 DEF Inv, Buffers
<1>7. ASSUME NEW r \in Port PROVE NoneEarly(r)'
  <2>1. \A q \in Port : Decided(q)' = Decided(q)
    BY <1>1 DEF Decided
  <2>2. ASSUME NEW i \in DOMAIN received'[r]
        PROVE  received'[r][i].data \in 1..Decided(received'[r][i].from)
    <3>1. queue[p][1].data \in 1..Decided(queue[p][1].from)
      BY <1>3 DEF Inv, NoneEarly
    <3>2. CASE r # p
      BY <1>4, <2>2, <3>2 DEF Inv, NoneEarly
    <3>3. CASE r = p
      <4>1. CASE i \in DOMAIN received[p] /\ received'[p][i] = received[p][i]
        BY <3>3, <4>1 DEF Inv, NoneEarly
      <4>2. CASE received'[p][i].from = queue[p][1].from /\ received'[p][i].data = queue[p][1].data
        BY <3>1, <3>3, <4>2
      <4> QED
        BY <1>4, <2>2, <3>3, <4>1, <4>2
    <3> QED
      BY <3>2, <3>3
  <2>3. \A i \in DOMAIN queue'[r] : queue'[r][i].data \in 1..Decided(queue'[r][i].from)
    BY <1>3 DEF Inv, NoneEarly
  <2> QED
    BY <1>1, <2>2, <2>3 DEF NoneEarly, Decided
<1>8. ASSUME NEW r \in Port PROVE InOrder(r)'
  <2>1. CASE r # p
    BY <1>3, <1>4, <2>1 DEF Inv, InOrder
  <2>2. CASE r = p
    <3>1. /\ \A i, j \in DOMAIN received[p] : i < j => Later(received[p][i], received[p][j])
          /\ \A i, j \in DOMAIN queue[p] : i < j => Later(queue[p][i], queue[p][j])
          /\ \A i \in DOMAIN received[p], j \in DOMAIN queue[p] : Later(received[p][i], queue[p][j])
      BY DEF Inv, InOrder
    <3>2. Len(received[p]) \in Nat
      BY <1>2, LenProperties
    <3>3. ASSUME NEW i \in DOMAIN queue'[p], NEW j \in DOMAIN queue'[p], i < j
          PROVE  Later(queue'[p][i], queue'[p][j])
      <4>1. i + 1 \in DOMAIN queue[p] /\ j + 1 \in DOMAIN queue[p] /\ i + 1 < j + 1
        BY <1>3, <3>3
      <4> QED
        BY <1>3, <3>1, <4>1
    <3>4. ASSUME NEW i \in DOMAIN received'[p], NEW j \in DOMAIN received'[p], i < j
          PROVE  Later(received'[p][i], received'[p][j])
      <4>1. i \in DOMAIN received[p] /\ received'[p][i] = received[p][i]
        BY <1>4, <3>2, <3>4
      <4>2. CASE j \in DOMAIN received[p] /\ received'[p][j] = received[p][j]
        BY <3>1, <3>4, <4>1, <4>2
      <4>3. CASE received'[p][j].from = queue[p][1].from /\ received'[p][j].data = queue[p][1].data
        <5>1. Later(received[p][i], queue[p][1])
          BY <1>3, <3>1, <4>1
        <5> QED
          BY <4>1, <4>3, <5>1 DEF Later
      <4> QED
        BY <1>4, <4>2, <4>3
    <3>5. ASSUME NEW i \in DOMAIN received'[p], NEW j \in DOMAIN queue'[p]
          PROVE  Later(received'[p][i], queue'[p][j])
      <4>1. j + 1 \in DOMAIN queue[p] /\ 1 < j + 1 /\ queue'[p][j] = queue[p][j + 1]
        BY <1>3
      <4>2. CASE i \in DOMAIN received[p] /\ received'[p][i] = received[p][i]
        BY <3>1, <4>1, <4>2
      <4>3. CASE received'[p][i].from = queue[p][1].from /\ received'[p][i].data = queue[p][1].data
        <5>1. Later(queue[p][1], queue[p][j + 1])
          BY <1>3, <3>1, <4>1
        <5> QED
          BY <4>1, <4>3, <5>1 DEF Later
      <4> QED
        BY <1>4, <4>2, <4>3
    <3> QED
      BY <2>2, <3>3, <3>4, <3>5 DEF InOrder
  <2> QED
    BY <2>1, <2>2
<1> QED
  BY <1>5, <1>6, <1>7, <1>8 DEF Inv

-----------------------------------------------------------------------------
(* The theorems.                                                           *)

LEMMA InvIsInvariant == Spec => []Inv
<1>1. Init => Inv
  <2> SUFFICES ASSUME Init PROVE Inv
    OBVIOUS
  <2>1. <<>> \in Seq(Carried) /\ <<>> \in Seq(Handed)
    BY EmptySeq
  <2>2. Shapes
    BY <2>1 DEF Init, Shapes
  <2>3. ASSUME NEW p \in Port PROVE Buffers(p) /\ NoneEarly(p) /\ InOrder(p)
    BY DEF Init, Buffers, NoneEarly, InOrder, Idle
  <2> QED
    BY <2>2, <2>3 DEF Inv
<1>2. Inv /\ [Next]_vars => Inv'
  <2> SUFFICES ASSUME Inv, [Next]_vars PROVE Inv'
    OBVIOUS
  <2>1. ASSUME NEW p \in Port, attach(p) \/ Shutdown(p) \/ ServeStops(p)
        PROVE  UNCHANGED <<sends, buffer, sending, queue, received>>
    BY <2>1 DEF attach, Shutdown, ServeStops
  <2>2. UNCHANGED vars => UNCHANGED <<sends, buffer, sending, queue, received>>
    BY DEF vars
  <2>3. CASE UNCHANGED <<sends, buffer, sending, queue, received>>
    BY <2>3 DEF Inv, Shapes, Buffers, NoneEarly, Decided, InOrder
  <2> QED
    BY <2>1, <2>2, <2>3, CallsAreKept, EnqueueIsKept, ServeIsKept DEF Next, Carry
<1> QED
  BY <1>1, <1>2, PTL DEF Spec

\* The bus copies: however the sends of several endpoints, the Serve goroutines
\* and the drops of full queues interleave, a peer's datagrams reach an
\* endpoint unchanged, in order and at most once.
THEOREM DatagramsArriveAsSent == Spec => []ReceivedAsSent
<1>1. Inv => ReceivedAsSent
  <2> SUFFICES ASSUME Inv, NEW p \in Port
               PROVE  /\ \A i \in DOMAIN received[p] : received[p][i].data \in 1..sends[received[p][i].from]
                      /\ \A i, j \in DOMAIN received[p] :
                           i < j /\ received[p][i].from = received[p][j].from
                             => received[p][i].data < received[p][j].data
    BY DEF ReceivedAsSent
  <2>1. ASSUME NEW i \in DOMAIN received[p]
        PROVE  received[p][i].data \in 1..sends[received[p][i].from]
    <3>1. received[p][i].data \in 1..Decided(received[p][i].from)
      BY DEF Inv, NoneEarly
    <3>2. received[p][i].from \in Port
      <4>1. received[p] \in Seq(Handed)
        BY DEF Inv, Shapes
      <4>2. received[p][i] \in Handed
        BY <4>1, LenProperties
      <4> QED
        BY <4>2 DEF Handed
    <3>3. Decided(received[p][i].from) <= sends[received[p][i].from] /\ sends[received[p][i].from] \in Nat
      BY <3>2 DEF Decided, Inv, Shapes
    <3> QED
      BY <3>1, <3>2, <3>3, DecidedIsAnInteger DEF Inv
  <2> QED
    BY <2>1 DEF Inv, InOrder, Later
<1> QED
  BY <1>1, InvIsInvariant, PTL

\* The counters, and the bound of the channels.
Counters ==
  /\ attached \subseteq Port
  /\ \A p \in Port : sends[p] <= MaxSends
  /\ \A p \in Port : Len(queue[p]) <= QueueCap
  /\ delivered \in [Port -> Nat]
  /\ refused \in Nat /\ overflow \in Nat /\ dropped = refused + overflow

LEMMA CountersAreKept ==
  ASSUME Inv, Counters, NEW p \in Port,
         \/ attach(p) \/ Carry(p) \/ Serve(p) \/ Shutdown(p) \/ ServeStops(p)
         \/ \E to \in Port \ {p} : Send(p, to)
  PROVE  Counters'
<1> USE ConstantsAssumption DEF Counters
<1>0. Shapes /\ \A q \in Port : Len(queue[q]) \in Nat /\ queue[q] \in Seq(Carried)
  BY LenProperties DEF Inv, Shapes
<1>1. CASE attach(p) \/ Shutdown(p) \/ ServeStops(p)
  BY <1>1 DEF attach, Shutdown, ServeStops
<1>2. CASE lookup(p)
  BY <1>2 DEF lookup, drop
<1>3. CASE count(p)
  <2>1. sending[p].to \in Port
    BY <1>0, <1>3, Destination DEF count
  <2> QED
    BY <1>3, <2>1 DEF count
<1>4. CASE \E to \in Port \ {p} : Send(p, to)
  BY <1>0, <1>4 DEF Send, Shapes
<1>5. CASE enqueue(p)
  <2>1. sending[p].to \in Port
    BY <1>0, <1>5, Destination DEF enqueue
  <2>2. datagram(p) \in Carried
    BY <1>0, <1>5, Enqueued
  <2>3. ASSUME NEW q \in Port PROVE Len(queue'[q]) <= QueueCap
    <3>1. CASE queue' = queue
      BY <3>1
    <3>2. CASE queue' # queue
      <4>1. /\ Len(queue[sending[p].to]) < QueueCap
            /\ queue' = [queue EXCEPT ![sending[p].to] = Append(queue[sending[p].to], datagram(p))]
        BY <1>5, <3>2 DEF enqueue
      <4>2. Len(Append(queue[sending[p].to], datagram(p))) = Len(queue[sending[p].to]) + 1
        BY <1>0, <2>1, <2>2, AppendProperties
      <4>3. ASSUME NEW n \in Nat, n < QueueCap PROVE n + 1 <= QueueCap
        BY <4>3
      <4>4. Len(Append(queue[sending[p].to], datagram(p))) <= QueueCap
        BY <1>0, <2>1, <4>1, <4>2, <4>3
      <4> QED
        BY <1>0, <2>1, <4>1, <4>4 DEF Shapes
    <3> QED
      BY <3>1, <3>2
  <2>4. /\ UNCHANGED <<attached, sends, delivered, overflow>>
        /\ \/ UNCHANGED <<dropped, refused>>
           \/ dropped' = dropped + 1 /\ refused' = refused + 1
    BY <1>5 DEF enqueue, drop
  <2>5. refused' \in Nat /\ overflow' \in Nat /\ dropped' = refused' + overflow'
    BY <2>4
  <2>6. attached' \subseteq Port /\ delivered' \in [Port -> Nat] /\ \A q \in Port : sends'[q] <= MaxSends
    BY <2>4
  <2> QED
    BY <2>3, <2>5, <2>6
<1>6. CASE Serve(p)
  <2>1. queue' = [queue EXCEPT ![p] = Tail(queue[p])] /\ queue[p] # <<>>
    BY <1>6 DEF Serve
  <2>2. Len(Tail(queue[p])) = Len(queue[p]) - 1
    BY <1>0, <2>1, HeadTailProperties
  <2>3. Len(Tail(queue[p])) <= QueueCap
    BY <1>0, <2>2
  <2>4. ASSUME NEW q \in Port PROVE Len(queue'[q]) <= QueueCap
    BY <1>0, <2>1, <2>3 DEF Shapes
  <2>5. /\ UNCHANGED <<attached, sends, delivered, refused>>
        /\ \/ UNCHANGED <<dropped, overflow>>
           \/ dropped' = dropped + 1 /\ overflow' = overflow + 1
    BY <1>6 DEF Serve
  <2> QED
    BY <2>4, <2>5
<1> QED
  BY <1>1, <1>2, <1>3, <1>4, <1>5, <1>6 DEF Carry

LEMMA CountersAreInvariant == Spec => []Counters
<1>1. Init => Counters
  BY ConstantsAssumption DEF Init, Counters
<1>2. Inv /\ Counters /\ [Next]_vars => Counters'
  BY CountersAreKept DEF Next, vars, Counters
<1> QED
  BY <1>1, <1>2, InvIsInvariant, PTL DEF Spec

LEMMA FlagsAreInvariant ==
  Spec => [](closed \in [Port -> BOOLEAN] /\ stopped \in [Port -> BOOLEAN])
<1> DEFINE Flags == closed \in [Port -> BOOLEAN] /\ stopped \in [Port -> BOOLEAN]
<1>1. Init => Flags
  BY DEF Init
<1>2. Flags /\ [Next]_vars => Flags'
  BY DEF Next, Carry, attach, lookup, enqueue, count, Serve, Shutdown, ServeStops, Send, vars
<1> QED
  BY <1>1, <1>2, PTL DEF Spec

\* Every variable stays in its range: a channel never holds more than its
\* capacity, whatever the endpoints send.
THEOREM TypeCorrect == Spec => []TypeOK
<1>1. Inv /\ Counters /\ closed \in [Port -> BOOLEAN] /\ stopped \in [Port -> BOOLEAN] => TypeOK
  <2> SUFFICES ASSUME Inv, Counters, closed \in [Port -> BOOLEAN] /\ stopped \in [Port -> BOOLEAN]
               PROVE  TypeOK
    OBVIOUS
  <2>1. sends \in [Port -> 0..MaxSends] /\ buffer \in [Port -> 0..MaxSends]
    BY ConstantsAssumption DEF Inv, Shapes, Buffers, Counters
  <2>2. dropped \in Nat
    BY DEF Counters
  <2> QED
    BY <2>1, <2>2 DEF Inv, Shapes, Counters, TypeOK
<1> QED
  BY <1>1, InvIsInvariant, CountersAreInvariant, FlagsAreInvariant, PTL

-----------------------------------------------------------------------------
(* The balance of the counters: sums and sets that a step changes by one.  *)

\* A sum over finitely many ports exists, and the things counted are finite.
LEMMA CountedIsFinite ==
  ASSUME NEW f \in [Port -> Nat]
  PROVE  IsFiniteSet(Counted(f)) /\ Total(f) \in Nat
<1> DEFINE of(p) == {p} \X (1..f[p])
           T == {of(p) : p \in Port}
           g == [p \in Port |-> of(p)]
<1>1. IsFiniteSet(Port)
  BY ConstantsAssumption
<1>2. g \in Surjection(Port, T)
  BY DEF Surjection
<1>3. IsFiniteSet(T)
  BY <1>1, <1>2, FS_Surjection
<1>4. ASSUME NEW p \in Port PROVE IsFiniteSet(of(p))
  <2>1. IsFiniteSet({p})
    BY FS_Singleton
  <2>2. f[p] \in Int /\ 1 \in Int
    OBVIOUS
  <2>3. IsFiniteSet(1..f[p])
    BY <2>2, FS_Interval
  <2> QED
    BY <2>1, <2>3, FS_Product
<1>5. IsFiniteSet(UNION T)
  BY <1>3, <1>4, FS_UNION
<1>6. IsFiniteSet(Counted(f))
  BY <1>5 DEF Counted
<1> QED
  BY <1>6, FS_CardinalityType DEF Total

LEMMA TotalUp ==
  ASSUME NEW f \in [Port -> Nat], NEW p \in Port
  PROVE  Total([f EXCEPT ![p] = f[p] + 1]) = Total(f) + 1
<1> DEFINE g == [f EXCEPT ![p] = f[p] + 1]
           x == <<p, f[p] + 1>>
<1>1. ASSUME NEW y PROVE y \in Counted(f) <=> \E q \in Port : \E k \in 1..f[q] : y = <<q, k>>
  BY DEF Counted
<1>2. ASSUME NEW y PROVE y \in Counted(g) <=> \E q \in Port : \E k \in 1..g[q] : y = <<q, k>>
  BY DEF Counted
<1>3. g[p] = f[p] + 1 /\ \A q \in Port : q # p => g[q] = f[q]
  OBVIOUS
<1>4. \A k : k \in 1..(f[p] + 1) <=> k \in 1..f[p] \/ k = f[p] + 1
  OBVIOUS
<1> HIDE DEF g
<1>5. ASSUME NEW y PROVE y \in Counted(g) <=> y \in Counted(f) \/ y = x
  BY <1>1, <1>2, <1>3, <1>4
<1>6. Counted(g) = Counted(f) \cup {x}
  BY <1>5
<1>7. x \notin Counted(f)
  <2>1. f[p] + 1 \notin 1..f[p]
    OBVIOUS
  <2> QED
    BY <1>1, <2>1
<1>8. Cardinality(Counted(f) \cup {x}) = Cardinality(Counted(f)) + 1
  BY <1>7, CountedIsFinite, FS_AddElement
<1> QED
  BY <1>6, <1>8 DEF g, Total

LEMMA TotalDown ==
  ASSUME NEW f \in [Port -> Nat], NEW p \in Port, f[p] > 0
  PROVE  Total([f EXCEPT ![p] = f[p] - 1]) = Total(f) - 1
<1> DEFINE g == [f EXCEPT ![p] = f[p] - 1]
<1>0. f[p] \in Nat /\ f[p] - 1 \in Nat /\ (f[p] - 1) + 1 = f[p]
  OBVIOUS
<1>1. g \in [Port -> Nat] /\ f = [g EXCEPT ![p] = g[p] + 1]
  <2>1. g \in [Port -> Nat] /\ g[p] = f[p] - 1
    BY <1>0
  <2>2. ASSUME NEW q \in Port PROVE f[q] = [g EXCEPT ![p] = g[p] + 1][q]
    BY <1>0, <2>1
  <2>3. [g EXCEPT ![p] = g[p] + 1] = [q \in Port |-> [g EXCEPT ![p] = g[p] + 1][q]]
    BY <2>1
  <2>4. f = [q \in Port |-> f[q]]
    OBVIOUS
  <2> HIDE DEF g
  <2> QED
    BY <2>1, <2>2, <2>3, <2>4
<1> HIDE DEF g
<1>2. Total(f) = Total(g) + 1 /\ Total(g) \in Nat
  BY <1>1, TotalUp, CountedIsFinite
<1> QED
  BY <1>2 DEF g

Busy == {p \in Port : sending[p] # Idle}
Counting == {p \in Port : sending[p].at = "count"}
Held == [p \in Port |-> Len(queue[p]) + Len(received[p])]

Calls == {Idle} \cup [at : {"lookup", "enqueue", "count"}, to : Port]

\* A call of bus.send that moves on is one call more or less of its kind.
LEMMA CallsMoveOn ==
  ASSUME Shapes, NEW p \in Port, NEW s \in Calls, sending' = [sending EXCEPT ![p] = s]
  PROVE  /\ Cardinality(Busy) \in Nat /\ Cardinality(Counting) \in Nat
         /\ sending[p] = Idle /\ s # Idle => Cardinality(Busy') = Cardinality(Busy) + 1
         /\ sending[p] # Idle /\ s # Idle => Busy' = Busy
         /\ sending[p] # Idle /\ s = Idle => Cardinality(Busy') = Cardinality(Busy) - 1
         /\ sending[p].at # "count" /\ s.at = "count" => Cardinality(Counting') = Cardinality(Counting) + 1
         /\ sending[p].at # "count" /\ s.at # "count" => Counting' = Counting
         /\ sending[p].at = "count" /\ s.at # "count" => Cardinality(Counting') = Cardinality(Counting) - 1
<1>1. IsFiniteSet(Port)
  BY ConstantsAssumption
<1>2. Busy \in SUBSET Port /\ Counting \in SUBSET Port
  BY DEF Busy, Counting
<1>3. IsFiniteSet(Busy) /\ IsFiniteSet(Counting)
  BY <1>1, <1>2, FS_Subset
<1>4. Cardinality(Busy) \in Nat /\ Cardinality(Counting) \in Nat
  BY <1>3, FS_CardinalityType
<1>5. ASSUME NEW q \in Port PROVE sending'[q] = IF q = p THEN s ELSE sending[q]
  BY DEF Shapes
<1>6. Busy' = IF s # Idle THEN Busy \cup {p} ELSE Busy \ {p}
  <2>1. \A q : q \in Busy' <=> q \in Port /\ sending'[q] # Idle
    BY DEF Busy
  <2>2. \A q : q \in Busy <=> q \in Port /\ sending[q] # Idle
    BY DEF Busy
  <2>3. CASE s # Idle
    BY <1>5, <2>1, <2>2, <2>3
  <2>4. CASE s = Idle
    BY <1>5, <2>1, <2>2, <2>4
  <2> QED
    BY <2>3, <2>4
<1>7. Counting' = IF s.at = "count" THEN Counting \cup {p} ELSE Counting \ {p}
  <2>1. \A q : q \in Counting' <=> q \in Port /\ sending'[q].at = "count"
    BY DEF Counting
  <2>2. \A q : q \in Counting <=> q \in Port /\ sending[q].at = "count"
    BY DEF Counting
  <2>3. CASE s.at = "count"
    BY <1>5, <2>1, <2>2, <2>3
  <2>4. CASE s.at # "count"
    BY <1>5, <2>1, <2>2, <2>4
  <2> QED
    BY <2>3, <2>4
<1>8. /\ p \in Busy <=> sending[p] # Idle
      /\ p \in Counting <=> sending[p].at = "count"
  BY DEF Busy, Counting
<1>9. ASSUME NEW A, IsFiniteSet(A)
      PROVE  /\ p \notin A => Cardinality(A \cup {p}) = Cardinality(A) + 1
             /\ p \in A => A \cup {p} = A
             /\ p \in A => Cardinality(A \ {p}) = Cardinality(A) - 1
             /\ p \notin A => A \ {p} = A
  BY <1>9, FS_AddElement, FS_RemoveElement
<1>10. /\ p \notin Busy => Cardinality(Busy \cup {p}) = Cardinality(Busy) + 1
       /\ p \in Busy => Busy \cup {p} = Busy
       /\ p \in Busy => Cardinality(Busy \ {p}) = Cardinality(Busy) - 1
  BY <1>3, <1>9
<1>11. /\ p \notin Counting => Cardinality(Counting \cup {p}) = Cardinality(Counting) + 1
       /\ p \in Counting => Cardinality(Counting \ {p}) = Cardinality(Counting) - 1
       /\ p \notin Counting => Counting \ {p} = Counting
  BY <1>3, <1>9
<1> QED
  BY <1>4, <1>6, <1>7, <1>8, <1>10, <1>11

\* Stated of numbers, since the solver reads no arithmetic into Len.
LEMMA Sums ==
  \A m, n \in Nat : /\ m + n \in Nat
                    /\ (m + 1) + n = (m + n) + 1
                    /\ (m - 1) + n = (m + n) - 1
                    /\ (m - 1) + (n + 1) = m + n
                    /\ m > 0 => m + n > 0
OBVIOUS

\* The parts of Accounted that sum.
Balance ==
  /\ Total(sends) = Total(delivered) + refused + Cardinality(Busy)
  /\ Total(delivered) + Cardinality(Counting) = Total(Held) + overflow

LEMMA BalanceIsKept ==
  ASSUME Inv, Counters, Balance, NEW p \in Port,
         \/ attach(p) \/ Carry(p) \/ Serve(p) \/ Shutdown(p) \/ ServeStops(p)
         \/ \E to \in Port \ {p} : Send(p, to)
  PROVE  Balance'
<1>0. /\ Shapes
      /\ sends \in [Port -> Nat] /\ delivered \in [Port -> Nat]
      /\ sending[p] \in Calls
      /\ \A q \in Port : /\ queue[q] \in Seq(Carried) /\ Len(queue[q]) \in Nat
                         /\ received[q] \in Seq(Handed) /\ Len(received[q]) \in Nat
  BY LenProperties DEF Inv, Shapes, Counters, Calls
<1>1. Held \in [Port -> Nat]
  <2>1. ASSUME NEW q \in Port PROVE Len(queue[q]) + Len(received[q]) \in Nat
    BY <1>0, Sums
  <2> QED
    BY <2>1 DEF Held
<1>2. /\ Total(sends) \in Nat /\ Total(delivered) \in Nat /\ Total(Held) \in Nat
      /\ refused \in Nat /\ overflow \in Nat
      /\ Cardinality(Busy) \in Nat /\ Cardinality(Counting) \in Nat
  <2>1. Busy \in SUBSET Port /\ Counting \in SUBSET Port
    BY DEF Busy, Counting
  <2>2. Cardinality(Busy) \in Nat /\ Cardinality(Counting) \in Nat
    BY <2>1, ConstantsAssumption, FS_Subset, FS_CardinalityType
  <2> QED
    BY <1>0, <1>1, <2>2, CountedIsFinite DEF Counters
<1>3. CASE attach(p) \/ Shutdown(p) \/ ServeStops(p)
  <2>1. UNCHANGED <<sends, delivered, refused, overflow, sending, queue, received>>
    BY <1>3 DEF attach, Shutdown, ServeStops
  <2>2. Busy' = Busy /\ Counting' = Counting /\ Held' = Held
    BY <2>1 DEF Busy, Counting, Held
  <2> QED
    BY <2>1, <2>2 DEF Balance
<1>4. CASE \E to \in Port \ {p} : Send(p, to)
  <2>1. PICK to \in Port \ {p} : Send(p, to)
    BY <1>4
  <2> DEFINE s == [at |-> "lookup", to |-> to]
  <2>2. /\ sending[p] = Idle /\ sends' = [sends EXCEPT ![p] = sends[p] + 1]
        /\ sending' = [sending EXCEPT ![p] = s]
        /\ UNCHANGED <<delivered, refused, overflow, queue, received>>
    BY <2>1 DEF Send
  <2>3. s \in Calls /\ s # Idle /\ s.at = "lookup" /\ Idle.at = "idle"
    BY DEF Calls, Idle
  <2> HIDE DEF s
  <2>4. Cardinality(Busy') = Cardinality(Busy) + 1 /\ Counting' = Counting
    BY <1>0, <2>2, <2>3, CallsMoveOn
  <2>5. Total(sends') = Total(sends) + 1
    BY <1>0, <2>2, TotalUp
  <2>6. Held' = Held
    BY <2>2 DEF Held
  <2> QED
    BY <1>2, <2>2, <2>4, <2>5, <2>6 DEF Balance
<1>5. CASE lookup(p)
  <2>1. sending[p].at = "lookup" /\ sending[p] # Idle /\ Idle \in Calls /\ Idle.at = "idle"
    BY <1>5 DEF lookup, Idle, Calls
  <2>2. UNCHANGED <<sends, delivered, overflow, queue, received>>
    BY <1>5 DEF lookup
  <2>3. Held' = Held
    BY <2>2 DEF Held
  <2>4. CASE sending[p].to \in attached
    <3> DEFINE s == [at |-> "enqueue", to |-> sending[p].to]
    <3>1. s \in Calls /\ s # Idle /\ s.at = "enqueue"
      BY <1>0, <2>1, Destination DEF Calls, Idle
    <3>2. [sending EXCEPT ![p].at = "enqueue"] = [sending EXCEPT ![p] = s]
      <4>1. [sending[p] EXCEPT !.at = "enqueue"] = s
        BY <1>0, <2>1 DEF Calls
      <4> QED
        BY <4>1
    <3>3. sending' = [sending EXCEPT ![p] = s] /\ refused' = refused
      BY <1>5, <2>4, <3>2 DEF lookup
    <3> HIDE DEF s
    <3>4. Busy' = Busy /\ Counting' = Counting
      BY <1>0, <2>1, <3>1, <3>3, CallsMoveOn
    <3> QED
      BY <2>2, <2>3, <3>3, <3>4 DEF Balance
  <2>5. CASE sending[p].to \notin attached
    <3>1. sending' = [sending EXCEPT ![p] = Idle] /\ refused' = refused + 1
      BY <1>5, <2>5 DEF lookup, drop
    <3>2. Cardinality(Busy') = Cardinality(Busy) - 1 /\ Counting' = Counting
      BY <1>0, <2>1, <3>1, CallsMoveOn
    <3> QED
      BY <1>2, <2>2, <2>3, <3>1, <3>2 DEF Balance
  <2> QED
    BY <2>4, <2>5
<1>6. CASE enqueue(p)
  <2>1. PICK to \in Port :
          /\ sending[p].at = "enqueue"
          /\ \/ /\ queue' = [queue EXCEPT ![to] = Append(queue[to], datagram(p))]
                /\ sending' = [sending EXCEPT ![p] = [at |-> "count", to |-> to]]
             \/ queue' = queue /\ sending' = [sending EXCEPT ![p] = Idle]
          /\ datagram(p) \in Carried
          /\ UNCHANGED <<sends, received>>
    BY <1>0, <1>6, Enqueued
  <2>2. UNCHANGED <<delivered, overflow>>
    BY <1>6 DEF enqueue
  <2>3. sending[p] # Idle /\ Idle \in Calls /\ Idle.at = "idle"
    BY <2>1 DEF Idle, Calls
  <2>4. CASE sending'[p].at = "count"
    <3> DEFINE s == [at |-> "count", to |-> to]
    <3>1. s \in Calls /\ s # Idle /\ s.at = "count"
      BY DEF Calls, Idle
    <3>2. /\ queue' = [queue EXCEPT ![to] = Append(queue[to], datagram(p))]
          /\ sending' = [sending EXCEPT ![p] = s]
      BY <1>0, <2>1, <2>3, <2>4 DEF Shapes
    <3>3. refused' = refused
      BY <1>0, <1>6, <2>3, <2>4 DEF enqueue, drop, Shapes
    <3> HIDE DEF s
    <3>4. Busy' = Busy /\ Cardinality(Counting') = Cardinality(Counting) + 1
      BY <1>0, <2>1, <2>3, <3>1, <3>2, CallsMoveOn
    <3>5. Held' = [Held EXCEPT ![to] = Held[to] + 1]
      <4>1. Len(Append(queue[to], datagram(p))) = Len(queue[to]) + 1
        BY <1>0, <2>1, AppendProperties
      <4>2. ASSUME NEW q \in Port
            PROVE  Len(queue'[q]) + Len(received'[q]) = [Held EXCEPT ![to] = Held[to] + 1][q]
        <5>1. /\ Held[q] = Len(queue[q]) + Len(received[q]) /\ Held[q] \in Nat
              /\ received'[q] = received[q]
          BY <1>1, <2>1 DEF Held
        <5>2. CASE q = to
          <6>1. queue'[q] = Append(queue[to], datagram(p)) /\ [Held EXCEPT ![to] = Held[to] + 1][q] = Held[q] + 1
            BY <1>0, <1>1, <3>2, <5>2 DEF Shapes
          <6> QED
            <7>1. (Len(queue[to]) + 1) + Len(received[to]) = (Len(queue[to]) + Len(received[to])) + 1
              BY <1>0, Sums
            <7> QED
              BY <4>1, <5>1, <5>2, <6>1, <7>1
        <5>3. CASE q # to
          <6>1. queue'[q] = queue[q] /\ [Held EXCEPT ![to] = Held[to] + 1][q] = Held[q]
            BY <1>0, <1>1, <3>2, <5>3 DEF Shapes
          <6> QED
            BY <5>1, <6>1
        <5> QED
          BY <5>2, <5>3
      <4>3. [Held EXCEPT ![to] = Held[to] + 1] = [q \in Port |-> [Held EXCEPT ![to] = Held[to] + 1][q]]
        BY <1>1
      <4> QED
        BY <4>2, <4>3 DEF Held
    <3>6. Total(Held') = Total(Held) + 1
      BY <1>1, <3>5, TotalUp
    <3> QED
      BY <1>2, <2>1, <2>2, <3>3, <3>4, <3>6 DEF Balance
  <2>5. CASE sending'[p].at # "count"
    <3>1. queue' = queue /\ sending' = [sending EXCEPT ![p] = Idle]
      BY <1>0, <2>1, <2>5 DEF Shapes
    <3>2. refused' = refused + 1
      <4>1. [sending EXCEPT ![p].at = "count"][p].at = "count"
        BY <1>0, <2>1, <2>3 DEF Calls, Shapes
      <4> QED
        BY <1>6, <2>5, <4>1 DEF enqueue, drop
    <3>3. Held' = Held
      BY <2>1, <3>1 DEF Held
    <3>4. Cardinality(Busy') = Cardinality(Busy) - 1 /\ Counting' = Counting
      BY <1>0, <2>1, <2>3, <3>1, CallsMoveOn
    <3> QED
      BY <1>2, <2>1, <2>2, <3>2, <3>3, <3>4 DEF Balance
  <2> QED
    BY <2>4, <2>5
<1>7. CASE count(p)
  <2>1. /\ sending[p].at = "count" /\ sending[p] # Idle /\ Idle \in Calls /\ Idle.at = "idle"
        /\ sending[p].to \in Port
    BY <1>0, <1>7, Destination DEF count, Idle, Calls
  <2>2. /\ delivered' = [delivered EXCEPT ![sending[p].to] = delivered[sending[p].to] + 1]
        /\ sending' = [sending EXCEPT ![p] = Idle]
        /\ UNCHANGED <<sends, refused, overflow, queue, received>>
    BY <1>7 DEF count
  <2>3. Total(delivered') = Total(delivered) + 1
    BY <1>0, <2>1, <2>2, TotalUp
  <2>4. /\ Cardinality(Busy') = Cardinality(Busy) - 1
        /\ Cardinality(Counting') = Cardinality(Counting) - 1
    BY <1>0, <2>1, <2>2, CallsMoveOn
  <2>5. Held' = Held
    BY <2>2 DEF Held
  <2> QED
    BY <1>2, <2>2, <2>3, <2>4, <2>5 DEF Balance
<1>8. CASE Serve(p)
  <2>1. /\ queue[p] \in Seq(Carried) /\ queue[p] # <<>>
        /\ queue' = [queue EXCEPT ![p] = Tail(queue[p])]
        /\ UNCHANGED <<sends, sending>>
    BY <1>0, <1>8, Served
  <2>2. UNCHANGED <<delivered, refused>>
    BY <1>8 DEF Serve
  <2>3. Busy' = Busy /\ Counting' = Counting
    BY <2>1 DEF Busy, Counting
  <2>4. Len(Tail(queue[p])) = Len(queue[p]) - 1 /\ Len(queue[p]) > 0
    BY <1>0, <2>1, HeadTailProperties, LenProperties
  <2>5. ASSUME NEW q \in Port PROVE Held[q] = Len(queue[q]) + Len(received[q])
    BY DEF Held
  <2>6. ASSUME NEW q \in Port, q # p PROVE queue'[q] = queue[q]
    BY <2>1, <2>6
  <2>7. queue'[p] = Tail(queue[p])
    BY <1>0, <2>1 DEF Shapes
  <2>8. CASE received' # received
    <3>1. PICK d \in Handed : received' = [received EXCEPT ![p] = Append(received[p], d)]
      BY <1>0, <1>8, <2>8, Served
    <3>2. overflow' = overflow
      BY <1>8, <2>8 DEF Serve
    <3>3. Len(Append(received[p], d)) = Len(received[p]) + 1
      BY <1>0, <3>1, AppendProperties
    <3>4. received'[p] = Append(received[p], d) /\ \A q \in Port : q # p => received'[q] = received[q]
      BY <1>0, <3>1 DEF Shapes
    <3>5. ASSUME NEW q \in Port PROVE Len(queue'[q]) + Len(received'[q]) = Len(queue[q]) + Len(received[q])
      <4>1. CASE q = p
        <5>1. (Len(queue[p]) - 1) + (Len(received[p]) + 1) = Len(queue[p]) + Len(received[p])
          BY <1>0, Sums
        <5> QED
          BY <2>4, <2>7, <3>3, <3>4, <4>1, <5>1
      <4>2. CASE q # p
        BY <2>6, <3>4, <4>2
      <4> QED
        BY <4>1, <4>2
    <3>6. Held' = Held
      BY <3>5 DEF Held
    <3> QED
      BY <2>1, <2>2, <2>3, <3>2, <3>6 DEF Balance
  <2>9. CASE received' = received
    <3>1. overflow' = overflow + 1
      <4>1. Append(received[p], [from |-> Head(queue[p]).from, data |-> Bytes(Head(queue[p]))]) # received[p]
        BY <1>0, AppendProperties
      <4> QED
        BY <1>0, <1>8, <2>9, <4>1 DEF Serve, Shapes
    <3>2. Held[p] > 0
      BY <1>0, <2>4, <2>5, Sums
    <3>3. Held' = [Held EXCEPT ![p] = Held[p] - 1]
      <4>1. ASSUME NEW q \in Port
            PROVE  Len(queue'[q]) + Len(received'[q]) = [Held EXCEPT ![p] = Held[p] - 1][q]
        <5>1. CASE q = p
          <6>1. [Held EXCEPT ![p] = Held[p] - 1][q] = Held[p] - 1
            BY <1>1, <5>1
          <6> QED
            <7>1. (Len(queue[p]) - 1) + Len(received[p]) = (Len(queue[p]) + Len(received[p])) - 1
              BY <1>0, Sums
            <7> QED
              BY <2>4, <2>5, <2>7, <2>9, <5>1, <6>1, <7>1
        <5>2. CASE q # p
          <6>1. [Held EXCEPT ![p] = Held[p] - 1][q] = Held[q]
            BY <1>1, <5>2
          <6> QED
            BY <2>5, <2>6, <2>9, <5>2, <6>1
        <5> QED
          BY <5>1, <5>2
      <4>2. [Held EXCEPT ![p] = Held[p] - 1] = [q \in Port |-> [Held EXCEPT ![p] = Held[p] - 1][q]]
        BY <1>1
      <4> QED
        BY <4>1, <4>2 DEF Held
    <3>4. Total(Held') = Total(Held) - 1
      BY <1>1, <3>2, <3>3, TotalDown
    <3> QED
      BY <1>2, <2>1, <2>2, <2>3, <3>1, <3>4 DEF Balance
  <2> QED
    BY <2>8, <2>9
<1> QED
  BY <1>3, <1>4, <1>5, <1>6, <1>7, <1>8 DEF Carry

LEMMA BalanceIsInvariant == Spec => []Balance
<1>1. Init => Balance
  <2> SUFFICES ASSUME Init PROVE Balance
    OBVIOUS
  <2> DEFINE zero == [p \in Port |-> 0]
  <2>1. zero \in [Port -> Nat] /\ Counted(zero) = {}
    <3>1. ASSUME NEW y \in Counted(zero) PROVE FALSE
      <4>1. PICK p \in Port : y \in {p} \X (1..zero[p])
        BY DEF Counted
      <4>2. 1..zero[p] = {}
        OBVIOUS
      <4> QED
        BY <4>1, <4>2
    <3> QED
      BY <3>1
  <2>2. Total(zero) = 0
    BY <2>1, FS_EmptySet DEF Total
  <2>3. Busy = {} /\ Counting = {}
    BY DEF Init, Busy, Counting, Idle
  <2>4. Held = zero
    <3>1. Len(<<>>) + Len(<<>>) = 0
      OBVIOUS
    <3>2. ASSUME NEW p \in Port PROVE Len(queue[p]) + Len(received[p]) = 0
      BY <3>1 DEF Init
    <3> QED
      BY <3>2 DEF Held
  <2>5. sends = zero /\ delivered = zero /\ refused = 0 /\ overflow = 0
    BY DEF Init
  <2> QED
    BY <2>2, <2>3, <2>4, <2>5, FS_EmptySet DEF Balance
<1>2. Inv /\ Counters /\ Balance /\ [Next]_vars => Balance'
  <2>1. ASSUME Balance, UNCHANGED vars PROVE Balance'
    BY <2>1 DEF vars, Balance, Busy, Counting, Held
  <2> QED
    BY <2>1, BalanceIsKept DEF Next
<1> QED
  BY <1>1, <1>2, InvIsInvariant, CountersAreInvariant, PTL DEF Spec

\* No datagram is lost without being counted: whatever the channels and the
\* endpoints drop and however sends and counts interleave, each Send that
\* returned is delivered or dropped, and what is delivered is waiting, received
\* or refused by its endpoint.
THEOREM EveryDatagramIsCounted == Spec => []Accounted
<1>1. Balance /\ Counters => Accounted
  BY DEF Balance, Counters, Accounted, Busy, Counting, Held
<1> QED
  BY <1>1, BalanceIsInvariant, CountersAreInvariant, PTL
=============================================================================
