------------------------------ MODULE Exchange ------------------------------
(***************************************************************************)
(* The examples of module ExamplePrograms run: goroutines of one process    *)
(* that share connections, streams, datagrams and channels.                 *)
(*                                                                         *)
(* What the calls mean is taken from how the examples use the iroh library  *)
(* and from Go's channels: a call on a connection whose end is closed       *)
(* fails; closing a connection, or shutting its endpoint down, discards      *)
(* what the peer has not read by the time the close reaches it; a router's   *)
(* shutdown ends its handlers' context and not the endpoint; a stream exists for the peer once something   *)
(* was written to it; a call that takes the context fails once the context  *)
(* is done, and a read or a plain channel receive does not look at it.      *)
(*                                                                         *)
(* Nothing is stopped but by a call of the program: what run() does not      *)
(* close or shut down, explicitly or by a deferred call, stays after it has *)
(* returned.                                                                *)
(*                                                                         *)
(* The world is chosen at the start: nothing goes wrong ("calm"), the       *)
(* network may go down at any moment ("broken"), or the deadline of run()   *)
(* passes, or its signal comes, at any moment and datagrams get lost         *)
(* ("late").                                                                *)
(***************************************************************************)
EXTENDS ExamplePrograms, Naturals, FiniteSets

VARIABLES
    program,   \* the example being run
    world,     \* "calm", "broken" (then "down") or "late"
    status,    \* per goroutine: idle, running, leaving or failing (deferred calls), nil, err
    pc,        \* the call of its body a goroutine is at (0 when it is not in its body)
    deferred,  \* the calls it has deferred, last one first
    conn,      \* per connection: dialled, accepted, answered, the ends that see it closed, why
    pipe,      \* per connection, stream and writing end: messages sent and got, finished
    dgram,     \* per connection and sending end: datagrams sent, in flight and got
    chan,      \* per channel: what is buffered, and whether it is closed
    off,       \* the contexts, endpoints, routers and listeners that were stopped
    expired    \* the deadline of run()'s context has passed

vars == << program, world, status, pc, deferred, conn, pipe, dgram, chan, off, expired >>
net  == << conn, pipe, dgram >>

Conns    == 1..3
StreamNo == 1..3
Ends     == {"client", "server"}
Peer(e)  == CHOOSE f \in Ends : f # e

Threads  == DOMAIN Programs[program].threads
ThreadOf(t) == Programs[program].threads[t]
End(t)   == ThreadOf(t).end

Ended    == {"nil", "err"}
Returned == status["main"] \in Ended

(* ctx is done: it was cancelled, or its deadline passed.                    *)
CtxDone(t) == ThreadOf(t).ctx \in off \/ (expired /\ ThreadOf(t).ctx = "run")

(* The endpoint a call would dial from or accept on was shut down.           *)
EndpointDown(t) == End(t) \in off /\ ThreadOf(t).ctx # "listener"

(* The calls that a done context, or a deadline on the stream, fails.        *)
Timed == {"bind", "connect", "accept", "handshake", "open", "acceptStream", "readDatagram",
          "select", "awaitCloseBy", "readBy", "readAllBy", "outside", "waitPath",
          "untilDone"}

(* The calls that need an open connection.  (Closing a stream of a closed     *)
(* connection is not an error.)                                              *)
OnConn == {"handshake", "answer", "open", "acceptStream", "write", "read", "readBy", "readAll",
           "readAllBy", "sendDatagram", "readDatagram", "waitPath"}

Running(t) == status[t] \in {"running", "leaving", "failing"}
InBody(t)  == status[t] = "running"
AtEnd(t)   == IF InBody(t) THEN pc[t] > Len(ThreadOf(t).body) ELSE deferred[t] = <<>>
Now(t)     == IF InBody(t) THEN ThreadOf(t).body[pc[t]] ELSE Head(deferred[t])
At(t, ops) == Running(t) /\ ~AtEnd(t) /\ Now(t).op \in ops

(* k is the call that t makes next.                                          *)
Usable(t, k)   == ~(k.op \in OnConn /\ End(t) \in conn[k.c].closed)
Incoming(t, k) == pipe[k.c][k.x][Peer(End(t))]
Outgoing(t, k) == pipe[k.c][k.x][End(t)]

Init ==
    /\ program \in DOMAIN Programs
    /\ world \in {"calm", "broken", "late"}
    /\ status   = [t \in Threads |-> IF t = "main" THEN "running" ELSE "idle"]
    /\ pc       = [t \in Threads |-> IF t = "main" THEN 1 ELSE 0]
    /\ deferred = [t \in Threads |-> <<>>]
    /\ conn  = [c \in Conns |-> [dialled |-> FALSE, accepted |-> FALSE, answered |-> FALSE,
                                 closed |-> {}, cause |-> None]]
    /\ pipe  = [c \in Conns |-> [s \in StreamNo |->
                   [e \in Ends |-> [sent |-> 0, got |-> 0, fin |-> FALSE]]]]
    /\ dgram = [c \in Conns |-> [e \in Ends |-> [sent |-> 0, flight |-> 0, got |-> 0]]]
    /\ chan  = [ch \in DOMAIN Programs[program].cap |-> [buf |-> <<>>, closed |-> FALSE]]
    /\ off = {} /\ expired = FALSE

----------------------------------------------------------------------------
(* The call succeeds: go on to the next one.                                 *)
Advance(t, k) ==
    IF InBody(t)
      THEN /\ pc' = [pc EXCEPT ![t] = @ + 1]
           /\ deferred' = [deferred EXCEPT ![t] = k.defers \o @]
      ELSE /\ deferred' = [deferred EXCEPT ![t] = Tail(@)]
           /\ UNCHANGED pc

Continues(t, k) == Advance(t, k) /\ UNCHANGED << program, world, status, expired >>
Proceeds(t, k)  == Continues(t, k) /\ UNCHANGED off

(* context.WithTimeout, Bind, NewRouter, NewStreamListener.                   *)
DoStart(t, k) ==
    /\ k.op \in {"start", "bind"}
    /\ Proceeds(t, k) /\ UNCHANGED << net, chan >>

(* The context is cancelled, the router or the listener closed; an endpoint  *)
(* takes its end of every connection with it.                                *)
DoStop(t, k) ==
    /\ k.op = "stop"
    /\ off' = off \cup {k.x}
    /\ conn' = [c \in Conns |->
                  IF k.x \in Ends /\ conn[c].dialled
                    THEN [conn[c] EXCEPT !.cause = IF @ = None THEN "app" ELSE @,
                                         !.closed = @ \cup {k.x}]
                    ELSE conn[c]]
    /\ Continues(t, k) /\ UNCHANGED << pipe, dgram, chan >>

DoConnect(t, k) ==
    /\ k.op = "connect" /\ world # "down" /\ ~EndpointDown(t)
    /\ conn' = [conn EXCEPT ![k.c].dialled = TRUE]
    /\ Proceeds(t, k) /\ UNCHANGED << pipe, dgram, chan >>

DoAccept(t, k) ==
    /\ k.op = "accept" /\ conn[k.c].dialled /\ ~EndpointDown(t)
    /\ conn' = [conn EXCEPT ![k.c].accepted = TRUE]
    /\ Proceeds(t, k) /\ UNCHANGED << pipe, dgram, chan >>

DoAnswer(t, k) ==
    /\ k.op = "answer" /\ Usable(t, k)
    /\ conn' = [conn EXCEPT ![k.c].answered = TRUE]
    /\ Proceeds(t, k) /\ UNCHANGED << pipe, dgram, chan >>

DoHandshake(t, k) ==
    /\ k.op = "handshake" /\ Usable(t, k) /\ conn[k.c].answered
    /\ Proceeds(t, k) /\ UNCHANGED << net, chan >>

DoOpen(t, k) ==
    /\ k.op = "open" /\ Usable(t, k)
    /\ Proceeds(t, k) /\ UNCHANGED << net, chan >>

DoAcceptStream(t, k) ==
    /\ k.op = "acceptStream" /\ Usable(t, k)
    /\ Incoming(t, k).sent > 0 \/ Incoming(t, k).fin
    /\ Proceeds(t, k) /\ UNCHANGED << net, chan >>

DoWrite(t, k) ==
    /\ k.op = "write" /\ Usable(t, k) /\ ~Outgoing(t, k).fin
    /\ pipe' = [pipe EXCEPT ![k.c][k.x][End(t)].sent = @ + 1]
    /\ Proceeds(t, k) /\ UNCHANGED << conn, dgram, chan >>

DoFin(t, k) ==
    /\ k.op = "fin"
    /\ pipe' = [pipe EXCEPT ![k.c][k.x][End(t)].fin = TRUE]
    /\ Proceeds(t, k) /\ UNCHANGED << conn, dgram, chan >>

DoRead(t, k) ==
    /\ k.op \in {"read", "readBy"} /\ Usable(t, k)
    /\ Incoming(t, k).got < Incoming(t, k).sent
    /\ pipe' = [pipe EXCEPT ![k.c][k.x][Peer(End(t))].got = @ + 1]
    /\ Proceeds(t, k) /\ UNCHANGED << conn, dgram, chan >>

DoReadAll(t, k) ==
    /\ k.op \in {"readAll", "readAllBy"} /\ Usable(t, k)
    /\ Incoming(t, k).fin
    /\ pipe' = [pipe EXCEPT ![k.c][k.x][Peer(End(t))].got = Incoming(t, k).sent]
    /\ Proceeds(t, k) /\ UNCHANGED << conn, dgram, chan >>

(* A datagram is sent and forgotten; outside the calm world it may be lost.  *)
DoSendDatagram(t, k) ==
    /\ k.op = "sendDatagram" /\ Usable(t, k)
    /\ \E n \in IF world = "late" THEN {0, 1} ELSE {1} :
          dgram' = [dgram EXCEPT ![k.c][End(t)].sent = @ + 1,
                                 ![k.c][End(t)].flight = @ + n]
    /\ Proceeds(t, k) /\ UNCHANGED << conn, pipe, chan >>

DoReadDatagram(t, k) ==
    /\ k.op = "readDatagram" /\ Usable(t, k)
    /\ dgram[k.c][Peer(End(t))].flight > 0
    /\ dgram' = [dgram EXCEPT ![k.c][Peer(End(t))].flight = @ - 1,
                              ![k.c][Peer(End(t))].got = @ + 1]
    /\ Proceeds(t, k) /\ UNCHANGED << conn, pipe, chan >>

DoClose(t, k) ==
    /\ k.op = "close"
    /\ conn' = [conn EXCEPT ![k.c].cause = IF @ = None THEN "app" ELSE @,
                            ![k.c].closed = @ \cup {End(t)}]
    /\ Proceeds(t, k) /\ UNCHANGED << pipe, dgram, chan >>

DoAwaitClose(t, k) ==
    /\ k.op \in {"awaitClose", "awaitCloseBy"}
    /\ End(t) \in conn[k.c].closed
    /\ Proceeds(t, k) /\ UNCHANGED << net, chan >>

DoCause(t, k) ==
    /\ k.op = "cause" /\ conn[k.c].cause = "app"
    /\ Proceeds(t, k) /\ UNCHANGED << net, chan >>

(* The relay, the record or the path is there, sooner or later, as long as   *)
(* there is a network.                                                       *)
DoOutside(t, k) ==
    /\ k.op \in {"outside", "waitPath"} /\ Usable(t, k) /\ world # "down"
    /\ Proceeds(t, k) /\ UNCHANGED << net, chan >>

(* The moment passes without an error, or the time limit does not.           *)
DoWaitAMoment(t, k) ==
    /\ \/ k.op = "lookIn" /\ \A ch \in k.x : chan[ch].buf = <<>>
       \/ k.op = "chance"
    /\ Proceeds(t, k) /\ UNCHANGED << net, chan >>

(* Only bodies start goroutines.                                             *)
DoGo(t, k) ==
    /\ k.op = "go"
    /\ status'   = [status EXCEPT ![k.x] = "running"]
    /\ pc'       = [pc EXCEPT ![t] = @ + 1, ![k.x] = 1]
    /\ deferred' = [deferred EXCEPT ![t] = k.defers \o @]
    /\ UNCHANGED << program, world, expired, off, net, chan >>

(* A buffered channel takes a value while it has room; an unbuffered one     *)
(* when somebody is receiving from it.                                       *)
Room(ch) ==
    \/ Len(chan[ch].buf) < Programs[program].cap[ch]
    \/ /\ chan[ch].buf = <<>>
       /\ \E u \in Threads : At(u, {"recv", "select", "selectBy"}) /\ ch \in Now(u).x

DoSend(t, k) ==
    /\ k.op = "send" /\ Room(k.x)
    /\ chan' = [chan EXCEPT ![k.x].buf = Append(@, "nil")]
    /\ Proceeds(t, k) /\ UNCHANGED net

DoCloseChan(t, k) ==
    /\ k.op = "closeChan"
    /\ chan' = [chan EXCEPT ![k.x].closed = TRUE]
    /\ Proceeds(t, k) /\ UNCHANGED net

(* Receive a value that is not an error, or find the channel closed.         *)
DoRecv(t, k) ==
    /\ k.op \in {"recv", "select", "selectBy"}
    /\ \E ch \in k.x :
          \/ /\ chan[ch].buf # <<>> /\ Head(chan[ch].buf) = "nil"
             /\ chan' = [chan EXCEPT ![ch].buf = Tail(@)]
          \/ /\ chan[ch].buf = <<>> /\ chan[ch].closed
             /\ UNCHANGED chan
    /\ Proceeds(t, k) /\ UNCHANGED net

----------------------------------------------------------------------------
(* What makes the next call fail.                                            *)
ReadsEOF(t, k) ==
    /\ k.op \in {"read", "readBy"}
    /\ Incoming(t, k).fin /\ Incoming(t, k).got = Incoming(t, k).sent

GetsError(t, k) ==
    /\ k.op \in {"recv", "select", "selectBy", "lookIn"}
    /\ \E ch \in k.x : chan[ch].buf # <<>> /\ Head(chan[ch].buf) = "err"

Refused(t, k) ==
    \/ ~Usable(t, k)
    \/ k.op \in Timed /\ CtxDone(t)
    \/ k.op \in {"connect", "untilDone"} /\ world = "down"
    \/ k.op \in {"connect", "accept"} /\ EndpointDown(t)
    \/ k.op \in {"chance", "selectBy"} /\ world # "calm"
    \/ k.op = "cause" /\ conn[k.c].cause # "app"
    \/ k.op = "write" /\ Outgoing(t, k).fin

(* The call fails: a goroutine in its body returns, with the error unless    *)
(* the call is quiet, through undo and what it deferred; one that is already *)
(* executing its deferred calls ignores the error.                           *)
Fail(t, k) ==
    /\ ReadsEOF(t, k) \/ GetsError(t, k) \/ Refused(t, k)
    /\ IF InBody(t)
         THEN /\ status'   = [status EXCEPT ![t] = IF k.quiet THEN "leaving" ELSE "failing"]
              /\ pc'       = [pc EXCEPT ![t] = 0]
              /\ deferred' = [deferred EXCEPT ![t] = k.undo \o @]
         ELSE /\ deferred' = [deferred EXCEPT ![t] = Tail(@)]
              /\ UNCHANGED << status, pc >>
    /\ UNCHANGED << program, world, expired, off, net, chan >>

(* The body is done: return nil through the deferred calls.                  *)
Leave(t) ==
    /\ InBody(t) /\ AtEnd(t)
    /\ status' = [status EXCEPT ![t] = "leaving"]
    /\ pc'     = [pc EXCEPT ![t] = 0]
    /\ UNCHANGED << program, world, deferred, expired, off, net, chan >>

(* A goroutine ends by sending its result where it is wanted.                *)
Finish(t) ==
    /\ t # "main" /\ Running(t) /\ ~InBody(t) /\ AtEnd(t)
    /\ LET result == IF status[t] = "failing" THEN "err" ELSE "nil"
           ch     == IF status[t] = "failing" THEN ThreadOf(t).err ELSE ThreadOf(t).ok
       IN /\ status' = [status EXCEPT ![t] = result]
          /\ \/ ch = None /\ UNCHANGED chan
             \/ ch # None /\ Room(ch) /\ chan' = [chan EXCEPT ![ch].buf = Append(@, result)]
    /\ UNCHANGED << program, world, pc, deferred, expired, off, net >>

(* run() has made its deferred calls and returns.                            *)
ReturnFromRun ==
    /\ Running("main") /\ ~InBody("main") /\ AtEnd("main")
    /\ status' = [status EXCEPT !["main"] = IF @ = "failing" THEN "err" ELSE "nil"]
    /\ UNCHANGED << program, world, pc, deferred, off, expired, net, chan >>

----------------------------------------------------------------------------
(* The close of one end reaches the other.                                   *)
CloseArrives(c) ==
    /\ conn[c].closed \notin {{}, Ends}
    /\ conn' = [conn EXCEPT ![c].closed = Ends]
    /\ UNCHANGED << program, world, status, pc, deferred, pipe, dgram, chan, off, expired >>

(* The network goes down: every connection dies and none can be made.        *)
NetworkLost ==
    /\ world = "broken"
    /\ world' = "down"
    /\ conn' = [c \in Conns |-> IF conn[c].dialled /\ conn[c].closed = {}
                                THEN [conn[c] EXCEPT !.closed = Ends, !.cause = "lost"]
                                ELSE conn[c]]
    /\ UNCHANGED << program, status, pc, deferred, pipe, dgram, chan, off, expired >>

(* The deadline of run()'s context passes: at any time in the late world,    *)
(* otherwise only for a run held up by the loss of the network.              *)
Expire ==
    /\ world \in {"late", "down"} /\ ~expired /\ ~Returned /\ ThreadOf("main").ctx = "run"
    /\ expired' = TRUE
    /\ UNCHANGED << program, world, status, pc, deferred, off, net, chan >>

(* A signal arrives where run() asked to be told of it.                      *)
Interrupt ==
    /\ world \in {"late", "down"} /\ "signal" \notin off /\ ~Returned
    /\ ThreadOf("main").ctx = "signal"
    /\ off' = off \cup {"signal"}
    /\ UNCHANGED << program, world, status, pc, deferred, expired, net, chan >>

Makes(t, k) ==
    \/ DoStart(t, k) \/ DoStop(t, k) \/ DoConnect(t, k) \/ DoAccept(t, k) \/ DoAnswer(t, k)
    \/ DoHandshake(t, k) \/ DoOpen(t, k) \/ DoAcceptStream(t, k) \/ DoWrite(t, k) \/ DoFin(t, k)
    \/ DoRead(t, k) \/ DoReadAll(t, k) \/ DoSendDatagram(t, k) \/ DoReadDatagram(t, k)
    \/ DoClose(t, k) \/ DoAwaitClose(t, k) \/ DoCause(t, k)
    \/ DoOutside(t, k) \/ DoWaitAMoment(t, k)
    \/ DoGo(t, k) \/ DoSend(t, k) \/ DoCloseChan(t, k) \/ DoRecv(t, k)
    \/ Fail(t, k)

Step(t) ==
    \/ Running(t) /\ ~AtEnd(t) /\ \E k \in {Now(t)} : Makes(t, k)
    \/ Leave(t) \/ Finish(t)

Progress ==
    \/ \E t \in Threads : Step(t)
    \/ ReturnFromRun
    \/ \E c \in Conns : CloseArrives(c)
    \/ Expire

Next == Progress \/ NetworkLost \/ Interrupt

(* The goroutines run, closes travel and time passes.  No call is repeated,   *)
(* so every behaviour is finite and fairness of the whole is that of each    *)
(* part.  The network need not go down, and nobody need interrupt.            *)
Spec == Init /\ [][Next]_vars /\ WF_vars(Progress)

----------------------------------------------------------------------------
TypeOK ==
    /\ program \in DOMAIN Programs /\ world \in {"calm", "broken", "down", "late"}
    /\ status \in [Threads -> {"idle", "running", "leaving", "failing", "nil", "err"}]
    /\ pc \in [Threads -> Nat] /\ DOMAIN deferred = Threads
    /\ conn \in [Conns -> [dialled : BOOLEAN, accepted : BOOLEAN, answered : BOOLEAN,
                           closed : SUBSET Ends, cause : {None, "app", "lost"}]]
    /\ \A c \in Conns, s \in StreamNo, e \in Ends : pipe[c][s][e].got <= pipe[c][s][e].sent
    /\ \A c \in Conns, e \in Ends :
          dgram[c][e].flight + dgram[c][e].got <= dgram[c][e].sent
    /\ \A ch \in DOMAIN chan : chan[ch].buf \in Seq({"nil", "err"})
    /\ off \subseteq Ends \cup {"run", "signal", "router", "listener"}
    /\ expired \in BOOLEAN

(* When nothing goes wrong no goroutine of any example, run() included, sees *)
(* an error before run() has done all its work and makes its deferred calls: *)
(* no end closes a connection, a stream or a channel that another goroutine  *)
(* still needs.                                                              *)
NoEarlyFailure ==
    world = "calm" /\ status["main"] \notin {"leaving", "nil"} =>
        \A t \in Threads : status[t] \notin {"failing", "err"}

(* run() returns nil only when every message and every datagram that either  *)
(* end sent has been read by the other, whatever the network did: the reply  *)
(* it prints is whole and the server had the whole request.                  *)
SuccessLosesNothing ==
    status["main"] = "nil" =>
        /\ \A c \in Conns, s \in StreamNo, e \in Ends : pipe[c][s][e].got = pipe[c][s][e].sent
        /\ \A c \in Conns, e \in Ends : dgram[c][e].got = dgram[c][e].sent

(* When nothing goes wrong run() returns nil: the goroutines never wait for  *)
(* one another in a circle.                                                  *)
CalmRunSucceeds == world = "calm" ~> status["main"] = "nil"

(* run() reads from a stream with no deadline, and nobody is left to answer  *)
(* or to close: the server goroutine shared run()'s context, and returned    *)
(* when that expired without closing the connection.                         *)
HungRead ==
    /\ expired /\ At("main", {"read", "readAll"})
    /\ conn[Now("main").c].closed = {}
    /\ \A t \in Threads : End(t) = "server" => ~Running(t) \/ At(t, {"awaitClose"})

(* run() of the graceful shutdown waits for the handler to start under a     *)
(* context that only a signal ends, and the handler is gone: the connection  *)
(* was lost before it had the request.                                       *)
HungWait ==
    /\ world = "down" /\ ThreadOf("main").ctx = "signal" /\ At("main", {"select"})
    /\ ~CtxDone("main") /\ status["handler"] = "err"

(* run() returns when the network goes down, unless that leaves it waiting   *)
(* for a handler that is gone, and when its deadline passes at whatever      *)
(* point, unless that leaves it in a read that nobody will answer.           *)
RunReturns == world \in {"broken", "late"} ~> Returned \/ HungWait \/ HungRead

(* The graceful shutdown gave up before it shut its router and its server    *)
(* down: neither is deferred.                                                *)
Undrained == program = "graceful_shutdown" /\ status["main"] = "err" /\ "server" \notin off

(* Once run() has returned, with or without an error, what it closed, shut   *)
(* down and cancelled on its way out ends every goroutine that it started:   *)
(* none is left in an accept, in a read of an open connection or on a        *)
(* channel nobody serves.  (The listening process of public-endpoint goes    *)
(* on.)                                                                      *)
NoGoroutineLeft ==
    Returned ~>
        Undrained \/ \A t \in Threads : status[t] \in Ended \cup {"idle"}
                                       \/ ThreadOf(t).ctx = "elsewhere"
============================================================================
