-------------------------- MODULE ExamplePrograms --------------------------
(***************************************************************************)
(* The control flow of the client/server examples, one definition per      *)
(* program: for each goroutine the sequence of its blocking or             *)
(* state-changing calls, its deferred calls, and the channels its result   *)
(* goes to.  Module Exchange gives the calls their meaning and runs the     *)
(* goroutines of each program in every order.                              *)
(*                                                                         *)
(* "main" is the goroutine that executes run(); it is the dialling end of   *)
(* every connection, the other goroutines are the accepting end, unless     *)
(* they are made with Caller.  A goroutine starts when another one executes *)
(* Go; the handlers of an iroh.Router start when the router has accepted    *)
(* the connection, which is their first call.                               *)
(*                                                                         *)
(* Connections and streams are numbered, a payload is one message, and a    *)
(* channel carries the nil or non-nil error of its sender.  A thing that    *)
(* has to be stopped has a name: "run" and "signal" are the contexts of      *)
(* run(), "client" and "server" the endpoints, "router" and "listener".      *)
(***************************************************************************)
EXTENDS Sequences

(* A call: its name, the connection it is made on and a stream, a thread or  *)
(* channels.  defers: what is deferred once it has succeeded.  quiet: its    *)
(* failure ends the goroutine without an error.  undo: what the goroutine    *)
(* still does, before its deferred calls, when the call fails.               *)
Call(op, c, x) ==
    [op |-> op, c |-> c, x |-> x, defers |-> <<>>, quiet |-> FALSE, undo |-> <<>>]

Deferring(call, defers) == [call EXCEPT !.defers = defers]
Quiet(call)             == [call EXCEPT !.quiet = TRUE]
OrElse(call, undo)      == [call EXCEPT !.quiet = TRUE, !.undo = undo]

Connect(c)         == Call("connect", c, 0)
Accept(c)          == Call("accept", c, 0)        \* Accept or AcceptIncoming
Answer(c)          == Call("answer", c, 0)        \* Incoming.Accept
Handshake(c)       == Call("handshake", c, 0)     \* wait until it is answered
Open(c, s)         == Call("open", c, s)
AcceptStream(c, s) == Call("acceptStream", c, s)
Write(c, s)        == Call("write", c, s)
Read(c, s)         == Call("read", c, s)          \* one message
ReadBy(c, s)       == Call("readBy", c, s)        \* one message, under a deadline
ReadAll(c, s)      == Call("readAll", c, s)       \* to end of stream
ReadAllBy(c, s)    == Call("readAllBy", c, s)     \* the same under a deadline
Fin(c, s)          == Call("fin", c, s)           \* CloseWrite, or Close of a Stream
SendDatagram(c)    == Call("sendDatagram", c, 0)
ReadDatagram(c)    == Call("readDatagram", c, 0)
Close(c)           == Call("close", c, 0)
AwaitClose(c)      == Call("awaitClose", c, 0)    \* <-conn.Context().Done()
AwaitCloseBy(c)    == Call("awaitCloseBy", c, 0)  \* that or <-ctx.Done()
Cause(c)           == Call("cause", c, 0)         \* AsApplicationError(context.Cause)
Go(t)              == Call("go", 0, t)
Send(ch)           == Call("send", 0, ch)
CloseChan(ch)      == Call("closeChan", 0, ch)
Recv(chs)          == Call("recv", 0, chs)        \* a plain channel receive
Select(chs)        == Call("select", 0, chs)      \* chs or <-ctx.Done()
SelectBy(chs)      == Call("selectBy", 0, chs)    \* chs or a time limit of its own

(* Stop: cancel a context, shut an endpoint or a router down, close a         *)
(* listener.  Start makes one and defers that, Bind does so for an endpoint, *)
(* Dial connects and defers the close of the connection.                     *)
Stop(x)            == Call("stop", 0, x)
Start(x)           == Deferring(Call("start", 0, x), << Stop(x) >>)
Bind(x)            == Deferring(Call("bind", 0, x), << Stop(x) >>)
Dial(c)            == Deferring(Connect(c), << Close(c) >>)

(* Outside waits for somebody who is not one of the goroutines: a relay       *)
(* (Online), a record that was published, a peer that answers a query.       *)
(* WaitPath waits for a snapshot of a connection's paths.  LookIn fails when *)
(* a channel has an error within a moment.  Chance fails when a time limit   *)
(* of its own passes first.  UntilDone lasts as long as the context.         *)
Outside            == Call("outside", 0, 0)
WaitPath(c)        == Call("waitPath", c, 0)
LookIn(chs)        == Call("lookIn", 0, chs)
Chance             == Call("chance", 0, 0)
UntilDone          == Call("untilDone", 0, 0)

(* A goroutine: ok and err are the channels its result goes to, ctx what has  *)
(* to be stopped to end the calls that take a context: run()'s, which also   *)
(* has a deadline, or the router's.  ("elsewhere" is the context of another  *)
(* process.)                                                                 *)
Thread(end, ctx, body, ok, err) ==
    [end |-> end, ctx |-> ctx, body |-> body, ok |-> ok, err |-> err]

None == "none"

Run(body)         == Thread("client", "run", << Start("run") >> \o body, None, None)
Caller(body, ch)  == Thread("client", "run", body, ch, ch)
Serve(body)       == Thread("server", "run", body, None, None)
ServeTo(body, ch) == Thread("server", "run", body, ch, ch)
Handler(body)     == Thread("server", "router", body, None, None)

(* exchange: open a stream, write, half-close, read the reply to EOF.        *)
Ask(c) == << Open(c, 1), Write(c, 1), Fin(c, 1), ReadAll(c, 1) >>

(* echo: accept one stream, read it to EOF, reply, close the stream.         *)
Echo(c) == << AcceptStream(c, 1), ReadAll(c, 1), Write(c, 1), Fin(c, 1) >>

(* run() binds the server, starts its goroutine and binds the client.        *)
Serving(t) == << Bind("server"), Go(t), Bind("client") >>

(* The same with a router, which accepts on an endpoint that is not shut     *)
(* down.                                                                     *)
Routing(t) == << Start("router"), Go(t), Bind("client") >>

(* The body of run() that starts the server, dials, asks and joins it.       *)
AskAndJoin == Serving("server") \o << Dial(1) >> \o Ask(1) \o << Recv({"served"}) >>

Program(threads, cap) == [threads |-> threads, cap |-> cap]
NoChannels == [ch \in {} |-> 0]

----------------------------------------------------------------------------
(* Mutants: the programs with a plausible slip.                              *)
DirectEchoServerCloses == Program(
    [main   |-> Run(AskAndJoin),
     server |-> ServeTo(<< Deferring(Accept(1), << Close(1) >>) >> \o Echo(1), "served")],
    [served |-> 1])

PingNoHalfClose == Program(
    [main        |-> Run(Routing("pingHandler") \o << Dial(1), Open(1, 1), Write(1, 1), ReadAll(1, 1) >>),
     pingHandler |-> Handler(<< Accept(1) >> \o Echo(1))],
    NoChannels)

UniStreamsNoWait == Program(
    [main   |-> Run(Serving("receive") \o << Dial(1),
                       Open(1, 1), Write(1, 1), Fin(1, 1),
                       Open(1, 2), Write(1, 2), Fin(1, 2) >>),
     receive |-> ServeTo(<< Deferring(Accept(1), << Close(1) >>), AcceptStream(1, 1), Read(1, 1),
                            AcceptStream(1, 2), Read(1, 2) >>, "received")],
    [received |-> 1])

DatagramVsStreamNoContext == Program(
    [main |-> Run(Serving("acceptOne") \o << Dial(1), SendDatagram(1),
                     Open(1, 1), Write(1, 1), Fin(1, 1),
                     Recv({"received", "serverErr"}), Recv({"received", "serverErr"}) >>),
     acceptOne |-> Thread("server", "run",
                     << Deferring(Accept(1), << Close(1) >>), Go("readDatagrams"),
                        Quiet(AcceptStream(1, 1)), Go("readStream"), Quiet(AcceptStream(1, 2)) >>,
                     None, "serverErr"),
     readDatagrams |-> Serve(<< Quiet(ReadDatagram(1)), Send("received"),
                                Quiet(ReadDatagram(1)) >>),
     readStream    |-> Serve(<< Deferring(Quiet(ReadAll(1, 1)), << Fin(1, 1) >>),
                                Send("received") >>)],
    [received |-> 4, serverErr |-> 1])

StreamListenerRouterNoClose == Program(
    [main  |-> Run(<< Bind("server"), Start("router"), Go("serve"), Bind("client"),
                      Connect(1), Deferring(Open(1, 1), << Fin(1, 1) >>),
                      Write(1, 1), Read(1, 1), Recv({"done"}) >>),
     serve |-> Thread("server", "listener",
                      << Accept(1), Deferring(AcceptStream(1, 1), << Fin(1, 1) >>),
                         Read(1, 1), Write(1, 1), Send("done") >>, None, "done")],
    [done |-> 1])

----------------------------------------------------------------------------
(* One request answered by a goroutine that run() joins.                     *)
DirectEcho == Program(
    [main   |-> Run(AskAndJoin),
     server |-> ServeTo(<< Accept(1) >> \o Echo(1), "served")],
    [served |-> 1])

(* The hooks run inside Connect.                                             *)
Hooks == Program(
    [main   |-> Run(AskAndJoin),
     server |-> ServeTo(<< Accept(1) >> \o Echo(1), "served")],
    [served |-> 1])

Metrics == Program(
    [main   |-> Run(AskAndJoin),
     server |-> ServeTo(<< Accept(1) >> \o Echo(1), "served")],
    [served |-> 1])

(* acceptOne takes the handshake's stages one by one: the dialler waits for  *)
(* its answer.  It reports what it saw, then echoes; run() reads both.       *)
ManualIncoming == Program(
    [main      |-> Run(Serving("acceptOne") \o << Dial(1), Handshake(1) >> \o Ask(1)
                       \o << Recv({"served"}), Recv({"seen"}) >>),
     acceptOne |-> ServeTo(<< Accept(1), Answer(1), Handshake(1), Send("seen") >> \o Echo(1),
                           "served")],
    [served |-> 1, seen |-> 1])

(* As ManualIncoming, but it reports before it answers.                      *)
SourceValidation == Program(
    [main      |-> Run(Serving("acceptOne") \o << Dial(1), Handshake(1) >> \o Ask(1)
                       \o << Recv({"served"}), Recv({"validated"}) >>),
     acceptOne |-> ServeTo(<< Accept(1), Send("validated"), Answer(1), Handshake(1) >> \o Echo(1),
                           "served")],
    [served |-> 1, validated |-> 1])

(* The server goroutine's result is dropped.                                 *)
Tickets == Program(
    [main   |-> Run(Serving("server") \o << Dial(1) >> \o Ask(1)),
     server |-> Serve(<< Accept(1) >> \o Echo(1))],
    NoChannels)

----------------------------------------------------------------------------
(* One request answered by a router's handler, which run() does not join.    *)
RouterEcho == Program(
    [main    |-> Run(Routing("handler") \o << Dial(1) >> \o Ask(1)),
     handler |-> Handler(<< Accept(1) >> \o Echo(1))],
    NoChannels)

Ping == Program(
    [main        |-> Run(Routing("pingHandler") \o << Dial(1) >> \o Ask(1)),
     pingHandler |-> Handler(<< Accept(1) >> \o Echo(1))],
    NoChannels)

MemoryDiscovery == Program(
    [main    |-> Run(Routing("handler") \o << Dial(1) >> \o Ask(1)),
     handler |-> Handler(<< Accept(1) >> \o Echo(1))],
    NoChannels)

(* Two connections, one protocol each, both dialled before either is used.   *)
MultiALPN == Program(
    [main  |-> Run(<< Start("router"), Go("echo"), Go("upper"), Bind("client"), Dial(1), Dial(2) >>
                   \o Ask(1) \o Ask(2)),
     echo  |-> Handler(<< Accept(1) >> \o Echo(1)),
     upper |-> Handler(<< Accept(2) >> \o Echo(2))],
    NoChannels)

(* Two rounds of frames on one stream; both ends close it when they return.  *)
FramedMessages == Program(
    [main |-> Run(Routing("chessHandler") \o << Dial(1), Deferring(Open(1, 1), << Fin(1, 1) >>),
                     Write(1, 1), Read(1, 1), Write(1, 1), Read(1, 1) >>),
     chessHandler |-> Handler(<< Accept(1), Deferring(AcceptStream(1, 1), << Fin(1, 1) >>),
                                 Read(1, 1), Write(1, 1), Read(1, 1), Write(1, 1) >>)],
    NoChannels)

(* Rounds of sync messages until neither side has one to send (here the      *)
(* second); the client closes the connection before it looks whether the     *)
(* handler delivered the document.                                           *)
Automerge == Program(
    [main    |-> Run(Routing("handler") \o << Connect(1), Deferring(Open(1, 1), << Fin(1, 1) >>),
                        Write(1, 1), Read(1, 1), Write(1, 1), Read(1, 1),
                        Fin(1, 1), Close(1), Select({"synced"}) >>),
     handler |-> Handler(<< Accept(1), Deferring(AcceptStream(1, 1), << Fin(1, 1) >>),
                            Read(1, 1), Write(1, 1), Read(1, 1), Write(1, 1), Send("synced") >>)],
    [synced |-> 1])

(* run() waits until the handler has the request in flight, under a context  *)
(* that only a signal ends, then shuts down: Shutdown releases the handler   *)
(* and waits, under a deadline, until it is done, and only then is the       *)
(* endpoint closed.  Neither shutdown is deferred, so an earlier return      *)
(* skips both.  The handler closes done on every path out.                   *)
GracefulShutdown == Program(
    [main    |-> Thread("client", "signal",
                   << Start("signal"), Go("handler"), Bind("client"), Dial(1),
                      Open(1, 1), Write(1, 1), Fin(1, 1), Select({"started"}),
                      Stop("signal"), CloseChan("release"), SelectBy({"done"}),
                      Stop("router"), Stop("server") >>, None, None),
     handler |-> Handler(<< Deferring(Accept(1), << CloseChan("done") >>), AcceptStream(1, 1),
                            ReadAll(1, 1), CloseChan("started"), Select({"release"}), Fin(1, 1) >>)],
    [started |-> 0, release |-> 0, done |-> 0])

----------------------------------------------------------------------------
(* Three one-message unidirectional streams; the receiver closes the         *)
(* connection as soon as it has the third event.                             *)
UniStreams == Program(
    [main   |-> Run(Serving("receive") \o << Dial(1),
                       Open(1, 1), Write(1, 1), Fin(1, 1),
                       Open(1, 2), Write(1, 2), Fin(1, 2),
                       Open(1, 3), Write(1, 3), Fin(1, 3), Recv({"received"}) >>),
     receive |-> ServeTo(<< Deferring(Accept(1), << Close(1) >>), AcceptStream(1, 1), Read(1, 1),
                            AcceptStream(1, 2), Read(1, 2), AcceptStream(1, 3), Read(1, 3) >>,
                         "received")],
    [received |-> 1])

(* The server closes the connection with a code, the client waits for it.    *)
CloseCodes == Program(
    [main   |-> Run(Serving("server") \o << Dial(1), AwaitCloseBy(1), Recv({"accepted"}), Cause(1) >>),
     server |-> ServeTo(<< Accept(1), Close(1) >>, "accepted")],
    [accepted |-> 1])

(* A line each way under deadlines, then a half-close.  Closing a connection *)
(* can discard the reply, so the server holds its end until release, which   *)
(* run() closes on every path out.                                           *)
StreamNetconn == Program(
    [main  |-> Run(<< Bind("server"), Deferring(Go("serve"), << CloseChan("release") >>),
                      Bind("client"), Dial(1),
                      Deferring(Open(1, 1), << Fin(1, 1) >>), Write(1, 1), ReadBy(1, 1),
                      Fin(1, 1), CloseChan("release"), Recv({"serverErr"}) >>),
     serve |-> ServeTo(<< Deferring(Accept(1), << Recv({"release"}), Close(1) >>),
                          Deferring(AcceptStream(1, 1), << Fin(1, 1) >>),
                          ReadBy(1, 1), Write(1, 1), ReadAllBy(1, 1) >>, "serverErr")],
    [release |-> 0, serverErr |-> 1])

----------------------------------------------------------------------------
(* A datagram and a stream, each read by a goroutine of its own.             *)
DatagramVsStream == Program(
    [main |-> Run(Serving("acceptOne") \o << Dial(1), SendDatagram(1),
                     Open(1, 1), Write(1, 1), Fin(1, 1),
                     Select({"received", "serverErr"}), Select({"received", "serverErr"}) >>),
     acceptOne |-> Thread("server", "run",
                     << Deferring(Accept(1), << Close(1) >>), Go("readDatagrams"),
                        Quiet(AcceptStream(1, 1)), Go("readStream"), Quiet(AcceptStream(1, 2)) >>,
                     None, "serverErr"),
     readDatagrams |-> Serve(<< Quiet(ReadDatagram(1)), Send("received"),
                                Quiet(ReadDatagram(1)) >>),
     readStream    |-> Serve(<< Deferring(Quiet(ReadAll(1, 1)), << Fin(1, 1) >>),
                                Send("received") >>)],
    [received |-> 4, serverErr |-> 1])

(* Four framed datagrams; the receiver closes its channel after the fourth.  *)
DatagramFrames ==
    LET four(call) == << call, call, call, call >> IN Program(
    [main   |-> Run(Serving("server") \o << Dial(1) >> \o four(SendDatagram(1))
                    \o four(Select({"received", "errs"})) \o << Select({"received", "errs"}) >>),
     server |-> Thread("server", "run",
                  << Accept(1), ReadDatagram(1), Send("received"), ReadDatagram(1), Send("received"),
                     ReadDatagram(1), Send("received"), ReadDatagram(1), Send("received"),
                     CloseChan("received") >>, None, "errs")],
    [received |-> 4, errs |-> 1])

(* Two datagrams reflected, with an idle pause in between.                   *)
TransportTuning == Program(
    [main   |-> Run(Serving("reflect") \o << Dial(1), SendDatagram(1), ReadDatagram(1),
                       SendDatagram(1), ReadDatagram(1), Recv({"serverErr"}) >>),
     reflect |-> ServeTo(<< Accept(1), ReadDatagram(1), SendDatagram(1),
                            ReadDatagram(1), SendDatagram(1) >>, "serverErr")],
    [serverErr |-> 1])

(* A request, a pushed stream and a datagram each way; the client closes and *)
(* then waits for the server, which waits for that close.                    *)
QUICSurface == Program(
    [main  |-> Run(Serving("serve") \o << Connect(1), Open(1, 1), Write(1, 1), Fin(1, 1), ReadAllBy(1, 1),
                      AcceptStream(1, 2), ReadAll(1, 2), SendDatagram(1), ReadDatagram(1),
                      Close(1), Recv({"served"}) >>),
     serve |-> ServeTo(<< Accept(1), AcceptStream(1, 1), ReadAll(1, 1),
                          Open(1, 2), Write(1, 2), Fin(1, 2), Write(1, 1), Fin(1, 1),
                          ReadDatagram(1), SendDatagram(1), AwaitClose(1), Cause(1) >>, "served")],
    [served |-> 1])

----------------------------------------------------------------------------
(* One verified blob on one stream, the provider joined.                     *)
BlobsTransfer == Program(
    [main  |-> Run(Serving("serve") \o << Dial(1) >> \o Ask(1) \o << Recv({"serverErr"}) >>),
     serve |-> ServeTo(<< Accept(1) >> \o Echo(1), "serverErr")],
    [serverErr |-> 1])

(* A prefix and, over a second connection, the suffix; the provider accepts  *)
(* in a loop and serves each connection in a goroutine, closing one whose    *)
(* stream never came.  (Its error channel, sent to without blocking, only    *)
(* chooses which error run() returns.)                                       *)
BlobsRanges ==
    LET get(c)  == << Dial(c) >> \o Ask(c) \o << Close(c) >>
        give(c) == Serve(<< OrElse(AcceptStream(c, 1), << Close(c) >>), ReadAll(c, 1),
                            Write(c, 1), Fin(c, 1) >>)
    IN Program(
    [main       |-> Run(Serving("serveBlobs") \o get(1) \o get(2)),
     serveBlobs |-> Serve(<< Quiet(Accept(1)), Go("first"), Quiet(Accept(2)), Go("second"),
                             Quiet(Accept(3)) >>),
     first      |-> give(1),
     second     |-> give(2)],
    NoChannels)

(* Concurrent calls, a stream each, on one connection (two of the three      *)
(* jobs); opening and accepting the streams is inside irpc's Call and        *)
(* Handler.  The handler runs until the connection closes.                   *)
RPCWorkqueue ==
    LET call(s)   == Caller(<< Write(1, s), Read(1, s) >>, "results")
        handle(s) == Serve(<< Quiet(Read(1, s)), Quiet(Write(1, s)) >>)
    IN Program(
    [main    |-> Run(Serving("serve") \o << Dial(1), Go("call1"), Go("call2"),
                        Select({"results", "serverErr"}), Select({"results", "serverErr"}) >>),
     serve   |-> Thread("server", "run", << Accept(1), Go("handle1"), Go("handle2"),
                        Quiet(AwaitCloseBy(1)) >>, None, "serverErr"),
     call1   |-> call(1), call2   |-> call(2),
     handle1 |-> handle(1), handle2 |-> handle(2)],
    [results |-> 3, serverErr |-> 1])

(* watchValue: an observer goroutine must see the value that run() sets after *)
(* it started it.  (The loop over the changes, which it feeds itself, is left *)
(* out.)                                                                     *)
WatchValue == << Go("next"), CloseChan("value"), Recv({"next"}) >>

(* The endpoint is dialled twice, by a new client each time, and serves the  *)
(* two connections one after the other; in between an observer goroutine     *)
(* must see the address that run() adds after it started it.  (The stream of *)
(* addresses at the end, which run() itself feeds, is left out; a client is  *)
(* shut down right after its only connection is closed.)                     *)
WatchObserver ==
    LET dial(c) == << Dial(c) >> \o Ask(c) \o << Close(c) >> IN Program(
    [main  |-> Run(WatchValue \o << Bind("server"), Go("serve") >> \o dial(1)
                   \o << Go("updated"), CloseChan("addr"), Recv({"updated"}) >>
                   \o dial(2) \o << Recv({"done"}) >>),
     next    |-> ServeTo(<< Select({"value"}) >>, "next"),
     updated |-> ServeTo(<< Select({"addr"}) >>, "updated"),
     serve   |-> ServeTo(<< Accept(1) >> \o Echo(1) \o << Accept(2) >> \o Echo(2), "done")],
    [value |-> 0, next |-> 1, addr |-> 0, updated |-> 1, done |-> 1])

----------------------------------------------------------------------------
(* The demo of dumbpipe: the handshake and a line one way, half-closed; the  *)
(* server copies to EOF.                                                     *)
DumbpipeDemo == Program(
    [main   |-> Run(Serving("server") \o << Dial(1), Open(1, 1),
                       Write(1, 1), Write(1, 1), Fin(1, 1), Recv({"done"}) >>),
     server |-> ServeTo(<< Accept(1), AcceptStream(1, 1), Read(1, 1), ReadAll(1, 1) >>, "done")],
    [done |-> 1])

(* Both endpoints get a home relay, the connection starts on it, and run()   *)
(* watches its paths.  (waitForDirect and waitForCandidate return in every   *)
(* case, after a time limit of their own.  The accepted end is closed by a   *)
(* deferred call too, a moment before server.Shutdown does it.)              *)
RelayedConn(watch) == Program(
    [main   |-> Run(<< Bind("server"), Bind("client"), Outside, Outside, Go("accept"), Dial(1),
                       Recv({"accepted"}) >> \o watch),
     accept |-> ServeTo(<< Accept(1) >>, "accepted")],
    [accepted |-> 1])

PathUpgrade == RelayedConn(<< WaitPath(1) >>)

PathSelection == RelayedConn(<< >>)

(* One transfer, the one that waits for a direct path first.  sink leaves    *)
(* the connection open for its acknowledgement.                              *)
RelayLimits == Program(
    [main |-> Run(<< Bind("server"), Bind("client"), Outside, Outside, Go("sink"), Dial(1),
                     WaitPath(1), Deferring(Open(1, 1), << Fin(1, 1) >>), Write(1, 1), Fin(1, 1),
                     Read(1, 1), Recv({"sunk"}) >>),
     sink |-> ServeTo(<< Accept(1), AcceptStream(1, 1), ReadAll(1, 1), Write(1, 1),
                         Fin(1, 1) >>, "sunk")],
    [sunk |-> 1])

(* The client dials an ID that the local pkarr relay has a record for once   *)
(* the server's publisher has put it there.                                  *)
LocalInfra == Program(
    [main   |-> Run(<< Bind("server"), Outside, Go("server"), Bind("client"), Outside, Outside,
                       Dial(1) >> \o Ask(1)
                    \o << Recv({"accepted"}) >>),
     server |-> ServeTo(<< Accept(1) >> \o Echo(1), "accepted")],
    [accepted |-> 1])

(* The server announces itself, its listener's failure is looked for twice,  *)
(* and a lookup that nobody answers in time ends run() without an error.     *)
MDNSDiscovery == Program(
    [main      |-> Run(<< Bind("server"), Bind("client"), Go("announcer"), Quiet(LookIn({"listen"})),
                          Go("server"), Go("seeker"), Quiet(LookIn({"listen"})),
                          Quiet(Chance), Outside, Dial(1) >> \o Ask(1)
                       \o << Recv({"accepted"}) >>),
     announcer |-> ServeTo(<< UntilDone >>, "listen"),
     seeker    |-> ServeTo(<< UntilDone >>, "listen"),
     server    |-> ServeTo(<< Accept(1) >> \o Echo(1), "accepted")],
    [listen |-> 2, accepted |-> 1])

(* The connection is only made, and closed by the server once it has said so. *)
Doctor == Program(
    [main   |-> Run(<< Bind("server"), Outside, Bind("client"), Outside, Go("server"), Dial(1),
                       Recv({"accepted"}) >>),
     server |-> Thread("server", "run", << Deferring(Accept(1), << Close(1) >>), Send("accepted") >>,
                       None, "accepted")],
    [accepted |-> 1])

(* listen -serve: the accept loop of a process of its own, with a context of *)
(* its own, starts an echo per connection.                                   *)
PublicListen == << Accept(1), Go("echo"), Accept(2) >>

(* connect against such a process, which stays when connect has returned.    *)
PublicEndpoint == Program(
    [main   |-> Run(<< Go("listen"), Bind("client"), Dial(1) >> \o Ask(1)),
     listen |-> Thread("server", "elsewhere", PublicListen, None, None),
     echo   |-> Thread("server", "elsewhere", Echo(1), None, None)],
    NoChannels)

(* The server's trace is closed when its connection ends, and run() waits    *)
(* for that after it has closed its own end.                                 *)
QlogTracing == Program(
    [main   |-> Run(Serving("server") \o << Connect(1), Go("trace") >> \o Ask(1)
                    \o << Recv({"accepted"}), Close(1), Select({"traced"}) >>),
     server |-> ServeTo(<< Accept(1) >> \o Echo(1), "accepted"),
     trace  |-> Handler(<< AwaitClose(1), CloseChan("traced") >>)],
    [accepted |-> 1, traced |-> 0])

(* An HTTP server on a listener of streams.  Serve goes on accepting until   *)
(* httpServer.Close closes the listener; a request has a time limit of its   *)
(* own.                                                                      *)
StreamListenerHTTP == Program(
    [main   |-> Run(<< Bind("server"), Start("listener"),
                       Deferring(Go("serve"), << Stop("listener") >>), Bind("client"),
                       Connect(1), Open(1, 1), Write(1, 1), ReadBy(1, 1),
                       Stop("listener"), Recv({"done"}) >>),
     serve  |-> Thread("server", "listener",
                       << Quiet(Accept(1)), Go("handle"), Quiet(Accept(2)) >>, "done", "done"),
     handle |-> Thread("server", "listener",
                       << AcceptStream(1, 1), Read(1, 1), Write(1, 1) >>, None, None)],
    [done |-> 1])

(* A line each way over a listener that a router feeds.  Its Accept takes no *)
(* context and belongs to no endpoint: only the deferred ln.Close ends it.   *)
StreamListenerRouter == Program(
    [main  |-> Run(<< Bind("server"), Start("listener"), Start("router"), Go("serve"),
                      Bind("client"), Connect(1), Deferring(Open(1, 1), << Fin(1, 1) >>),
                      Write(1, 1), Read(1, 1), Recv({"done"}) >>),
     serve |-> Thread("server", "listener",
                      << Accept(1), Deferring(AcceptStream(1, 1), << Fin(1, 1) >>),
                         Read(1, 1), Write(1, 1), Send("done") >>, None, "done")],
    [done |-> 1])

(* Two of the gateway's requests: each is handled in a goroutine of the HTTP *)
(* server, which dials the provider, asks, and closes.  gateway.Close waits  *)
(* for the handlers.                                                         *)
BlobsGateway ==
    LET get(h, answer, left) == << Deferring(Go(h), << Recv({left}) >>), Select({answer}) >>
        fetch(c, entered, left, answer) ==
            Caller(<< Deferring(CloseChan(entered), << CloseChan(left) >>),
                      Dial(c) >> \o Ask(c), answer)
        provide(c) == Handler(<< Accept(c) >> \o Echo(c))
    IN Program(
    [main  |-> Run(<< Start("router"), Go("blob1"), Go("blob2"), Bind("client") >> \o get("get1", "answer1", "left1")
                   \o get("get2", "answer2", "left2")),
     get1  |-> fetch(1, "entered1", "left1", "answer1"),
     get2  |-> fetch(2, "entered2", "left2", "answer2"),
     blob1 |-> provide(1), blob2 |-> provide(2)],
    [entered1 |-> 0, entered2 |-> 0, left1 |-> 0, left2 |-> 0, answer1 |-> 1, answer2 |-> 1])

Programs ==
    [direct_echo |-> DirectEcho, hooks |-> Hooks, metrics |-> Metrics,
     manual_incoming |-> ManualIncoming, source_validation |-> SourceValidation,
     tickets |-> Tickets, router_echo |-> RouterEcho, ping |-> Ping,
     memory_discovery |-> MemoryDiscovery, multi_alpn |-> MultiALPN,
     framed_messages |-> FramedMessages, uni_streams |-> UniStreams,
     close_codes |-> CloseCodes, stream_netconn |-> StreamNetconn,
     datagram_vs_stream |-> DatagramVsStream, datagram_frames |-> DatagramFrames,
     transport_tuning |-> TransportTuning, quic_surface |-> QUICSurface,
     blobs_transfer |-> BlobsTransfer, blobs_ranges |-> BlobsRanges,
     rpc_workqueue |-> RPCWorkqueue, watch_observer |-> WatchObserver,
     automerge |-> Automerge, graceful_shutdown |-> GracefulShutdown,
     dumbpipe_demo |-> DumbpipeDemo, path_upgrade |-> PathUpgrade,
     path_selection |-> PathSelection, relay_limits |-> RelayLimits,
     local_infra |-> LocalInfra, mdns_discovery |-> MDNSDiscovery, doctor |-> Doctor,
     public_endpoint |-> PublicEndpoint, qlog_tracing |-> QlogTracing,
     stream_listener_http |-> StreamListenerHTTP,
     stream_listener_router |-> StreamListenerRouter, blobs_gateway |-> BlobsGateway]
============================================================================
