------------------------------ MODULE DumbPipe ------------------------------
(***************************************************************************)
(* One pipe of cmd/go-iroh-dumbpipe, between any of the commands that dial *)
(* and any that accept.  connect and listen copy stdin into one QUIC       *)
(* stream and that stream into stdout, and linger before they close the    *)
(* connection.  connect-tcp and connect-unix do it with a local client     *)
(* they accepted, listen-tcp and listen-unix with a local service they     *)
(* dial, in loops that go on until the interrupt.                          *)
(*                                                                         *)
(* A stream direction is known by its writer.  Payload is counted in       *)
(* units; the five bytes of the handshake are one unit.  The QUIC          *)
(* connection is external: it delivers each direction in order within a    *)
(* flow-control window, and a close discards what was not yet delivered.   *)
(***************************************************************************)
EXTENDS Integers

CONSTANTS
  Units,      \* Units[e]: how many units end e's stdin holds before its EOF
  Window,     \* units a writer may be ahead of the peer's reads
  Handshake   \* FALSE with -custom-alpn, which drops the handshake

End == {"dialer", "listener"}
peer(e) == IF e = "dialer" THEN "listener" ELSE "dialer"

ASSUME ConstantsAssumption ==
  /\ Units \in [End -> Nat]
  /\ Window \in Nat \ {0}
  /\ Handshake \in BOOLEAN

\* Units of the dialer's direction that are not payload.
Prelude(e) == IF e = "dialer" /\ Handshake THEN 1 ELSE 0

VARIABLES
  kind,     \* kind[e]: the command that runs at e, one of Kind(e)
  world,    \* the surroundings of this pipe, one of World, chosen at the start
  pc,       \* pc[e]: where the command, or its handler of the client, is
  ctxDone,  \* ctxDone[e]: the interrupt arrived
  link,     \* link[e]: the connection as e sees it, "none", "up" or "down"
  out,      \* out[e]: forward's src -> stream goroutine, "idle", "copy", "ok" or "err"
  in,       \* in[e]: forward's stream -> dst goroutine, likewise
  sent,     \* sent[e]: units e wrote to the stream
  arrived,  \* arrived[e]: units of e's direction in the peer's receive buffer, ever
  taken,    \* taken[e]: units of e's direction the peer has read
  fin,      \* fin[e]: the end of e's direction: "no", "sent" or "arrived", or
            \* "reset" and "aborted" once e has cancelled the stream
  broke     \* broke[e]: e's stdin failed before its EOF
\* What the text calls e's stdin and stdout is its local connection in the
\* commands that forward.

vars == <<kind, world, pc, ctxDone, link, out, in, sent, arrived, taken, fin, broke>>
stream == <<sent, arrived, taken, fin>>

\* "steady": stdins deliver what they hold and end, and a peer reads within
\* lingerTimeout.  "silent": a stdin may stay silent for ever and a peer may be
\* slow.  "faulty": moreover stdin, stdout and the connection may fail.
World == {"steady", "silent", "faulty"}
SlowPeer == world # "steady"
Faults == world = "faulty"

\* connect, connect-tcp and connect-unix; listen, and the two of listenForward,
\* which differ in the address of the service only.
Kind(e) == IF e = "dialer" THEN {"stdio", "tcp", "unix"} ELSE {"stdio", "local"}

Ended == {"ok", "err"}

\* The units of its own stdin that e has written, and of its peer's that it
\* has copied to its stdout.
Copied(e) == sent[e] - Prelude(e)
Written(e) == taken[peer(e)] - Prelude(peer(e))

Init ==
  /\ world \in World
  /\ kind \in {k \in [End -> Kind("dialer") \cup Kind("listener")] :
                 \A e \in End : k[e] \in Kind(e)}
  /\ pc = [e \in End |-> IF e = "listener" THEN "accept"
                         ELSE IF kind[e] = "tcp" THEN "waitLocal" ELSE "dial"]
  /\ ctxDone = [e \in End |-> FALSE]
  /\ link = [e \in End |-> "none"]
  /\ out = [e \in End |-> "idle"]
  /\ in = [e \in End |-> "idle"]
  /\ sent = [e \in End |-> 0]
  /\ arrived = [e \in End |-> 0]
  /\ taken = [e \in End |-> 0]
  /\ fin = [e \in End |-> "no"]
  /\ broke = [e \in End |-> FALSE]

-----------------------------------------------------------------------------
(* The commands.                                                           *)

\* The deferred conn.Close and ep.Shutdown of a command that returns.
closeConn(e) == link' = [link EXCEPT ![e] = IF @ = "none" THEN @ ELSE "down"]
exit(e) ==
  /\ pc' = [pc EXCEPT ![e] = "exited"]
  /\ closeConn(e)

\* What follows the end of a client's pipe, or a step of it that failed: stdio
\* commands return, connect-tcp closes the client's connection and goes on
\* accepting clients, connect-unix goes on with its one connection.
finish(e) ==
  IF kind[e] = "stdio" THEN exit(e)
  ELSE /\ pc' = [pc EXCEPT ![e] = "handled"]
       /\ IF kind[e] = "tcp" THEN closeConn(e) ELSE UNCHANGED link

\* forward starts its two copies.
startForward(e) ==
  /\ pc' = [pc EXCEPT ![e] = "forward"]
  /\ out' = [out EXCEPT ![e] = "copy"]
  /\ in' = [in EXCEPT ![e] = "copy"]

\* os.Interrupt cancels ctx, which only the calls that take ctx look at.
Interrupt(e) ==
  /\ ~ctxDone[e]
  /\ ctxDone' = [ctxDone EXCEPT ![e] = TRUE]
  /\ UNCHANGED <<kind, world, pc, link, out, in, broke, stream>>

\* acceptLocal: a local client connects.  connect-tcp dials for it, and
\* connect-unix opens a stream on the connection it has.
acceptLocal(e) ==
  /\ pc[e] = "waitLocal"
  /\ pc' = [pc EXCEPT ![e] = IF kind[e] = "tcp" THEN "dial" ELSE "openPipe"]
  /\ UNCHANGED <<kind, world, ctxDone, link, out, in, broke, stream>>

\* acceptLocal returns: ctx is done and ln closed, or ln.Accept failed, and no
\* handler is running (wg.Wait).  connect-unix closes its connection then.
acceptLocalReturns(e) ==
  /\ pc[e] = "waitLocal" \/ (e = "dialer" /\ pc[e] = "handled")
  /\ ctxDone[e] \/ Faults
  /\ exit(e)
  /\ UNCHANGED <<kind, world, ctxDone, out, in, broke, stream>>

\* dial reaches the listener while that is accepting.
dial ==
  /\ pc["dialer"] = "dial"
  /\ pc["listener"] = "accept"
  /\ link' = [e \in End |-> "up"]
  /\ pc' = [pc EXCEPT !["dialer"] = IF kind["dialer"] = "unix" THEN "waitLocal"
                                    ELSE "openPipe"]
  /\ UNCHANGED <<kind, world, ctxDone, out, in, broke, stream>>

\* dial: no relay, no path, nobody listening, or ctx done.  connect-unix dials
\* before it has a client, and returns.
dialFails ==
  /\ pc["dialer"] = "dial"
  /\ Faults \/ ctxDone["dialer"] \/ pc["listener"] = "exited"
  /\ IF kind["dialer"] = "unix" THEN exit("dialer") ELSE finish("dialer")
  /\ UNCHANGED <<kind, world, ctxDone, out, in, broke, stream>>

\* A dialer that leaves the first write to its stdin.
openPipeSilent ==
  /\ pc["dialer"] = "openPipe"
  /\ link["dialer"] = "up"
  /\ startForward("dialer")
  /\ UNCHANGED <<kind, world, ctxDone, link, broke, stream>>

\* openPipe writes the handshake, so that the stream exists for the peer, and
\* the command goes on to forward.
openPipe ==
  /\ pc["dialer"] = "openPipe"
  /\ link["dialer"] = "up"
  /\ sent' = [sent EXCEPT !["dialer"] = Prelude("dialer")]
  /\ startForward("dialer")
  /\ UNCHANGED <<kind, world, ctxDone, link, arrived, taken, fin, broke>>

openPipeFails ==
  /\ pc["dialer"] = "openPipe"
  /\ link["dialer"] = "down" \/ ctxDone["dialer"]
  /\ finish("dialer")
  /\ UNCHANGED <<kind, world, ctxDone, out, in, broke, stream>>

\* ep.Accept returns the connection, to listen or to a goroutine of
\* listenForward's for it.
Accept ==
  /\ pc["listener"] = "accept"
  /\ link["listener"] = "up"
  /\ pc' = [pc EXCEPT !["listener"] = "acceptPipe"]
  /\ UNCHANGED <<kind, world, ctxDone, link, out, in, broke, stream>>

\* ep.Accept returns ctx's error, and the command returns.
AcceptFails ==
  /\ pc["listener"] \in {"accept", "acceptNext"}
  /\ ctxDone["listener"]
  /\ exit("listener")
  /\ UNCHANGED <<kind, world, ctxDone, out, in, broke, stream>>

\* acceptPipe: the stream shows up with its first data or its FIN, and the
\* handshake is read off it.  listenForward dials the local service for it.
acceptPipe ==
  /\ pc["listener"] = "acceptPipe"
  /\ link["listener"] = "up"
  /\ arrived["dialer"] > 0 \/ fin["dialer"] = "arrived"
  /\ taken' = [taken EXCEPT !["dialer"] = Prelude("dialer")]
  /\ IF kind["listener"] = "stdio" THEN startForward("listener")
     ELSE /\ pc' = [pc EXCEPT !["listener"] = "dialLocal"]
          /\ UNCHANGED <<out, in>>
  /\ UNCHANGED <<kind, world, ctxDone, link, sent, arrived, fin, broke>>

\* acceptPipe fails: listen says so and goes back to Accept, for another
\* connection.  It does not close the one that failed.  In listenForward the
\* connection's goroutine ends, which closes it.
acceptPipeFails ==
  /\ pc["listener"] = "acceptPipe"
  /\ link["listener"] = "down" \/ ctxDone["listener"]
  /\ IF kind["listener"] = "stdio"
     THEN pc' = [pc EXCEPT !["listener"] = "acceptNext"] /\ UNCHANGED link
     ELSE pc' = [pc EXCEPT !["listener"] = "handled"] /\ closeConn("listener")
  /\ UNCHANGED <<kind, world, ctxDone, out, in, broke, stream>>

\* forwardLocal: the local service answers.
forwardLocal ==
  /\ pc["listener"] = "dialLocal"
  /\ startForward("listener")
  /\ UNCHANGED <<kind, world, ctxDone, link, broke, stream>>

\* forwardLocal: it does not, or ctx is done.  The stream is cancelled both
\* ways, which reaches the dialer as an error of its reads and of its writes.
forwardLocalFails ==
  /\ pc["listener"] = "dialLocal"
  /\ Faults \/ ctxDone["listener"]
  /\ pc' = [pc EXCEPT !["listener"] = "handled"]
  /\ fin' = [fin EXCEPT !["listener"] = IF link["listener"] = "up" THEN "reset" ELSE @]
  /\ UNCHANGED <<kind, world, ctxDone, link, out, in, sent, arrived, taken, broke>>

\* listenForward's goroutine of the connection is in acceptPipe again, for the
\* connection's next stream, while forwardLocal serves the first.  The
\* interrupt ends its wait, and it closes the connection under the pipe.
nextPipeFails ==
  /\ kind["listener"] = "local"
  /\ pc["listener"] \in {"dialLocal", "forward", "handled"}
  /\ link["listener"] = "up"
  /\ ctxDone["listener"]
  /\ closeConn("listener")
  /\ UNCHANGED <<kind, world, pc, ctxDone, out, in, broke, stream>>

\* listenForward: ep.Accept failed when ctx was done, and the connection's
\* goroutine and its pipe's have ended (wg.Wait).
listenForwardReturns ==
  /\ pc["listener"] = "handled"
  /\ ctxDone["listener"]
  /\ link["listener"] = "down"
  /\ exit("listener")
  /\ UNCHANGED <<kind, world, ctxDone, out, in, broke, stream>>

-----------------------------------------------------------------------------
(* forward.                                                                *)

\* Whether a write to e's stream is refused, or would block.
Refused(e) == link[e] = "down" \/ fin[peer(e)] = "aborted"
Blocked(e) == sent[e] - taken[e] >= Window

\* src -> stream: io.Copy moves one unit.
CopyOut(e) ==
  /\ out[e] = "copy"
  /\ Copied(e) < Units[e]
  /\ ~Refused(e) /\ ~Blocked(e)
  /\ sent' = [sent EXCEPT ![e] = @ + 1]
  /\ UNCHANGED <<kind, world, pc, ctxDone, link, out, in, arrived, taken, fin, broke>>

\* src -> stream: io.Copy ends, and closeWrite ends the direction.  It ends
\* when stdin does, when stdin fails, or when a write finds the connection
\* closed; the last is noticed only once stdin has something to write.
closeWrite(e, res) ==
  /\ out' = [out EXCEPT ![e] = res]
  /\ fin' = [fin EXCEPT ![e] = IF link[e] = "up" THEN "sent" ELSE @]

CopyOutEOF(e) ==
  /\ out[e] = "copy"
  /\ Copied(e) = Units[e]
  /\ closeWrite(e, IF Refused(e) THEN "err" ELSE "ok")
  /\ UNCHANGED <<kind, world, pc, ctxDone, link, in, sent, arrived, taken, broke>>

CopyOutRefused(e) ==
  /\ out[e] = "copy"
  /\ Copied(e) < Units[e]
  /\ Refused(e)
  /\ closeWrite(e, "err")
  /\ UNCHANGED <<kind, world, pc, ctxDone, link, in, sent, arrived, taken, broke>>

StdinFails(e) ==
  /\ Faults
  /\ out[e] = "copy"
  /\ Copied(e) < Units[e]
  /\ broke' = [broke EXCEPT ![e] = TRUE]
  /\ closeWrite(e, "err")
  /\ UNCHANGED <<kind, world, pc, ctxDone, link, in, sent, arrived, taken>>

\* stream -> dst: io.Copy moves one unit.
CopyIn(e) ==
  /\ in[e] = "copy"
  /\ link[e] = "up"
  /\ taken[peer(e)] < arrived[peer(e)]
  /\ taken' = [taken EXCEPT ![peer(e)] = @ + 1]
  /\ UNCHANGED <<kind, world, pc, ctxDone, link, out, in, sent, arrived, fin, broke>>

\* A forward that copies the reply only after its own direction has ended.
CopyInSequential(e) ==
  /\ in[e] = "copy"
  /\ link[e] = "up"
  /\ out[e] \in Ended
  /\ fin[peer(e)] = "arrived"
  /\ taken[peer(e)] = sent[peer(e)]
  /\ in' = [in EXCEPT ![e] = "ok"]
  /\ UNCHANGED <<kind, world, pc, ctxDone, link, out, broke, stream>>

\* A copy that takes a closed connection for the end of the stream.
CopyInCloseIsEOF(e) ==
  /\ in[e] = "copy"
  /\ \/ link[e] = "down"
     \/ fin[peer(e)] = "arrived" /\ taken[peer(e)] = sent[peer(e)]
  /\ in' = [in EXCEPT ![e] = "ok"]
  /\ UNCHANGED <<kind, world, pc, ctxDone, link, out, broke, stream>>

\* A copy that takes the FIN for the end although data is still unread.
CopyInEOFEarly(e) ==
  /\ in[e] = "copy"
  /\ link[e] = "up"
  /\ fin[peer(e)] = "arrived"
  /\ in' = [in EXCEPT ![e] = "ok"]
  /\ UNCHANGED <<kind, world, pc, ctxDone, link, out, broke, stream>>

\* stream -> dst: io.Copy reads EOF and dst's write side is closed.
CopyInEOF(e) ==
  /\ in[e] = "copy"
  /\ link[e] = "up"
  /\ fin[peer(e)] = "arrived"
  /\ taken[peer(e)] = sent[peer(e)]
  /\ in' = [in EXCEPT ![e] = "ok"]
  /\ UNCHANGED <<kind, world, pc, ctxDone, link, out, broke, stream>>

\* stream -> dst: the read fails because the connection is closed, or stdout
\* fails.  Nothing tells the peer that its bytes are no longer read.
CopyInFails(e) ==
  /\ in[e] = "copy"
  /\ \/ link[e] = "down" \/ fin[peer(e)] = "aborted"
     \/ Faults /\ taken[peer(e)] < arrived[peer(e)]
  /\ in' = [in EXCEPT ![e] = "err"]
  /\ UNCHANGED <<kind, world, pc, ctxDone, link, out, broke, stream>>

\* forward has received both results and returns.  connect-unix and
\* listenForward are done with the pipe then; the others linger.
forwardReturns(e) ==
  /\ pc[e] = "forward"
  /\ out[e] \in Ended /\ in[e] \in Ended
  /\ pc' = [pc EXCEPT ![e] = IF kind[e] \in {"stdio", "tcp"} THEN "linger"
                             ELSE "handled"]
  /\ UNCHANGED <<kind, world, ctxDone, link, out, in, broke, stream>>

\* A command that returns as soon as forward does.
noLinger(e) ==
  /\ pc[e] = "linger"
  /\ finish(e)
  /\ UNCHANGED <<kind, world, ctxDone, out, in, broke, stream>>

\* A linger with no timeout.
lingerForever(e) ==
  /\ pc[e] = "linger"
  /\ link[e] = "down"
  /\ finish(e)
  /\ UNCHANGED <<kind, world, ctxDone, out, in, broke, stream>>

\* linger: the peer closed the connection, or lingerTimeout passed; then the
\* command, or the handler, closes it.  listenForward never closes first, so
\* that its dialers always wait for the timeout.  Without SlowPeer the peer
\* reads all that e wrote sooner.
linger(e) ==
  /\ pc[e] = "linger"
  /\ link[e] = "down" \/ SlowPeer \/ in[peer(e)] \in Ended
  /\ finish(e)
  /\ UNCHANGED <<kind, world, ctxDone, out, in, broke, stream>>

-----------------------------------------------------------------------------
(* The connection.                                                         *)

Deliver(e) ==
  /\ link[peer(e)] = "up"
  /\ \/ /\ arrived[e] < sent[e]
        /\ arrived' = [arrived EXCEPT ![e] = @ + 1]
        /\ UNCHANGED fin
     \/ /\ arrived[e] = sent[e] /\ fin[e] = "sent"
        /\ fin' = [fin EXCEPT ![e] = "arrived"]
        /\ UNCHANGED arrived
     \/ /\ fin[e] = "reset"
        /\ fin' = [fin EXCEPT ![e] = "aborted"]
        /\ UNCHANGED arrived
  /\ UNCHANGED <<kind, world, pc, ctxDone, link, out, in, sent, taken, broke>>

\* The peer's close reaches e.
CloseArrives(e) ==
  /\ link[e] = "up"
  /\ link[peer(e)] = "down"
  /\ link' = [link EXCEPT ![e] = "down"]
  /\ UNCHANGED <<kind, world, pc, ctxDone, out, in, broke, stream>>

\* The connection times out under e.
ConnectionLost(e) ==
  /\ Faults
  /\ link[e] = "up"
  /\ link' = [link EXCEPT ![e] = "down"]
  /\ UNCHANGED <<kind, world, pc, ctxDone, out, in, broke, stream>>

\* The pipe is over: each command has returned, or waits for a further client
\* or connection, which this model does not make.
Over ==
  /\ pc["dialer"] \in {"exited", "handled"}
  /\ \/ pc["listener"] \in {"exited", "handled", "acceptNext"}
     \/ pc["listener"] = "accept" /\ link["listener"] # "up"

Source(e) == CopyOut(e) \/ CopyOutEOF(e) \/ CopyOutRefused(e)
Sink(e) == CopyIn(e) \/ CopyInEOF(e) \/ CopyInFails(e)
Command ==
  \/ dial \/ dialFails \/ openPipe \/ openPipeFails
  \/ Accept \/ AcceptFails \/ acceptPipe \/ acceptPipeFails
  \/ forwardLocal \/ forwardLocalFails \/ nextPipeFails \/ listenForwardReturns
  \/ \E e \in End : forwardReturns(e) \/ linger(e) \/ acceptLocalReturns(e)

Next ==
  \/ Command
  \/ \E e \in End :
       \/ acceptLocal(e) \/ Interrupt(e) \/ StdinFails(e) \/ Source(e) \/ Sink(e)
       \/ Deliver(e) \/ CloseArrives(e) \/ ConnectionLost(e)

Spec == Init /\ [][Next]_vars

\* Goroutines run and the network makes progress; a stdin delivers, and a local
\* client comes, unless the world is silent.
FairSpec ==
  /\ Spec
  /\ WF_vars(Command)
  /\ \A e \in End :
       /\ WF_vars(Sink(e))
       /\ WF_vars(Deliver(e))
       /\ WF_vars(CloseArrives(e))
       /\ WF_vars(world # "silent" /\ (Source(e) \/ acceptLocal(e)))

-----------------------------------------------------------------------------

TypeOK ==
  /\ world \in World
  /\ \A e \in End : kind[e] \in Kind(e)
  /\ pc \in [End -> {"waitLocal", "dial", "openPipe", "accept", "acceptPipe",
                     "acceptNext", "dialLocal", "forward", "linger", "handled",
                     "exited"}]
  /\ ctxDone \in [End -> BOOLEAN] /\ broke \in [End -> BOOLEAN]
  /\ link \in [End -> {"none", "up", "down"}]
  /\ out \in [End -> {"idle", "copy", "ok", "err"}]
  /\ in \in [End -> {"idle", "copy", "ok", "err"}]
  /\ \A e \in End : /\ sent[e] \in 0..(Prelude(e) + Units[e])
                    /\ arrived[e] \in 0..sent[e]
                    /\ taken[e] \in 0..arrived[e]
  /\ fin \in [End -> {"no", "sent", "arrived", "reset", "aborted"}]

\* A copy that reports success is complete: however the closes, timeouts,
\* interrupts and failures of the two ends interleave, forward's stream -> dst
\* goroutine ends without an error only when dst holds everything the peer's
\* stdin held, or the peer's stdin itself failed.
NoSilentLoss ==
  \A e \in End : in[e] = "ok" => Written(e) = Units[peer(e)] \/ broke[peer(e)]

\* Linger does its job: when lingerTimeout is long enough for the peer to read
\* and nothing fails, no command returns and no handler closes its connection
\* while bytes it wrote are still to be read by its peer, and then nothing was
\* lost either way.  An interrupt does not change that for connect, listen and
\* connect-tcp.  connect-unix and listenForward do not linger, and return from
\* an interrupt by closing the connection.
Cut == \E e \in End : ctxDone[e] /\ kind[e] \in {"unix", "local"}

NothingLost ==
  \A e \in End :
    (/\ world = "steady" /\ ~Cut
     /\ pc[e] \in {"exited", "handled"} /\ link[e] = "down"
     /\ out[e] # "idle" /\ in[peer(e)] # "idle") =>
      Written(peer(e)) = Units[e] /\ Written(e) = Units[peer(e)]

\* "A half-close travels end to end": once e's stdin ended and its write side
\* is closed, or e gave the stream up because the local service did not answer,
\* the peer's copy to stdout ends too, whatever the other direction is doing.
HalfCloseTravels ==
  \A e \in End :
    (fin[e] \in {"sent", "reset"} /\ ~Faults) ~> (in[peer(e)] \in Ended \/ Over)

\* The dialer's first write makes the stream exist for the listener, so both
\* ends get to copying even when both stdins stay silent.
PipeOpens ==
  (pc["dialer"] = "openPipe" /\ ~Faults) ~>
    (in["listener"] # "idle" \/ \E e \in End : ctxDone[e])

\* The one way for a pipe not to end although its stdins do: a write waits for
\* a peer whose copy to stdout failed, which forward does not tell anybody.
\* connect, listen and connect-tcp get out of it by closing the connection
\* after their forward, unless that waits for such a peer itself; connect-unix
\* and listenForward leave the connection open.
Jammed ==
  \E e \in End :
    /\ pc[e] = "forward" /\ out[e] = "copy"
    /\ link[e] = "up" /\ Blocked(e) /\ in[peer(e)] = "err"
    /\ \/ kind[peer(e)] \in {"unix", "local"}
       \/ out[peer(e)] = "copy" /\ Blocked(peer(e)) /\ in[e] = "err"

\* With stdins that end, the pipe ends at both ends: none waits for ever in
\* forward or in linger for the other, whatever fails, but when it is Jammed.
\* And the interrupt ends the commands that forward, although it reaches
\* neither forward nor linger: acceptLocal and listenForward return once the
\* pipe they wait for is over.
Terminates ==
  /\ <>(Over \/ world = "silent" \/ Jammed)
  /\ \A e \in End :
       (ctxDone[e] /\ kind[e] # "stdio" /\ world = "steady") ~> pc[e] = "exited"

\* The pipe as the programs at its ends see it: what has gone in and come out,
\* and how a source that is no longer copied ended.
PutIn(e) == IF out[e] = "idle" THEN 0 ELSE Copied(e)
GotOut(e) == IF in[e] = "idle" THEN 0 ELSE Written(e)
SourceIs(e) ==
  IF out[e] \notin Ended THEN "open"
  ELSE IF Copied(e) = Units[e] THEN "eof"
  ELSE IF broke[e] THEN "failed" ELSE "cut"

ThePipe == INSTANCE Pipe WITH
  Capacity <- Window,
  put <- [e \in End |-> PutIn(e)],
  got <- [e \in End |-> GotOut(e)],
  source <- [e \in End |-> SourceIs(e)],
  sink <- in

\* Connection, stream, handshake, FIN and flow control together are two bounded
\* buffers: in every step of any of the commands, interrupted, cut off or timed
\* out, a side gets only what the other has put in, a source is never further
\* ahead than the window although the handshake is read before the copies
\* start, the listener copies only once the dialer does, and a sink that ends
\* without an error has everything up to the end of the other side's source.
ImplementsPipe == ThePipe!PSpec
=============================================================================
