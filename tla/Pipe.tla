-------------------------------- MODULE Pipe --------------------------------
(***************************************************************************)
(* What dumbpipe promises the programs at the two ends of a pipe, with no   *)
(* connection, no handshake and no commands: two bounded buffers, one each  *)
(* way, between a source that ends or fails and a sink that is told the     *)
(* truth about it.  Any sink may fail at any time; one that succeeds has    *)
(* everything.  DumbPipe implements this.                                  *)
(***************************************************************************)
EXTENDS Naturals

CONSTANTS Units,     \* what the source of each side holds
          Capacity   \* how far a source may be ahead of the other side's sink

VARIABLES put,       \* units each side's source has put into the pipe
          got,       \* units each side's sink has got out of it
          source,    \* of each side: open, or how it ended: eof, failed, cut
          sink       \* of each side: idle, copy, and how it ended: ok, err

pvars == <<put, got, source, sink>>

Side == {"dialer", "listener"}
Across(s) == IF s = "dialer" THEN "listener" ELSE "dialer"

PInit ==
  /\ put = [s \in Side |-> 0]
  /\ got = [s \in Side |-> 0]
  /\ source = [s \in Side |-> "open"]
  /\ sink = [s \in Side |-> "idle"]

\* A side begins to copy, the dialer's first.
Open(s) ==
  /\ sink[s] = "idle"
  /\ s = "listener" => sink["dialer"] # "idle"
  /\ sink' = [sink EXCEPT ![s] = "copy"]
  /\ UNCHANGED <<put, got, source>>

Put(s) ==
  /\ sink[s] # "idle" /\ source[s] = "open"
  /\ put[s] < Units[s]
  /\ put[s] - got[Across(s)] < Capacity
  /\ put' = [put EXCEPT ![s] = @ + 1]
  /\ UNCHANGED <<got, source, sink>>

\* A source that is not used up has failed, or finds that nobody takes more.
EndSource(s) ==
  /\ sink[s] # "idle" /\ source[s] = "open"
  /\ \E how \in IF put[s] = Units[s] THEN {"eof"} ELSE {"failed", "cut"} :
       source' = [source EXCEPT ![s] = how]
  /\ UNCHANGED <<put, got, sink>>

Get(s) ==
  /\ sink[s] = "copy"
  /\ got[s] < put[Across(s)]
  /\ got' = [got EXCEPT ![s] = @ + 1]
  /\ UNCHANGED <<put, source, sink>>

\* A sink succeeds with all that the other side's source held, or held until
\* it failed, and never because the pipe was cut.
Succeed(s) ==
  /\ sink[s] = "copy"
  /\ source[Across(s)] \in {"eof", "failed"}
  /\ got[s] = put[Across(s)]
  /\ sink' = [sink EXCEPT ![s] = "ok"]
  /\ UNCHANGED <<put, got, source>>

Fail(s) ==
  /\ sink[s] = "copy"
  /\ sink' = [sink EXCEPT ![s] = "err"]
  /\ UNCHANGED <<put, got, source>>

PNext == \E s \in Side : Open(s) \/ Put(s) \/ EndSource(s) \/ Get(s) \/ Succeed(s) \/ Fail(s)

PSpec == PInit /\ [][PNext]_pvars
=============================================================================
