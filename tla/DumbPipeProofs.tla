--------------------------- MODULE DumbPipeProofs ---------------------------
(***************************************************************************)
(* What a pipe delivers: for any two stdins, any flow-control window, with  *)
(* and without the handshake, and whichever commands run at the two ends.   *)
(***************************************************************************)
EXTENDS DumbPipe, TLAPS

-----------------------------------------------------------------------------
(* The inductive invariant.                                                *)

\* The commands an end runs and where they may be.
Control ==
  /\ world \in World
  /\ kind \in [End -> {"stdio", "tcp", "unix", "local"}]
  /\ pc \in [End -> {"waitLocal", "dial", "openPipe", "accept", "acceptPipe",
                     "acceptNext", "dialLocal", "forward", "linger", "handled",
                     "exited"}]
  /\ link \in [End -> {"none", "up", "down"}]
  /\ out \in [End -> {"idle", "copy", "ok", "err"}]
  /\ in \in [End -> {"idle", "copy", "ok", "err"}]
  /\ fin \in [End -> {"no", "sent", "arrived", "reset", "aborted"}]
  /\ sent \in [End -> Nat] /\ arrived \in [End -> Nat] /\ taken \in [End -> Nat]

\* Before forward no goroutine copies, and after it both have ended.
Stages(e) ==
  /\ kind[e] \in Kind(e)
  /\ pc[e] \in {"waitLocal", "dial", "openPipe", "accept", "acceptPipe", "acceptNext", "dialLocal"} =>
       out[e] = "idle" /\ in[e] = "idle"
  /\ pc[e] = "linger" => out[e] \in Ended /\ in[e] \in Ended
  /\ pc[e] \in {"accept", "acceptPipe", "acceptNext", "dialLocal"} => e = "listener"
  /\ pc[e] \in {"dial", "openPipe", "waitLocal"} => e = "dialer"
  /\ pc[e] \in {"dialLocal", "handled"} => kind[e] # "stdio"
  /\ pc[e] = "handled" /\ kind[e] = "tcp" => link[e] # "up"

\* What is read has arrived, what has arrived was sent, and the handshake is
\* sent and read before anything is copied.
Counts(e) ==
  /\ taken[e] <= arrived[e] /\ arrived[e] <= sent[e]
  /\ out[e] = "idle" => sent[e] = 0
  /\ out[e] # "idle" => Prelude(e) <= sent[e] /\ Copied(e) <= Units[e]
  /\ pc[peer(e)] \in {"accept", "acceptPipe"} => taken[e] = 0
  /\ pc[peer(e)] = "dialLocal" => Prelude(e) <= taken[e]
  /\ in[peer(e)] # "idle" => Prelude(e) <= taken[e]
  /\ fin[e] = "arrived" => arrived[e] = sent[e]

\* An end that never gets to copying.
Stuck(e) == out[e] = "idle" /\ in[e] = "idle" /\ pc[e] \in {"acceptNext", "handled", "exited"}

\* A direction is ended by the goroutine that writes it, once everything is
\* written unless stdin failed or the peer gave the stream up; one that is
\* cancelled was never copied into.
Ends(e) ==
  /\ fin[e] \in {"sent", "arrived"} =>
       /\ out[e] \in Ended
       /\ Copied(e) = Units[e] \/ broke[e] \/ Stuck(peer(e))
  /\ fin[e] \in {"reset", "aborted"} => Stuck(e)
  /\ in[e] = "ok" => fin[peer(e)] = "arrived" /\ taken[peer(e)] = sent[peer(e)]

\* With nothing that fails, a connection is closed, and a read of it fails,
\* only when an end never gets to copying or when both have copied everything.
Settled == (\E e \in End : Stuck(e)) \/ (\A e \in End : in[e] = "ok")

ClosedLate ==
  world = "steady" /\ ~Cut =>
    /\ \A e \in End : ~broke[e]
    /\ \A e \in End : link[e] = "down" \/ in[e] = "err" => Settled

\* An interrupt stays, and so does the failure of a stdin.
Flags == ctxDone \in [End -> BOOLEAN] /\ broke \in [End -> BOOLEAN]

Inv ==
  /\ Control /\ Flags
  /\ \A e \in End : Stages(e) /\ Counts(e) /\ Ends(e)
  /\ ClosedLate

-----------------------------------------------------------------------------
(* The two ends, and the handshake.                                        *)

LEMMA TheOtherEnd ==
  ASSUME NEW e \in End
  PROVE  /\ peer(e) \in End /\ peer(e) # e /\ peer(peer(e)) = e
         /\ \A x \in End : x = e \/ x = peer(e)
         /\ peer("dialer") = "listener" /\ peer("listener") = "dialer"
BY DEF End, peer

LEMMA PreludeIsSmall ==
  ASSUME NEW e \in End
  PROVE  Prelude(e) \in {0, 1} /\ Prelude("listener") = 0
BY DEF Prelude

LEMMA ControlIsKept ==
  ASSUME Control, [Next]_vars
  PROVE  Control'
<1> USE ConstantsAssumption, TheOtherEnd DEF Control
<1>0. "dialer" \in End /\ "listener" \in End
  BY DEF End
<1>1. CASE dial
  BY <1>0, <1>1 DEF dial, stream
<1>2. CASE dialFails
  BY <1>0, <1>2 DEF dialFails, finish, exit, closeConn, stream
<1>3. CASE openPipe
  BY <1>0, <1>3, PreludeIsSmall DEF openPipe, startForward, stream
<1>4. CASE openPipeFails
  BY <1>0, <1>4 DEF openPipeFails, finish, exit, closeConn, stream
<1>5. CASE Accept
  BY <1>0, <1>5 DEF Accept, stream
<1>6. CASE AcceptFails
  BY <1>0, <1>6 DEF AcceptFails, exit, closeConn, stream
<1>7. CASE acceptPipe
  BY <1>0, <1>7, PreludeIsSmall DEF acceptPipe, startForward, stream
<1>8. CASE acceptPipeFails
  BY <1>0, <1>8 DEF acceptPipeFails, closeConn, stream
<1>9. CASE forwardLocal
  BY <1>0, <1>9 DEF forwardLocal, startForward, stream
<1>10. CASE forwardLocalFails
  BY <1>0, <1>10 DEF forwardLocalFails
<1>11. CASE nextPipeFails \/ listenForwardReturns
  BY <1>0, <1>11 DEF nextPipeFails, listenForwardReturns, exit, closeConn, stream
<1>12. ASSUME NEW e \in End, forwardReturns(e) \/ acceptLocal(e) \/ Interrupt(e)
      PROVE  Control'
  BY <1>12 DEF forwardReturns, acceptLocal, Interrupt, stream
<1>13. ASSUME NEW e \in End, linger(e) \/ acceptLocalReturns(e)
      PROVE  Control'
  BY <1>13 DEF linger, acceptLocalReturns, finish, exit, closeConn, stream
<1>14. ASSUME NEW e \in End, StdinFails(e) \/ CopyOutEOF(e) \/ CopyOutRefused(e)
      PROVE  Control'
  BY <1>14 DEF StdinFails, CopyOutEOF, CopyOutRefused, closeWrite
<1>15. ASSUME NEW e \in End, CopyOut(e) \/ CopyIn(e)
      PROVE  Control'
  BY <1>15 DEF CopyOut, CopyIn
<1>16. ASSUME NEW e \in End, CopyInEOF(e) \/ CopyInFails(e)
      PROVE  Control'
  BY <1>16 DEF CopyInEOF, CopyInFails, stream
<1>17. ASSUME NEW e \in End, Deliver(e)
      PROVE  Control'
  BY <1>17 DEF Deliver
<1>18. ASSUME NEW e \in End, CloseArrives(e) \/ ConnectionLost(e)
      PROVE  Control'
  BY <1>18 DEF CloseArrives, ConnectionLost, stream
<1>19. CASE UNCHANGED vars
  BY <1>19 DEF vars, stream
<1> QED
  BY <1>1, <1>2, <1>3, <1>4, <1>5, <1>6, <1>7, <1>8, <1>9, <1>10, <1>11, <1>12, <1>13, <1>14, <1>15,
     <1>16, <1>17, <1>18, <1>19 DEF Next, Command, Source, Sink

LEMMA FlagsAreKept ==
  ASSUME Flags, [Next]_vars
  PROVE  Flags'
<1>1. \/ UNCHANGED <<ctxDone, broke>>
      \/ \E e \in End : ctxDone' = [ctxDone EXCEPT ![e] = TRUE] /\ UNCHANGED broke
      \/ \E e \in End : broke' = [broke EXCEPT ![e] = TRUE] /\ UNCHANGED ctxDone
  <2>1. CASE Command
    BY <2>1 DEF Command, dial, dialFails, openPipe, openPipeFails, Accept, AcceptFails, acceptPipe, acceptPipeFails,
                forwardLocal, forwardLocalFails, nextPipeFails, listenForwardReturns, forwardReturns, linger,
                acceptLocalReturns
  <2>2. ASSUME NEW e \in End,
               acceptLocal(e) \/ Interrupt(e) \/ StdinFails(e) \/ Source(e) \/ Sink(e)
               \/ Deliver(e) \/ CloseArrives(e) \/ ConnectionLost(e)
        PROVE  \/ UNCHANGED <<ctxDone, broke>>
               \/ ctxDone' = [ctxDone EXCEPT ![e] = TRUE] /\ UNCHANGED broke
               \/ broke' = [broke EXCEPT ![e] = TRUE] /\ UNCHANGED ctxDone
    BY <2>2 DEF acceptLocal, Interrupt, StdinFails, Source, CopyOut, CopyOutEOF, CopyOutRefused, Sink, CopyIn,
                CopyInEOF, CopyInFails, Deliver, CloseArrives, ConnectionLost
  <2> QED
    BY <2>1, <2>2 DEF Next, vars
<1> QED
  BY <1>1 DEF Flags

-----------------------------------------------------------------------------
(* Each conjunct of the invariant is kept.                                 *)

LEMMA StagesAreKept ==
  ASSUME Control, \A e \in End : Stages(e), [Next]_vars, NEW x \in End
  PROVE  Stages(x)'
<1> USE TheOtherEnd DEF Control, Stages, Kind, Ended
<1>0. "dialer" \in End /\ "listener" \in End
  BY DEF End
<1>1. CASE dial
  BY <1>0, <1>1 DEF dial, stream
<1>2. CASE dialFails
  BY <1>0, <1>2 DEF dialFails, finish, exit, closeConn, stream
<1>3. CASE openPipe
  BY <1>0, <1>3 DEF openPipe, startForward
<1>4. CASE openPipeFails
  BY <1>0, <1>4 DEF openPipeFails, finish, exit, closeConn, stream
<1>5. CASE Accept
  BY <1>0, <1>5 DEF Accept, stream
<1>6. CASE AcceptFails
  BY <1>0, <1>6 DEF AcceptFails, exit, closeConn, stream
<1>7. CASE acceptPipe
  BY <1>0, <1>7 DEF acceptPipe, startForward
<1>8. CASE acceptPipeFails
  BY <1>0, <1>8 DEF acceptPipeFails, closeConn, stream
<1>9. CASE forwardLocal
  BY <1>0, <1>9 DEF forwardLocal, startForward, stream
<1>10. CASE forwardLocalFails
  BY <1>0, <1>10 DEF forwardLocalFails
<1>11. CASE nextPipeFails \/ listenForwardReturns
  BY <1>0, <1>11 DEF nextPipeFails, listenForwardReturns, exit, closeConn, stream
<1>12. ASSUME NEW e \in End, forwardReturns(e) \/ acceptLocal(e) \/ Interrupt(e)
      PROVE  Stages(x)'
  BY <1>12 DEF forwardReturns, acceptLocal, Interrupt, stream
<1>13. ASSUME NEW e \in End, linger(e) \/ acceptLocalReturns(e)
      PROVE  Stages(x)'
  BY <1>13 DEF linger, acceptLocalReturns, finish, exit, closeConn, stream
<1>14. ASSUME NEW e \in End, StdinFails(e) \/ CopyOutEOF(e) \/ CopyOutRefused(e)
      PROVE  Stages(x)'
  BY <1>14 DEF StdinFails, CopyOutEOF, CopyOutRefused, closeWrite
<1>15. ASSUME NEW e \in End, CopyOut(e) \/ CopyIn(e) \/ Deliver(e)
      PROVE  Stages(x)'
  BY <1>15 DEF CopyOut, CopyIn, Deliver
<1>16. ASSUME NEW e \in End, CopyInEOF(e) \/ CopyInFails(e)
      PROVE  Stages(x)'
  BY <1>16 DEF CopyInEOF, CopyInFails, stream
<1>17. ASSUME NEW e \in End, CloseArrives(e) \/ ConnectionLost(e)
      PROVE  Stages(x)'
  BY <1>17 DEF CloseArrives, ConnectionLost, stream
<1>18. CASE UNCHANGED vars
  BY <1>18 DEF vars, stream
<1> QED
  BY <1>1, <1>2, <1>3, <1>4, <1>5, <1>6, <1>7, <1>8, <1>9, <1>10, <1>11, <1>12, <1>13, <1>14, <1>15,
     <1>16, <1>17, <1>18 DEF Next, Command, Source, Sink

LEMMA CountsAreKept ==
  ASSUME Control, \A e \in End : Stages(e) /\ Counts(e) /\ Ends(e), [Next]_vars, NEW x \in End
  PROVE  Counts(x)'
<1> USE ConstantsAssumption, TheOtherEnd, PreludeIsSmall DEF Control, Counts, Ended, Copied
<1>0. "dialer" \in End /\ "listener" \in End
  BY DEF End
<1>1. CASE dial
  BY <1>0, <1>1 DEF dial, stream
<1>2. CASE dialFails
  BY <1>0, <1>2 DEF dialFails, finish, exit, closeConn, stream
<1>3. CASE openPipe
  BY <1>0, <1>3 DEF openPipe, startForward, Stages, Ends
<1>4. CASE openPipeFails
  BY <1>0, <1>4 DEF openPipeFails, finish, exit, closeConn, stream
<1>5. CASE Accept
  BY <1>0, <1>5 DEF Accept, stream
<1>6. CASE AcceptFails
  BY <1>0, <1>6 DEF AcceptFails, exit, closeConn, stream
<1>7. CASE acceptPipe
  <2>1. Prelude("dialer") <= arrived["dialer"]
    BY <1>0, <1>7 DEF acceptPipe, Ends
  <2> QED
    BY <1>0, <1>7, <2>1 DEF acceptPipe, startForward, Stages
<1>8. CASE acceptPipeFails
  BY <1>0, <1>8 DEF acceptPipeFails, closeConn, stream
<1>9. CASE forwardLocal
  BY <1>0, <1>9 DEF forwardLocal, startForward, stream
<1>10. CASE forwardLocalFails
  BY <1>0, <1>10 DEF forwardLocalFails
<1>11. CASE nextPipeFails \/ listenForwardReturns
  BY <1>0, <1>11 DEF nextPipeFails, listenForwardReturns, exit, closeConn, stream
<1>12. ASSUME NEW e \in End, forwardReturns(e) \/ acceptLocal(e) \/ Interrupt(e)
      PROVE  Counts(x)'
  BY <1>12 DEF forwardReturns, acceptLocal, Interrupt, stream
<1>13. ASSUME NEW e \in End, linger(e) \/ acceptLocalReturns(e)
      PROVE  Counts(x)'
  BY <1>13 DEF linger, acceptLocalReturns, finish, exit, closeConn, stream
<1>14. ASSUME NEW e \in End, StdinFails(e) \/ CopyOutEOF(e) \/ CopyOutRefused(e)
      PROVE  Counts(x)'
  BY <1>14 DEF StdinFails, CopyOutEOF, CopyOutRefused, closeWrite
<1>15. ASSUME NEW e \in End, CopyOut(e)
      PROVE  Counts(x)'
  BY <1>15 DEF CopyOut, Ends
<1>16. ASSUME NEW e \in End, CopyIn(e)
      PROVE  Counts(x)'
  BY <1>16 DEF CopyIn, Stages
<1>17. ASSUME NEW e \in End, Deliver(e)
      PROVE  Counts(x)'
  BY <1>17 DEF Deliver
<1>18. ASSUME NEW e \in End, CopyInEOF(e) \/ CopyInFails(e)
      PROVE  Counts(x)'
  BY <1>18 DEF CopyInEOF, CopyInFails, stream
<1>19. ASSUME NEW e \in End, CloseArrives(e) \/ ConnectionLost(e)
      PROVE  Counts(x)'
  BY <1>19 DEF CloseArrives, ConnectionLost, stream
<1>20. CASE UNCHANGED vars
  BY <1>20 DEF vars, stream
<1> QED
  BY <1>1, <1>2, <1>3, <1>4, <1>5, <1>6, <1>7, <1>8, <1>9, <1>10, <1>11, <1>12, <1>13, <1>14, <1>15,
     <1>16, <1>17, <1>18, <1>19, <1>20 DEF Next, Command, Source, Sink

\* An end that gave up does not come back to this pipe.
LEMMA StuckForGood ==
  ASSUME Control, \A e \in End : Stages(e), [Next]_vars, NEW x \in End, Stuck(x)
  PROVE  Stuck(x)'
<1> USE TheOtherEnd DEF Control, Stages, Stuck, Ended
<1>0. "dialer" \in End /\ "listener" \in End
  BY DEF End
<1>1. CASE dial \/ openPipe \/ Accept \/ acceptPipe \/ forwardLocal
  BY <1>0, <1>1 DEF dial, openPipe, Accept, acceptPipe, forwardLocal, startForward
<1>2. CASE dialFails \/ openPipeFails \/ AcceptFails \/ acceptPipeFails
  BY <1>0, <1>2 DEF dialFails, openPipeFails, AcceptFails, acceptPipeFails, finish, exit
<1>3. CASE forwardLocalFails \/ nextPipeFails \/ listenForwardReturns
  BY <1>0, <1>3 DEF forwardLocalFails, nextPipeFails, listenForwardReturns, exit
<1>4. ASSUME NEW e \in End,
             forwardReturns(e) \/ linger(e) \/ acceptLocalReturns(e) \/ acceptLocal(e) \/ Interrupt(e)
      PROVE  Stuck(x)'
  BY <1>4 DEF forwardReturns, linger, acceptLocalReturns, acceptLocal, Interrupt, finish, exit
<1>5. ASSUME NEW e \in End, StdinFails(e) \/ Source(e) \/ Sink(e)
      PROVE  Stuck(x)'
  BY <1>5 DEF StdinFails, Source, CopyOut, CopyOutEOF, CopyOutRefused, closeWrite, Sink, CopyIn, CopyInEOF,
              CopyInFails
<1>6. ASSUME NEW e \in End, Deliver(e) \/ CloseArrives(e) \/ ConnectionLost(e)
      PROVE  Stuck(x)'
  BY <1>6 DEF Deliver, CloseArrives, ConnectionLost
<1>7. CASE UNCHANGED vars
  BY <1>7 DEF vars
<1> QED
  BY <1>1, <1>2, <1>3, <1>4, <1>5, <1>6, <1>7 DEF Next, Command

LEMMA EndsAreKept ==
  ASSUME Control, \A e \in End : Stages(e) /\ Counts(e) /\ Ends(e), [Next]_vars, NEW x \in End,
         broke \in [End -> BOOLEAN]
  PROVE  Ends(x)'
<1> USE TheOtherEnd DEF Control, Ended
<1>0. "dialer" \in End /\ "listener" \in End
  BY DEF End
<1>1. ASSUME NEW e \in End, Stuck(e) PROVE Stuck(e)'
  BY <1>1, StuckForGood
<1>2. ASSUME UNCHANGED <<sent, taken, fin, broke, out, in>>
      PROVE  Ends(x)'
  BY <1>1, <1>2 DEF Ends, Copied
<1>3. ASSUME \/ dial \/ dialFails \/ openPipeFails \/ Accept \/ AcceptFails \/ acceptPipeFails
             \/ nextPipeFails \/ listenForwardReturns
             \/ \E e \in End : \/ forwardReturns(e) \/ linger(e) \/ acceptLocalReturns(e) \/ acceptLocal(e)
                             \/ Interrupt(e) \/ CloseArrives(e) \/ ConnectionLost(e)
             \/ UNCHANGED vars
      PROVE  UNCHANGED <<sent, taken, fin, broke, out, in>>
  BY <1>3 DEF dial, dialFails, openPipeFails, Accept, AcceptFails, acceptPipeFails, nextPipeFails,
              listenForwardReturns, forwardReturns, linger, acceptLocalReturns, acceptLocal, Interrupt,
              CloseArrives, ConnectionLost, stream, vars
<1>4. CASE openPipe
  BY <1>0, <1>1, <1>4 DEF openPipe, startForward, Stages, Ends, Copied, Stuck
<1>5. CASE acceptPipe
  BY <1>0, <1>1, <1>5 DEF acceptPipe, startForward, Stages, Ends, Copied
<1>6. CASE forwardLocal
  BY <1>0, <1>1, <1>6 DEF forwardLocal, startForward, stream, Stages, Ends, Copied
<1>7. CASE forwardLocalFails
  <2>1. Stuck("listener")'
    BY <1>0, <1>7 DEF forwardLocalFails, Stages, Stuck
  <2> QED
    BY <1>0, <1>1, <1>7, <2>1 DEF forwardLocalFails, Stages, Ends, Copied
<1>8. ASSUME NEW e \in End, StdinFails(e) \/ CopyOutEOF(e) \/ CopyOutRefused(e)
      PROVE  Ends(x)'
  <2>1. /\ out[e] = "copy"
        /\ out' = [out EXCEPT ![e] = "ok"] \/ out' = [out EXCEPT ![e] = "err"]
        /\ fin' = [fin EXCEPT ![e] = IF link[e] = "up" THEN "sent" ELSE @]
        /\ UNCHANGED <<sent, taken, in>>
    BY <1>8 DEF StdinFails, CopyOutEOF, CopyOutRefused, closeWrite
  <2>2. broke' = broke \/ broke' = [broke EXCEPT ![e] = TRUE]
    BY <1>8 DEF StdinFails, CopyOutEOF, CopyOutRefused
  <2>3. \A y \in End : broke[y] => broke'[y]
    BY <2>2
  <2>4. link[e] = "up" => Copied(e) = Units[e] \/ broke'[e] \/ Stuck(peer(e))
    BY <1>8 DEF StdinFails, CopyOutEOF, CopyOutRefused, Refused, Ends
  <2> QED
    BY <1>1, <2>1, <2>3, <2>4 DEF Ends, Copied
<1>9. ASSUME NEW e \in End, CopyOut(e)
      PROVE  Ends(x)'
  BY <1>1, <1>9 DEF CopyOut, Ends, Copied
<1>10. ASSUME NEW e \in End, CopyIn(e)
      PROVE  Ends(x)'
  BY <1>1, <1>10 DEF CopyIn, Ends, Copied
<1>11. ASSUME NEW e \in End, CopyInEOF(e) \/ CopyInFails(e)
      PROVE  Ends(x)'
  BY <1>1, <1>11 DEF CopyInEOF, CopyInFails, stream, Ends, Copied
<1>12. ASSUME NEW e \in End, Deliver(e)
      PROVE  Ends(x)'
  BY <1>1, <1>12 DEF Deliver, Ends, Copied
<1> QED
  BY <1>2, <1>3, <1>4, <1>5, <1>6, <1>7, <1>8, <1>9, <1>10, <1>11, <1>12 DEF Next, Command, Source, Sink

LEMMA SettledForGood ==
  ASSUME Control, \A e \in End : Stages(e), [Next]_vars, Settled
  PROVE  Settled'
<1>1. ASSUME NEW x \in End, Stuck(x) PROVE Settled'
  BY <1>1, StuckForGood DEF Settled
<1>2. ASSUME NEW x \in End, in[x] = "ok" PROVE in'[x] = "ok"
  <2> USE <1>2, TheOtherEnd DEF Control, Stages
  <2>0. "dialer" \in End /\ "listener" \in End
    BY DEF End
  <2>1. CASE openPipe \/ acceptPipe \/ forwardLocal
    BY <2>0, <2>1 DEF openPipe, acceptPipe, forwardLocal, startForward
  <2>2. ASSUME NEW e \in End, Sink(e) PROVE in'[x] = "ok"
    BY <2>2 DEF Sink, CopyIn, CopyInEOF, CopyInFails
  <2>3. ASSUME \/ dial \/ dialFails \/ openPipeFails \/ Accept \/ AcceptFails \/ acceptPipeFails
               \/ forwardLocalFails \/ nextPipeFails \/ listenForwardReturns
               \/ \E e \in End : \/ forwardReturns(e) \/ linger(e) \/ acceptLocalReturns(e) \/ acceptLocal(e)
                               \/ Interrupt(e) \/ CloseArrives(e) \/ ConnectionLost(e) \/ StdinFails(e)
                               \/ Source(e) \/ Deliver(e)
               \/ UNCHANGED vars
        PROVE  UNCHANGED in
    BY <2>3 DEF dial, dialFails, openPipeFails, Accept, AcceptFails, acceptPipeFails, forwardLocalFails,
                nextPipeFails, listenForwardReturns, forwardReturns, linger, acceptLocalReturns, acceptLocal,
                Interrupt, CloseArrives, ConnectionLost, StdinFails, Source, CopyOut, CopyOutEOF,
                CopyOutRefused, Deliver, vars
  <2> QED
    BY <2>1, <2>2, <2>3 DEF Next, Command
<1> QED
  BY <1>1, <1>2 DEF Settled

\* The surroundings are chosen once, and an interrupt stays.
LEMMA SteadyFromTheStart ==
  ASSUME Flags, [Next]_vars, world' = "steady", ~Cut'
  PROVE  world = "steady" /\ ~Cut
<1>1. UNCHANGED <<world, kind>> /\ \A e \in End : ctxDone[e] => ctxDone'[e]
  <2>1. CASE Command
    BY <2>1 DEF Command, dial, dialFails, openPipe, openPipeFails, Accept, AcceptFails, acceptPipe, acceptPipeFails,
                forwardLocal, forwardLocalFails, nextPipeFails, listenForwardReturns, forwardReturns, linger,
                acceptLocalReturns
  <2>2. ASSUME NEW e \in End, Interrupt(e)
        PROVE  UNCHANGED <<world, kind>> /\ \A x \in End : ctxDone[x] => ctxDone'[x]
    BY <2>2 DEF Interrupt, Flags
  <2>3. ASSUME NEW e \in End,
               acceptLocal(e) \/ StdinFails(e) \/ Source(e) \/ Sink(e)
               \/ Deliver(e) \/ CloseArrives(e) \/ ConnectionLost(e)
        PROVE  UNCHANGED <<world, kind, ctxDone>>
    BY <2>3 DEF acceptLocal, StdinFails, Source, CopyOut, CopyOutEOF, CopyOutRefused, Sink, CopyIn,
                CopyInEOF, CopyInFails, Deliver, CloseArrives, ConnectionLost
  <2> QED
    BY <2>1, <2>2, <2>3 DEF Next, vars
<1> QED
  BY <1>1 DEF Cut

\* The first end to close a connection whose pipe got to copying has lingered
\* until its peer had read everything, and had read everything itself.
LEMMA ClosedLateIsKept ==
  ASSUME Inv, [Next]_vars
  PROVE  ClosedLate'
<1> USE TheOtherEnd DEF Inv, Control
<1> SUFFICES ASSUME world' = "steady", ~Cut'
             PROVE  /\ \A e \in End : ~broke'[e]
                    /\ \A x \in End : link'[x] = "down" \/ in'[x] = "err" => Settled'
  BY DEF ClosedLate
<1>0. "dialer" \in End /\ "listener" \in End
  BY DEF End
<1>1. world = "steady" /\ ~Cut /\ ~Faults
  BY SteadyFromTheStart DEF Faults
<1>2. /\ \A e \in End : ~broke[e]
      /\ \A x \in End : link[x] = "down" \/ in[x] = "err" => Settled'
  BY <1>1, SettledForGood DEF ClosedLate
<1>3. UNCHANGED broke
  BY <1>1 DEF Next, Command, dial, dialFails, openPipe, openPipeFails, Accept, AcceptFails, acceptPipe,
              acceptPipeFails, forwardLocal, forwardLocalFails, nextPipeFails, listenForwardReturns,
              forwardReturns, linger, acceptLocalReturns, acceptLocal, Interrupt, StdinFails, Source, CopyOut,
              CopyOutEOF, CopyOutRefused, Sink, CopyIn, CopyInEOF, CopyInFails, Deliver, CloseArrives,
              ConnectionLost, vars
<1>4. ASSUME NEW e \in End, Stuck(e)' PROVE Settled'
  BY <1>4 DEF Settled
<1>5. CASE dialFails \/ openPipeFails
  <2>1. Stuck("dialer")'
    BY <1>0, <1>5 DEF dialFails, openPipeFails, finish, exit, Stages, Stuck
  <2> QED
    BY <1>0, <1>2, <1>3, <1>4, <2>1
<1>6. CASE AcceptFails \/ acceptPipeFails
  <2>1. Stuck("listener")'
    BY <1>0, <1>6 DEF AcceptFails, acceptPipeFails, Stages, Stuck, exit
  <2> QED
    BY <1>0, <1>2, <1>3, <1>4, <2>1
<1>7. CASE nextPipeFails
  BY <1>0, <1>1, <1>7 DEF nextPipeFails, Cut
<1>8. CASE listenForwardReturns
  BY <1>0, <1>2, <1>3, <1>8 DEF listenForwardReturns
<1>9. ASSUME NEW e \in End, acceptLocalReturns(e)
      PROVE  \A x \in End : link'[x] = "down" \/ in'[x] = "err" => Settled'
  <2>1. ctxDone[e] /\ kind[e] # "unix" /\ e = "dialer"
    BY <1>1, <1>9 DEF acceptLocalReturns, Cut, Stages
  <2>2. CASE pc[e] = "waitLocal"
    <3>1. Stuck(e)'
      BY <1>9, <2>2 DEF acceptLocalReturns, exit, Stages, Stuck
    <3> QED
      BY <1>4, <3>1
  <2>3. CASE pc[e] = "handled"
    <3>1. link[e] # "up"
      BY <1>0, <2>1, <2>3 DEF Stages, Kind
    <3> QED
      BY <1>2, <1>9, <3>1 DEF acceptLocalReturns, exit, closeConn
  <2> QED
    BY <1>9, <2>2, <2>3 DEF acceptLocalReturns
<1>10. ASSUME NEW e \in End, linger(e)
       PROVE  \A x \in End : link'[x] = "down" \/ in'[x] = "err" => Settled'
  <2>1. in[e] \in Ended /\ (link[e] = "down" \/ in[peer(e)] \in Ended) /\ UNCHANGED in
    BY <1>1, <1>10 DEF linger, SlowPeer, Stages
  <2>2. CASE link[e] = "down" \/ in[e] = "err" \/ in[peer(e)] = "err"
    BY <1>2, <2>2
  <2>3. CASE in[e] = "ok" /\ in[peer(e)] = "ok"
    BY <2>1, <2>3 DEF Settled
  <2> QED
    BY <2>1, <2>2, <2>3 DEF Ended
<1>11. ASSUME NEW e \in End, CloseArrives(e) \/ ConnectionLost(e)
       PROVE  \A x \in End : link'[x] = "down" \/ in'[x] = "err" => Settled'
  BY <1>1, <1>2, <1>11 DEF CloseArrives, ConnectionLost
<1>12. ASSUME NEW e \in End, CopyInFails(e)
       PROVE  \A x \in End : link'[x] = "down" \/ in'[x] = "err" => Settled'
  <2>1. link[e] = "down" \/ fin[peer(e)] = "aborted"
    BY <1>1, <1>12 DEF CopyInFails
  <2>2. CASE link[e] = "down"
    BY <1>2, <2>2
  <2>3. CASE fin[peer(e)] = "aborted"
    <3>1. Settled
      BY <2>3 DEF Ends, Settled
    <3> QED
      BY <3>1, SettledForGood
  <2> QED
    BY <2>1, <2>2, <2>3
<1>13. ASSUME \/ dial \/ openPipe \/ Accept \/ acceptPipe \/ forwardLocal \/ forwardLocalFails
              \/ \E e \in End : \/ forwardReturns(e) \/ acceptLocal(e) \/ Interrupt(e) \/ StdinFails(e)
                              \/ Source(e) \/ CopyIn(e) \/ CopyInEOF(e) \/ Deliver(e)
              \/ UNCHANGED vars
       PROVE  \A x \in End : (link'[x] = "down" => link[x] = "down") /\ (in'[x] = "err" => in[x] = "err")
  BY <1>13 DEF dial, openPipe, Accept, acceptPipe, forwardLocal, forwardLocalFails, startForward, forwardReturns,
               acceptLocal, Interrupt, StdinFails, Source, CopyOut, CopyOutEOF, CopyOutRefused, CopyIn, CopyInEOF,
               Deliver, vars
<1> QED
  BY <1>2, <1>3, <1>5, <1>6, <1>7, <1>8, <1>9, <1>10, <1>11, <1>12, <1>13 DEF Next, Command, Sink

-----------------------------------------------------------------------------
(* The theorems.                                                           *)

LEMMA InvIsInvariant == Spec => []Inv
<1>1. Init => Inv
  <2> SUFFICES ASSUME Init PROVE Inv
    OBVIOUS
  <2> USE ConstantsAssumption, PreludeIsSmall DEF Init
  <2>1. Control
    BY DEF Control, Kind
  <2>2. Flags
    BY DEF Flags
  <2>3. ASSUME NEW e \in End PROVE Stages(e) /\ Counts(e) /\ Ends(e)
    <3>1. Stages(e)
      BY DEF Stages, End, Kind
    <3> QED
      BY <3>1, TheOtherEnd DEF Counts, Ends
  <2>4. ClosedLate
    BY DEF ClosedLate
  <2> QED
    BY <2>1, <2>2, <2>3, <2>4 DEF Inv
<1>2. Inv /\ [Next]_vars => Inv'
  <2> SUFFICES ASSUME Inv, [Next]_vars PROVE Inv'
    OBVIOUS
  <2>1. Control' /\ Flags'
    BY ControlIsKept, FlagsAreKept DEF Inv
  <2>2. ASSUME NEW e \in End PROVE Stages(e)' /\ Counts(e)' /\ Ends(e)'
    BY StagesAreKept, CountsAreKept, EndsAreKept DEF Inv, Flags
  <2> QED
    BY <2>1, <2>2, ClosedLateIsKept DEF Inv
<1> QED
  BY <1>1, <1>2, PTL DEF Spec

\* Every variable stays in its range: no end reads more than has arrived or
\* sends more than its stdin held.
THEOREM TypeCorrect == Spec => []TypeOK
<1>1. Inv => TypeOK
  <2> SUFFICES ASSUME Inv PROVE TypeOK
    OBVIOUS
  <2>1. ctxDone \in [End -> BOOLEAN] /\ broke \in [End -> BOOLEAN]
    BY DEF Inv, Flags
  <2>2. ASSUME NEW e \in End
        PROVE  /\ sent[e] \in 0..(Prelude(e) + Units[e])
               /\ arrived[e] \in 0..sent[e]
               /\ taken[e] \in 0..arrived[e]
    <3>1. sent[e] \in Nat /\ arrived[e] \in Nat /\ taken[e] \in Nat /\ Units[e] \in Nat /\ Prelude(e) \in Nat
      BY ConstantsAssumption, PreludeIsSmall DEF Inv, Control
    <3>2. /\ taken[e] <= arrived[e] /\ arrived[e] <= sent[e]
          /\ sent[e] = 0 \/ sent[e] - Prelude(e) <= Units[e]
      BY DEF Inv, Counts, Copied
    <3> QED
      BY <3>1, <3>2
  <2> QED
    BY <2>1, <2>2 DEF Inv, Control, Stages, TypeOK
<1> QED
  BY <1>1, InvIsInvariant, PTL

\* What an ended copy to stdout has written.
LEMMA CopiedWhole ==
  ASSUME Inv, NEW e \in End, in[e] = "ok"
  PROVE  Written(e) = Units[peer(e)] \/ broke[peer(e)]
<1>1. peer(e) \in End /\ peer(peer(e)) = e
  BY TheOtherEnd
<1>2. fin[peer(e)] = "arrived" /\ taken[peer(e)] = sent[peer(e)]
  BY DEF Inv, Ends
<1>3. Copied(peer(e)) = Units[peer(e)] \/ broke[peer(e)] \/ Stuck(e)
  BY <1>1, <1>2 DEF Inv, Ends
<1> QED
  BY <1>2, <1>3 DEF Written, Copied, Stuck

\* forward's copy to stdout succeeds only with everything the peer's stdin
\* held, or that it held until it failed: a closed connection, a timeout or a
\* stream given up is never taken for the end of the data.
THEOREM CopiesAreComplete == Spec => []NoSilentLoss
<1>1. Inv => NoSilentLoss
  BY CopiedWhole DEF NoSilentLoss
<1> QED
  BY <1>1, InvIsInvariant, PTL

\* Lingering suffices: when nothing fails and a peer reads within
\* lingerTimeout, no close of a connection cuts off what was written to it.
THEOREM LingerSuffices == Spec => []NothingLost
<1>1. Inv => NothingLost
  <2> SUFFICES ASSUME Inv, NEW e \in End, world = "steady", ~Cut, link[e] = "down",
                      out[e] # "idle", in[peer(e)] # "idle"
               PROVE  Written(peer(e)) = Units[e] /\ Written(e) = Units[peer(e)]
    BY DEF NothingLost
  <2>1. Settled /\ \A x \in End : ~broke[x]
    BY DEF Inv, ClosedLate
  <2>2. \A x \in End : ~Stuck(x)
    BY TheOtherEnd DEF Stuck
  <2>3. \A x \in End : in[x] = "ok"
    BY <2>1, <2>2 DEF Settled
  <2> QED
    BY <2>1, <2>3, CopiedWhole, TheOtherEnd
<1> QED
  BY <1>1, InvIsInvariant, PTL

-----------------------------------------------------------------------------
(* A pipe of dumbpipe implements two bounded buffers.                      *)

\* The copies of an end start together, the dialer's first.
Opened ==
  /\ \A e \in End : out[e] = "idle" <=> in[e] = "idle"
  /\ pc["listener"] = "dialLocal" \/ in["listener"] # "idle" => in["dialer"] # "idle"

\* Before an end copies it has read nothing but the handshake.
Unread == \A e \in End : in[peer(e)] = "idle" => taken[e] <= Prelude(e)

\* Who has a stream to accept has a peer that copies.
LEMMA OpenedIsKept ==
  ASSUME Inv, Opened, [Next]_vars
  PROVE  Opened'
<1> USE TheOtherEnd DEF Inv, Control, Opened, Ended
<1>0. "dialer" \in End /\ "listener" \in End
  BY DEF End
<1>1. CASE dial \/ Accept \/ openPipe
  BY <1>0, <1>1 DEF dial, Accept, openPipe, startForward
<1>2. CASE dialFails \/ openPipeFails \/ AcceptFails \/ acceptPipeFails
  BY <1>0, <1>2 DEF dialFails, openPipeFails, AcceptFails, acceptPipeFails, finish, exit
<1>3. CASE acceptPipe
  <2>1. out["dialer"] # "idle"
    BY <1>0, <1>3 DEF acceptPipe, Counts, Ends
  <2> QED
    BY <1>0, <1>3, <2>1 DEF acceptPipe, startForward
<1>4. CASE forwardLocal \/ forwardLocalFails \/ nextPipeFails \/ listenForwardReturns
  BY <1>0, <1>4 DEF forwardLocal, forwardLocalFails, nextPipeFails, listenForwardReturns, startForward, exit
<1>5. ASSUME NEW e \in End,
             forwardReturns(e) \/ linger(e) \/ acceptLocalReturns(e) \/ acceptLocal(e) \/ Interrupt(e)
      PROVE  Opened'
  BY <1>0, <1>5 DEF forwardReturns, linger, acceptLocalReturns, acceptLocal, Interrupt, finish, exit
<1>6. ASSUME NEW e \in End, StdinFails(e) \/ Source(e)
      PROVE  Opened'
  BY <1>0, <1>6 DEF StdinFails, Source, CopyOut, CopyOutEOF, CopyOutRefused, closeWrite
<1>7. ASSUME NEW e \in End, Sink(e)
      PROVE  Opened'
  BY <1>0, <1>7 DEF Sink, CopyIn, CopyInEOF, CopyInFails
<1>8. ASSUME NEW e \in End, Deliver(e) \/ CloseArrives(e) \/ ConnectionLost(e)
      PROVE  Opened'
  BY <1>0, <1>8 DEF Deliver, CloseArrives, ConnectionLost
<1>9. CASE UNCHANGED vars
  BY <1>9 DEF vars
<1> QED
  BY <1>1, <1>2, <1>3, <1>4, <1>5, <1>6, <1>7, <1>8, <1>9 DEF Next, Command

LEMMA UnreadIsKept ==
  ASSUME Inv, Unread, [Next]_vars
  PROVE  Unread'
<1> USE TheOtherEnd, PreludeIsSmall DEF Inv, Control
<1>0. "dialer" \in End /\ "listener" \in End
  BY DEF End
<1>1. CASE acceptPipe
  <2>1. /\ taken' = [taken EXCEPT !["dialer"] = Prelude("dialer")]
        /\ \A x \in End : in'[x] = "idle" => in[x] = "idle"
    BY <1>0, <1>1 DEF acceptPipe, startForward
  <2> QED
    BY <1>0, <2>1 DEF Unread
<1>2. ASSUME NEW e \in End, CopyIn(e)
      PROVE  Unread'
  BY <1>2 DEF CopyIn, Unread
<1>3. CASE UNCHANGED taken /\ \A x \in End : in'[x] = "idle" => in[x] = "idle"
  BY <1>3 DEF Unread
<1>4. CASE dial \/ dialFails \/ openPipe \/ openPipeFails \/ Accept \/ AcceptFails \/ acceptPipeFails
  BY <1>0, <1>3, <1>4 DEF dial, dialFails, openPipe, openPipeFails, Accept, AcceptFails, acceptPipeFails,
     startForward, stream
<1>5. CASE forwardLocal \/ forwardLocalFails \/ nextPipeFails \/ listenForwardReturns \/ UNCHANGED vars
  BY <1>0, <1>3, <1>5 DEF forwardLocal, forwardLocalFails, nextPipeFails, listenForwardReturns, startForward,
     stream, vars
<1>6. ASSUME NEW e \in End,
             \/ forwardReturns(e) \/ linger(e) \/ acceptLocalReturns(e) \/ acceptLocal(e) \/ Interrupt(e)
             \/ Deliver(e) \/ CloseArrives(e) \/ ConnectionLost(e)
      PROVE  Unread'
  BY <1>3, <1>6 DEF forwardReturns, linger, acceptLocalReturns, acceptLocal, Interrupt, Deliver,
     CloseArrives, ConnectionLost, stream
<1>7. ASSUME NEW e \in End, StdinFails(e) \/ Source(e) \/ CopyInEOF(e) \/ CopyInFails(e)
      PROVE  Unread'
  BY <1>3, <1>7 DEF StdinFails, Source, CopyOut, CopyOutEOF, CopyOutRefused, CopyInEOF, CopyInFails, stream
<1> QED
  BY <1>1, <1>2, <1>4, <1>5, <1>6, <1>7 DEF Next, Command, Sink

\* The two sides of the abstract pipe are the two ends.
LEMMA SidesAreEnds ==
  ThePipe!Side = End /\ \A e \in End : ThePipe!Across(e) = peer(e)
BY DEF ThePipe!Side, ThePipe!Across, End, peer

\* What none of the copies takes part in is not seen at the ends of the pipe.
LEMMA Unseen ==
  ASSUME UNCHANGED <<out, in, sent, taken, broke>>
  PROVE  UNCHANGED ThePipe!pvars
BY DEF ThePipe!pvars, PutIn, GotOut, SourceIs, Copied, Written

\* Starting to copy.
LEMMA StartsRefine ==
  ASSUME Inv, Opened, NEW e \in End, in[e] = "idle",
         e = "listener" => in["dialer"] # "idle",
         out' = [out EXCEPT ![e] = "copy"], in' = [in EXCEPT ![e] = "copy"], UNCHANGED broke,
         \A x \in End : x # e => sent'[x] = sent[x],
         \A x \in End : x # peer(e) => taken'[x] = taken[x],
         sent'[e] = Prelude(e), taken'[peer(e)] = Prelude(peer(e))
  PROVE  ThePipe!Open(e)
<1> USE ConstantsAssumption, TheOtherEnd, PreludeIsSmall DEF Inv, Control, Opened
<1>1. out[e] = "idle"
  OBVIOUS
<1>2. \A x \in End : /\ out'[x] = IF x = e THEN "copy" ELSE out[x]
                     /\ in'[x] = IF x = e THEN "copy" ELSE in[x]
  OBVIOUS
<1>3. \A x \in End : PutIn(x)' = PutIn(x)
  BY <1>1, <1>2 DEF PutIn, Copied
<1>4. \A x \in End : GotOut(x)' = GotOut(x)
  BY <1>2 DEF GotOut, Written
<1>5. \A x \in End : SourceIs(x)' = SourceIs(x)
  BY <1>1, <1>2 DEF SourceIs, Ended, Copied
<1> QED
  BY <1>3, <1>4, <1>5 DEF ThePipe!Open

\* Every step of a pipe is a step of the two buffers, or none at all.
LEMMA StepsRefine ==
  ASSUME Inv, Opened, Unread, [Next]_vars
  PROVE  [ThePipe!PNext]_(ThePipe!pvars)
<1> USE ConstantsAssumption, TheOtherEnd, PreludeIsSmall DEF Inv, Control
<1>0. "dialer" \in End /\ "listener" \in End /\ ThePipe!Side = End
  BY SidesAreEnds DEF End
<1> DEFINE Goal == [ThePipe!PNext]_(ThePipe!pvars)
<1>1. ASSUME \/ dial \/ dialFails \/ openPipeFails \/ Accept \/ AcceptFails \/ acceptPipeFails
             \/ forwardLocalFails \/ nextPipeFails \/ listenForwardReturns
             \/ \E e \in End : \/ forwardReturns(e) \/ linger(e) \/ acceptLocalReturns(e) \/ acceptLocal(e)
                               \/ Interrupt(e) \/ Deliver(e) \/ CloseArrives(e) \/ ConnectionLost(e)
             \/ UNCHANGED vars
      PROVE  Goal
  <2>1. UNCHANGED <<out, in, sent, taken, broke>>
    BY <1>1 DEF dial, dialFails, openPipeFails, Accept, AcceptFails, acceptPipeFails, forwardLocalFails,
       nextPipeFails, listenForwardReturns, forwardReturns, linger, acceptLocalReturns, acceptLocal,
       Interrupt, Deliver, CloseArrives, ConnectionLost, stream, vars
  <2> QED
    BY <2>1, Unseen
<1>2. CASE openPipe
  <2>1. ThePipe!Open("dialer")
    <3>1. in["dialer"] = "idle" /\ out["dialer"] = "idle"
      BY <1>0, <1>2 DEF openPipe, Stages
    <3>2. taken["listener"] = 0 /\ Prelude("listener") = 0
      BY <1>0, <3>1 DEF Unread
    <3>3. /\ out' = [out EXCEPT !["dialer"] = "copy"] /\ in' = [in EXCEPT !["dialer"] = "copy"]
          /\ UNCHANGED <<broke, taken>> /\ sent' = [sent EXCEPT !["dialer"] = Prelude("dialer")]
      BY <1>2 DEF openPipe, startForward
    <3>4. /\ \A x \in End : x # "dialer" => sent'[x] = sent[x]
          /\ sent'["dialer"] = Prelude("dialer") /\ taken'[peer("dialer")] = Prelude(peer("dialer"))
          /\ \A x \in End : x # peer("dialer") => taken'[x] = taken[x]
      BY <1>0, <3>2, <3>3
    <3> QED
      BY <1>0, <3>1, <3>3, <3>4, StartsRefine
  <2> QED
    BY <1>0, <2>1 DEF ThePipe!PNext
<1>3. CASE acceptPipe
  <2>1. in["listener"] = "idle" /\ out["listener"] = "idle"
    BY <1>0, <1>3 DEF acceptPipe, Stages
  <2>2. sent["listener"] = 0 /\ Prelude("listener") = 0
    BY <1>0, <2>1 DEF Counts
  <2>3. taken' = [taken EXCEPT !["dialer"] = Prelude("dialer")] /\ UNCHANGED <<sent, broke>>
    BY <1>3 DEF acceptPipe
  <2>4. CASE kind["listener"] = "stdio"
    <3>1. out["dialer"] # "idle"
      BY <1>0, <1>3 DEF acceptPipe, Counts, Ends, Ended
    <3>2. out' = [out EXCEPT !["listener"] = "copy"] /\ in' = [in EXCEPT !["listener"] = "copy"]
      BY <1>3, <2>4 DEF acceptPipe, startForward
    <3>3. in["dialer"] # "idle"
      BY <1>0, <3>1 DEF Opened
    <3>4. ThePipe!Open("listener")
      BY <1>0, <2>1, <2>2, <2>3, <3>2, <3>3, StartsRefine
    <3> QED
      BY <1>0, <3>4 DEF ThePipe!PNext
  <2>5. CASE kind["listener"] # "stdio"
    <3>1. UNCHANGED <<out, in>>
      BY <1>3, <2>5 DEF acceptPipe
    <3>2. \A x \in End : PutIn(x)' = PutIn(x) /\ SourceIs(x)' = SourceIs(x)
      BY <2>3, <3>1 DEF PutIn, SourceIs, Copied
    <3>3. \A x \in End : GotOut(x)' = GotOut(x)
      BY <1>0, <2>1, <2>3, <3>1 DEF GotOut, Written
    <3> QED
      BY <3>1, <3>2, <3>3 DEF ThePipe!pvars
  <2> QED
    BY <2>4, <2>5
<1>4. CASE forwardLocal
  <2>1. in["listener"] = "idle" /\ out["listener"] = "idle" /\ in["dialer"] # "idle"
    BY <1>0, <1>4 DEF forwardLocal, Stages, Opened
  <2>2. sent["listener"] = 0 /\ Prelude("listener") = 0
    BY <1>0, <2>1 DEF Counts
  <2>3. taken["dialer"] = Prelude("dialer")
    BY <1>0, <1>4, <2>1 DEF forwardLocal, Counts, Unread
  <2>4. /\ out' = [out EXCEPT !["listener"] = "copy"] /\ in' = [in EXCEPT !["listener"] = "copy"]
        /\ UNCHANGED <<sent, taken, broke>>
    BY <1>4 DEF forwardLocal, startForward, stream
  <2>5. ThePipe!Open("listener")
    BY <1>0, <2>1, <2>2, <2>3, <2>4, StartsRefine
  <2> QED
    BY <1>0, <2>5 DEF ThePipe!PNext
<1>5. ASSUME NEW e \in End, CopyOut(e) PROVE Goal
  <2>1. /\ out[e] = "copy" /\ in[e] # "idle" /\ sent' = [sent EXCEPT ![e] = @ + 1]
        /\ UNCHANGED <<out, in, taken, broke>> /\ Copied(e) < Units[e] /\ sent[e] - taken[e] < Window
    BY <1>5 DEF CopyOut, Opened, Blocked
  <2>2. SourceIs(e) = "open" /\ \A x \in End : SourceIs(x)' = SourceIs(x) /\ GotOut(x)' = GotOut(x)
    BY <2>1 DEF SourceIs, GotOut, Ended, Copied, Written
  <2>3. PutIn(e)' = PutIn(e) + 1 /\ \A x \in End : x # e => PutIn(x)' = PutIn(x)
    BY <2>1 DEF PutIn, Copied
  <2>4. PutIn(e) < Units[e] /\ PutIn(e) - GotOut(peer(e)) < Window
    <3>1. in[peer(e)] = "idle" => taken[e] <= Prelude(e)
      BY DEF Unread
    <3> QED
      BY <2>1, <3>1 DEF PutIn, GotOut, Copied, Written
  <2>5. [x \in End |-> PutIn(x)]' = [[x \in End |-> PutIn(x)] EXCEPT ![e] = @ + 1]
    BY <2>3
  <2>6. UNCHANGED <<[x \in End |-> GotOut(x)], [x \in End |-> SourceIs(x)], in>>
    BY <2>1, <2>2
  <2>7. ThePipe!Put(e)
    BY <2>1, <2>2, <2>4, <2>5, <2>6, SidesAreEnds DEF ThePipe!Put
  <2> QED
    BY <1>0, <2>7 DEF ThePipe!PNext
<1>6. ASSUME NEW e \in End, StdinFails(e) \/ CopyOutEOF(e) \/ CopyOutRefused(e) PROVE Goal
  <2>1. /\ out[e] = "copy" /\ in[e] # "idle"
        /\ \E res \in Ended : out' = [out EXCEPT ![e] = res]
        /\ UNCHANGED <<in, sent, taken>> /\ \A x \in End : x # e => broke'[x] = broke[x]
    BY <1>6 DEF StdinFails, CopyOutEOF, CopyOutRefused, closeWrite, Opened, Ended, Flags
  <2>2. SourceIs(e) = "open" /\ out'[e] \in Ended /\ out'[e] # "idle"
    BY <2>1 DEF SourceIs, Ended
  <2>3. \A x \in End : PutIn(x)' = PutIn(x) /\ GotOut(x)' = GotOut(x)
    BY <2>1, <2>2 DEF PutIn, GotOut, Copied, Written
  <2>4. \A x \in End : x # e => SourceIs(x)' = SourceIs(x)
    BY <2>1 DEF SourceIs, Copied
  <2>5. SourceIs(e)' \in IF PutIn(e) = Units[e] THEN {"eof"} ELSE {"failed", "cut"}
    BY <2>1, <2>2 DEF SourceIs, PutIn, Copied
  <2>6. [x \in End |-> SourceIs(x)]' = [[x \in End |-> SourceIs(x)] EXCEPT ![e] = SourceIs(e)']
    BY <2>4
  <2>7. UNCHANGED <<[x \in End |-> PutIn(x)], [x \in End |-> GotOut(x)], in>>
    BY <2>1, <2>3
  <2>8. ThePipe!EndSource(e)
    BY <2>1, <2>2, <2>5, <2>6, <2>7 DEF ThePipe!EndSource
  <2> QED
    BY <1>0, <2>8 DEF ThePipe!PNext
<1>7. ASSUME NEW e \in End, CopyIn(e) PROVE Goal
  <2>1. /\ in[e] = "copy" /\ taken' = [taken EXCEPT ![peer(e)] = @ + 1]
        /\ UNCHANGED <<out, in, sent, broke>> /\ taken[peer(e)] < arrived[peer(e)]
    BY <1>7 DEF CopyIn
  <2>2. taken[peer(e)] < sent[peer(e)]
    BY <2>1 DEF Counts
  <2>3. out[peer(e)] # "idle"
    BY <2>2 DEF Counts
  <2>4. \A x \in End : PutIn(x)' = PutIn(x) /\ SourceIs(x)' = SourceIs(x)
    BY <2>1 DEF PutIn, SourceIs, Copied
  <2>5. GotOut(e)' = GotOut(e) + 1 /\ \A x \in End : x # e => GotOut(x)' = GotOut(x)
    BY <2>1 DEF GotOut, Written
  <2>6. GotOut(e) < PutIn(peer(e))
    BY <2>1, <2>2, <2>3 DEF GotOut, PutIn, Written, Copied
  <2>7. [x \in End |-> GotOut(x)]' = [[x \in End |-> GotOut(x)] EXCEPT ![e] = @ + 1]
    BY <2>5
  <2>8. UNCHANGED <<[x \in End |-> PutIn(x)], [x \in End |-> SourceIs(x)], in>>
    BY <2>1, <2>4
  <2>9. ThePipe!Get(e)
    BY <2>1, <2>6, <2>7, <2>8, SidesAreEnds DEF ThePipe!Get
  <2> QED
    BY <1>0, <2>9 DEF ThePipe!PNext
<1>8. ASSUME NEW e \in End, CopyInEOF(e) \/ CopyInFails(e) PROVE Goal
  <2>1. /\ in[e] = "copy" /\ UNCHANGED <<out, sent, taken, broke>>
        /\ \/ /\ in' = [in EXCEPT ![e] = "ok"] /\ fin[peer(e)] = "arrived"
              /\ taken[peer(e)] = sent[peer(e)]
           \/ in' = [in EXCEPT ![e] = "err"]
    BY <1>8 DEF CopyInEOF, CopyInFails, stream
  <2>2. \A x \in End : in'[x] = "idle" <=> in[x] = "idle"
    BY <2>1
  <2>3. \A x \in End : PutIn(x)' = PutIn(x) /\ GotOut(x)' = GotOut(x) /\ SourceIs(x)' = SourceIs(x)
    BY <2>1, <2>2 DEF PutIn, GotOut, SourceIs, Copied, Written
  <2>4. CASE in' = [in EXCEPT ![e] = "err"]
    <3>1. ThePipe!Fail(e)
      BY <2>1, <2>3, <2>4 DEF ThePipe!Fail
    <3> QED
      BY <1>0, <3>1 DEF ThePipe!PNext
  <2>5. CASE in' = [in EXCEPT ![e] = "ok"] /\ fin[peer(e)] = "arrived" /\ taken[peer(e)] = sent[peer(e)]
    <3>1. out[peer(e)] \in Ended /\ (Copied(peer(e)) = Units[peer(e)] \/ broke[peer(e)])
      BY <2>1, <2>5 DEF Ends, Stuck
    <3>2. SourceIs(peer(e)) \in {"eof", "failed"} /\ out[peer(e)] # "idle"
      BY <3>1 DEF SourceIs, Ended
    <3>3. GotOut(e) = PutIn(peer(e))
      BY <2>1, <2>5, <3>2 DEF GotOut, PutIn, Written, Copied
    <3>4. ThePipe!Succeed(e)
      BY <2>1, <2>3, <2>5, <3>2, <3>3, SidesAreEnds DEF ThePipe!Succeed
    <3> QED
      BY <1>0, <3>4 DEF ThePipe!PNext
  <2> QED
    BY <2>1, <2>4, <2>5
<1> QED
  BY <1>1, <1>2, <1>3, <1>4, <1>5, <1>6, <1>7, <1>8 DEF Next, Command, Source, Sink

LEMMA StartsAlike ==
  ASSUME Init
  PROVE  Opened /\ Unread /\ ThePipe!PInit
<1>1. Opened /\ Unread
  BY TheOtherEnd, PreludeIsSmall DEF Init, Opened, Unread, End
<1>2. \A e \in End : PutIn(e) = 0 /\ GotOut(e) = 0 /\ SourceIs(e) = "open"
  BY DEF Init, PutIn, GotOut, SourceIs, Ended
<1> QED
  BY <1>1, <1>2, SidesAreEnds DEF Init, ThePipe!PInit

\* Whatever the commands at the two ends, and however they are interrupted, cut
\* off or timed out, a pipe of dumbpipe is two bounded buffers whose sinks are
\* told the truth about the ends of their sources.
THEOREM DumbPipeImplementsPipe == Spec => ImplementsPipe
<1>1. Init => Opened /\ Unread /\ ThePipe!PInit
  BY StartsAlike
<1>2. Inv /\ Opened /\ Unread /\ [Next]_vars => Opened' /\ Unread'
  BY OpenedIsKept, UnreadIsKept
<1>3. Inv /\ Opened /\ Unread /\ [Next]_vars => [ThePipe!PNext]_(ThePipe!pvars)
  BY StepsRefine
<1> QED
  BY <1>1, <1>2, <1>3, InvIsInvariant, PTL DEF Spec, ImplementsPipe, ThePipe!PSpec
=============================================================================
