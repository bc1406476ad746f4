--------------------------- MODULE DispatchProofs ---------------------------
(***************************************************************************)
(* Dispatch implements Admission, for any peers and any changes of the      *)
(* table: however filter, accept loop, lookup and handlers interleave, each *)
(* report is the outcome of one decision.                                   *)
(***************************************************************************)
EXTENDS Dispatch, TLAPS

-----------------------------------------------------------------------------
(* The inductive invariant.                                                *)

\* What main and the accept loop keep true: only custom_router's table ever
\* differs from what is advertised, only incoming_filter's gate is ever closed.
ServerOK ==
  /\ prog \in Programs
  /\ handlers \subseteq Advertised(prog)
  /\ prog # "custom_router" => handlers = Advertised(prog)
  /\ ~open => prog = "incoming_filter"

\* The ranges of the variables that are kept per peer.
PeersTyped ==
  /\ wants \in [Peers -> Dials(prog)]
  /\ try \in [Peers -> Nat \ {0}]
  /\ policy \in [Peers -> Policies]
  /\ at \in [Peers -> {"idle", "dialling", "refused", "dialled", "sent", "done"}]
  /\ link \in [Peers -> {"none", "open", "coded", "rejected", "lost", "closed"}]
  /\ server \in [Peers -> {"none", "queued", "taken", "running", "done"}]
  /\ reply \in [Peers -> {0} \cup ALPNs]
  /\ verdict \in [Peers -> {"none", "yes", "no"}]
  /\ result \in [Peers -> {"none", "served", "dropped", "refused", "failed"}]

\* Where a peer's call is determines what it has of a connection, and the
\* server takes up only connections that a handshake has finished.
Connections(p) ==
  /\ at[p] \in {"idle", "dialling", "refused"} => link[p] = "none"
  /\ at[p] \in {"dialled", "sent"} => link[p] \notin {"none", "closed"}
  /\ link[p] # "none" => Wanted(p) \in Advertised(prog) /\ GroupInCommon(p)
  /\ server[p] # "none" => link[p] \notin {"none", "rejected"}
  /\ result[p] = "none" <=> at[p] # "done"

\* Which decisions have been taken: every trace the server leaves of one, and
\* every report of it, agrees with the verdict.
Verdicts(p) ==
  /\ at[p] = "idle" => verdict[p] = "none"
  /\ at[p] = "refused" => verdict[p] = "no"
  /\ link[p] = "coded" => verdict[p] = "no" /\ server[p] = "done"
  /\ link[p] = "rejected" => verdict[p] = "no"
  /\ server[p] = "running" => verdict[p] = "yes"
  /\ reply[p] # 0 => verdict[p] = "yes" /\ server[p] = "done" /\ reply[p] = Wanted(p)
  /\ prog = "incoming_filter" /\ server[p] # "none" => verdict[p] = "yes"
  /\ prog # "incoming_filter" /\ at[p] \in {"dialling", "dialled", "sent"}
       /\ server[p] \in {"none", "queued", "taken"} => verdict[p] = "none"

\* Once a report is out, only a peer that gave up can still be decided about.
Reports(p) ==
  /\ result[p] = "served" => reply[p] # 0
  /\ result[p] = "dropped" => link[p] = "coded"
  /\ result[p] = "refused" => link[p] \in {"none", "rejected"} /\ verdict[p] = "no"

\* A version that was passed over was refused in its handshake.
PassedOver(p) ==
  /\ try[p] \in 1..Len(wants[p])
  /\ \A i \in 1..(try[p] - 1) : wants[p][i] \notin Advertised(prog)
  /\ prog = "alpn_negotiation" =>
       /\ at[p] = "refused" => Wanted(p) \notin Advertised(prog)
       /\ link[p] # "rejected"
       /\ result[p] = "refused" => try[p] = Len(wants[p]) /\ Wanted(p) \notin Advertised(prog)

PeerOK(p) == Connections(p) /\ Verdicts(p) /\ Reports(p) /\ PassedOver(p)

Inv == ServerOK /\ PeersTyped /\ \A p \in Peers : PeerOK(p)

-----------------------------------------------------------------------------
(* The programs' dials.                                                    *)

LEMMA DialsAreSequences ==
  ASSUME NEW pr \in Programs, NEW w \in Dials(pr)
  PROVE  /\ w \in Seq(ALPNs) /\ Len(w) \in 1..3 /\ 1 \in 1..Len(w)
         /\ pr # "alpn_negotiation" => Len(w) = 1
         /\ pr = "incoming_filter" => w = <<1>>
<1>1. \A a \in ALPNs : <<a>> \in Seq(ALPNs) /\ Len(<<a>>) = 1
  OBVIOUS
<1>2. 1 \in ALPNs /\ 2 \in ALPNs /\ 3 \in ALPNs
  BY DEF ALPNs
<1>3. CASE pr = "custom_router"
  <2>1. \E a \in ALPNs : w = <<a>>
    BY <1>2, <1>3 DEF Dials
  <2> QED
    BY <1>1, <1>3, <2>1
<1>4. CASE pr = "alpn_negotiation"
  <2>1. w = <<3, 2, 1>> \/ \E a \in ALPNs : w = <<a>>
    BY <1>2, <1>4 DEF Dials
  <2>2. <<3, 2, 1>> \in Seq(ALPNs) /\ Len(<<3, 2, 1>>) = 3
    BY <1>2
  <2>3. CASE w = <<3, 2, 1>>
    BY <1>4, <2>2, <2>3
  <2>4. CASE \E a \in ALPNs : w = <<a>>
    BY <1>1, <1>4, <2>4
  <2> QED
    BY <2>1, <2>3, <2>4
<1>5. CASE pr \notin {"custom_router", "alpn_negotiation"}
  <2>1. w = <<1>>
    BY <1>5 DEF Dials, Programs
  <2> QED
    BY <1>1, <1>2, <1>5, <2>1
<1> QED
  BY <1>3, <1>4, <1>5

\* Only preferred knows more than one version.
LEMMA OlderVersions ==
  ASSUME ServerOK, PeersTyped, NEW p \in Peers, PassedOver(p)
  PROVE  /\ Len(wants[p]) \in Nat /\ 1 \in 1..Len(wants[p])
         /\ try[p] < Len(wants[p]) => prog = "alpn_negotiation"
<1>1. prog \in Programs /\ wants[p] \in Dials(prog)
  BY DEF ServerOK, PeersTyped
<1>2. Len(wants[p]) \in 1..3 /\ (prog # "alpn_negotiation" => Len(wants[p]) = 1)
  BY <1>1, DialsAreSequences
<1>3. try[p] \in 1..Len(wants[p])
  BY DEF PassedOver
<1> DEFINE n == Len(wants[p])
<1> HIDE DEF n
<1>4. n \in 1..3 /\ (prog # "alpn_negotiation" => n = 1) /\ try[p] \in 1..n
  BY <1>2, <1>3 DEF n
<1>5. n \in Nat /\ 1 \in 1..n /\ (try[p] < n => prog = "alpn_negotiation")
  BY <1>4
<1> QED
  BY <1>5 DEF n

LEMMA WantedIsAName ==
  ASSUME ServerOK, PeersTyped, NEW p \in Peers, PassedOver(p)
  PROVE  Wanted(p) \in ALPNs
BY DialsAreSequences DEF ServerOK, PeersTyped, PassedOver, Wanted

-----------------------------------------------------------------------------
(* What a step may change: a peer's step only what is kept about that peer. *)

PeerStep(p) == Dial(p) \/ Lose(p) \/ ServerStep(p) \/ ClientStep(p)

\* A step of one peer leaves what is kept about every other peer alone.
LEMMA OthersAreLeftAlone ==
  ASSUME PeersTyped, NEW p \in Peers, PeerStep(p), NEW q \in Peers \ {p}
  PROVE  /\ wants'[q] = wants[q] /\ try'[q] = try[q] /\ policy'[q] = policy[q] /\ at'[q] = at[q]
         /\ link'[q] = link[q] /\ server'[q] = server[q] /\ reply'[q] = reply[q]
         /\ verdict'[q] = verdict[q] /\ result'[q] = result[q]
<1> USE DEF PeersTyped
<1>1. CASE Dial(p) \/ Lose(p) \/ ServerStep(p)
  BY <1>1 DEF Dial, Lose, ServerStep, Queue, Filter, Accept, Lookup, Answer, HandlerFails, serverVars
<1>2. CASE ClientStep(p)
  BY <1>2 DEF ClientStep, Handshake, HandshakeRefused, NextVersion, Refused, TimesOut, Send,
              ReadReply, ExchangeFails, Return, serverVars
<1> QED
  BY <1>1, <1>2 DEF PeerStep

LEMMA PeersLeaveTheServerAlone ==
  ASSUME NEW p \in Peers, PeerStep(p)
  PROVE  UNCHANGED <<prog, handlers, open, wants, policy>>
BY DEF PeerStep, Dial, Lose, ServerStep, ClientStep, Queue, Filter, Accept, Lookup, Answer, HandlerFails,
       Handshake, HandshakeRefused, NextVersion, Refused, TimesOut, Send, ReadReply, ExchangeFails,
       Return, serverVars

\* Every other step leaves all of it alone.
LEMMA MainLeavesPeersAlone ==
  ASSUME [Next]_vars, ~\E p \in Peers : PeerStep(p)
  PROVE  UNCHANGED <<prog, wants, try, policy, at, link, server, reply, verdict, result>>
BY DEF Next, PeerStep, Handle, Remove, CloseGate, Expire, StopServing, vars

-----------------------------------------------------------------------------
(* The invariant is inductive.                                             *)

LEMMA ServerIsKept ==
  ASSUME ServerOK, [Next]_vars
  PROVE  ServerOK'
<1> USE DEF ServerOK
<1>1. CASE \E a \in Advertised(prog) : Handle(a) \/ Remove(a)
  BY <1>1 DEF Handle, Remove
<1>2. CASE CloseGate
  BY <1>2 DEF CloseGate
<1>3. CASE \E p \in Peers : PeerStep(p)
  BY <1>3, PeersLeaveTheServerAlone
<1>4. CASE Expire \/ StopServing \/ UNCHANGED vars
  BY <1>4 DEF Expire, StopServing, vars
<1> QED
  BY <1>1, <1>2, <1>3, <1>4 DEF Next, PeerStep

LEMMA TypesAreKept ==
  ASSUME ServerOK, PeersTyped, \A p \in Peers : PassedOver(p), [Next]_vars
  PROVE  PeersTyped'
<1> USE DEF PeersTyped
<1>1. ASSUME NEW p \in Peers, Dial(p) \/ Lose(p) \/ Queue(p) \/ Filter(p) \/ Accept(p) \/ Lookup(p)
      PROVE  PeersTyped'
  <2>1. CASE Dial(p) \/ Lose(p) \/ Queue(p) \/ Accept(p)
    BY <2>1 DEF Dial, Lose, Queue, Accept, serverVars
  <2>2. CASE Filter(p)
    BY <2>2 DEF Filter, serverVars
  <2>3. CASE Lookup(p)
    BY <2>3 DEF Lookup, serverVars
  <2> QED
    BY <1>1, <2>1, <2>2, <2>3
<1>2. ASSUME NEW p \in Peers, Answer(p) \/ HandlerFails(p)
      PROVE  PeersTyped'
  BY <1>2, WantedIsAName DEF Answer, HandlerFails, serverVars
<1>3. ASSUME NEW p \in Peers, Handshake(p) \/ HandshakeRefused(p) \/ NextVersion(p) \/ Refused(p)
                             \/ TimesOut(p) \/ Send(p) \/ ReadReply(p) \/ ExchangeFails(p)
      PROVE  PeersTyped'
  <2>1. CASE Handshake(p) \/ HandshakeRefused(p) \/ Send(p)
    BY <2>1 DEF Handshake, HandshakeRefused, Send, serverVars
  <2>2. CASE NextVersion(p)
    BY <2>2 DEF NextVersion, serverVars
  <2>3. CASE Refused(p) \/ TimesOut(p) \/ ReadReply(p) \/ ExchangeFails(p)
    <3>1. PICK r \in {"served", "dropped", "refused", "failed"} : Return(p, r)
      BY <2>3 DEF Refused, TimesOut, ReadReply, ExchangeFails, Told
    <3> QED
      BY <3>1 DEF Return, serverVars
  <2> QED
    BY <1>3, <2>1, <2>2, <2>3
<1>4. CASE ~\E p \in Peers : PeerStep(p)
  BY <1>4, MainLeavesPeersAlone
<1> QED
  BY <1>1, <1>2, <1>3, <1>4 DEF PeerStep, ServerStep, ClientStep

LEMMA PeerIsKept ==
  ASSUME ServerOK, PeersTyped, NEW p \in Peers, PeerOK(p), [Next]_vars
  PROVE  PeerOK(p)'
<1> USE DEF PeersTyped, PeerOK, Connections, Verdicts, Reports, PassedOver, Wanted, GroupInCommon
<1>1. CASE ~PeerStep(p)
  <2>1. prog' = prog
    BY PeersLeaveTheServerAlone, MainLeavesPeersAlone
  <2>2. CASE \E q \in Peers : PeerStep(q)
    BY <1>1, <2>1, <2>2, OthersAreLeftAlone
  <2>3. CASE ~\E q \in Peers : PeerStep(q)
    BY <2>3, MainLeavesPeersAlone
  <2> QED
    BY <2>2, <2>3
<1>2. CASE Dial(p)
  BY <1>2 DEF Dial, serverVars
<1>3. CASE Lose(p)
  BY <1>3 DEF Lose, serverVars
<1>4. CASE Queue(p)
  BY <1>4 DEF Queue, serverVars
<1>5. CASE Filter(p)
  BY <1>5 DEF Filter, serverVars
<1>6. CASE Accept(p)
  BY <1>6 DEF Accept, serverVars
<1>7. CASE Lookup(p)
  BY <1>7 DEF Lookup, serverVars, ServerOK
<1>8. CASE Answer(p)
  BY <1>8 DEF Answer, serverVars
<1>9. CASE HandlerFails(p)
  BY <1>9 DEF HandlerFails, serverVars
<1>10. CASE Handshake(p)
  BY <1>10 DEF Handshake, serverVars
<1>11. CASE HandshakeRefused(p)
  BY <1>11 DEF HandshakeRefused, serverVars
<1>12. CASE NextVersion(p)
  <2>1. /\ try[p] < Len(wants[p]) /\ at[p] = "refused"
        /\ try'[p] = try[p] + 1 /\ at'[p] = "dialling" /\ verdict'[p] = "none"
        /\ UNCHANGED <<prog, wants, policy, link, server, reply, result>>
    BY <1>12 DEF NextVersion, serverVars
  <2>2. prog = "alpn_negotiation" /\ Len(wants[p]) \in Nat
    BY <2>1, OlderVersions
  <2>3. wants[p][try[p]] \notin Advertised(prog)
    BY <2>1, <2>2
  <2>4. link[p] = "none" /\ server[p] = "none" /\ reply[p] = 0 /\ result[p] = "none"
    BY <2>1
  <2>5. Connections(p)' /\ Verdicts(p)' /\ Reports(p)'
    BY <2>1, <2>3, <2>4
  <2>6. \A i \in 1..(try'[p] - 1) : wants[p][i] \notin Advertised(prog)
    BY <2>1, <2>3
  <2> QED
    BY <2>1, <2>2, <2>4, <2>5, <2>6
<1>13. CASE Refused(p)
  BY <1>13 DEF Refused, Return, serverVars
<1>14. CASE TimesOut(p)
  BY <1>14 DEF TimesOut, Return, serverVars
<1>15. CASE Send(p)
  BY <1>15 DEF Send, serverVars
<1>16. CASE ReadReply(p)
  BY <1>16 DEF ReadReply, Return, serverVars
<1>17. CASE ExchangeFails(p)
  BY <1>17 DEF ExchangeFails, Return, Told, serverVars
<1> QED
  BY <1>1, <1>2, <1>3, <1>4, <1>5, <1>6, <1>7, <1>8, <1>9, <1>10, <1>11, <1>12, <1>13, <1>14,
     <1>15, <1>16, <1>17 DEF PeerStep, ServerStep, ClientStep

LEMMA InvIsInvariant == Spec => []Inv
<1>1. Init => Inv
  <2> SUFFICES ASSUME Init PROVE Inv
    OBVIOUS
  <2>1. ServerOK
    BY DEF Init, ServerOK, InitialHandlers, Advertised, Programs
  <2>2. PeersTyped
    BY DEF Init, PeersTyped, ClientPolicies, Policies
  <2>3. ASSUME NEW p \in Peers PROVE PeerOK(p)
    <3>1. prog \in Programs /\ wants[p] \in Dials(prog)
      BY <2>1, <2>2 DEF ServerOK, PeersTyped
    <3>2. 1 \in 1..Len(wants[p])
      BY <3>1, DialsAreSequences
    <3>3. try[p] = 1 /\ at[p] = "idle" /\ link[p] = "none" /\ result[p] = "none"
      BY DEF Init
    <3>4. PassedOver(p)
      BY <3>2, <3>3 DEF PassedOver
    <3>5. Connections(p) /\ Verdicts(p) /\ Reports(p)
      BY DEF Init, Connections, Verdicts, Reports
    <3> QED
      BY <3>4, <3>5 DEF PeerOK
  <2> QED
    BY <2>1, <2>2, <2>3 DEF Inv
<1>2. Inv /\ [Next]_vars => Inv'
  BY ServerIsKept, TypesAreKept, PeerIsKept DEF Inv, PeerOK
<1> QED
  BY <1>1, <1>2, PTL DEF Spec

\* The values each variable takes: the table never holds a name that is not
\* advertised, and no client runs off the end of the versions it knows.
THEOREM TypeCorrect == Spec => []TypeOK
<1> DEFINE Rest == /\ open \in BOOLEAN /\ expired \in BOOLEAN
                   /\ changes \in 0..MaxChanges /\ loop \in {"serving", "stopped"}
<1>1. Init => Rest
  <2> SUFFICES ASSUME Init PROVE Rest
    OBVIOUS
  <2>1. open \in BOOLEAN /\ expired \in BOOLEAN
    BY DEF Init
  <2>2. changes \in 0..MaxChanges /\ loop \in {"serving", "stopped"}
    BY DispatchAssumption DEF Init
  <2> QED
    BY <2>1, <2>2
<1>2. Rest /\ [Next]_vars => Rest'
  <2> SUFFICES ASSUME Rest, [Next]_vars PROVE Rest'
    OBVIOUS
  <2>1. CASE \E a \in Advertised(prog) : Handle(a) \/ Remove(a)
    BY <2>1, DispatchAssumption DEF Handle, Remove
  <2>2. CASE CloseGate
    BY <2>2 DEF CloseGate
  <2>3. CASE Expire
    BY <2>3 DEF Expire
  <2>4. CASE StopServing
    BY <2>4 DEF StopServing
  <2>5. CASE UNCHANGED vars \/ \E p \in Peers : PeerStep(p)
    <3>1. UNCHANGED <<open, expired, changes, loop>>
      BY <2>5 DEF PeerStep, Dial, Lose, ServerStep, ClientStep, Queue, Filter, Accept, Lookup, Answer,
         HandlerFails, Handshake, HandshakeRefused, NextVersion, Refused, TimesOut, Send, ReadReply,
         ExchangeFails, Return, serverVars, vars
    <3> QED
      BY <3>1
  <2> QED
    BY <2>1, <2>2, <2>3, <2>4, <2>5 DEF Next, PeerStep
<1>3. ASSUME Inv, NEW p \in Peers PROVE try[p] \in 1..3 /\ try[p] <= Len(wants[p])
  <2>1. try[p] \in 1..Len(wants[p])
    BY <1>3 DEF Inv, PeerOK, PassedOver
  <2>2. Len(wants[p]) \in 1..3
    BY <1>3, DialsAreSequences DEF Inv, ServerOK, PeersTyped
  <2> DEFINE n == Len(wants[p])
  <2> HIDE DEF n
  <2>3. n \in 1..3 /\ try[p] \in 1..n
    BY <2>1, <2>2 DEF n
  <2>4. try[p] \in 1..3 /\ try[p] <= n
    BY <2>3
  <2> QED
    BY <2>4 DEF n
<1>4. Inv /\ Rest => TypeOK
  BY <1>3 DEF Inv, ServerOK, PeersTyped, TypeOK
<1> QED
  BY <1>1, <1>2, <1>4, InvIsInvariant, PTL DEF Spec

\* preferred settles for an older version, or for none, only after the server
\* has refused every newer one in its handshake.
THEOREM NewestIsChosen == Spec => []NewestInCommon
<1>1. ASSUME Inv, NEW p \in Peers
      PROVE  /\ result[p] = "served" => /\ reply[p] = Wanted(p)
                                        /\ \A i \in 1..(try[p] - 1) : wants[p][i] \notin Advertised(prog)
             /\ result[p] = "refused" /\ prog = "alpn_negotiation" =>
                  \A i \in DOMAIN wants[p] : wants[p][i] \notin Advertised(prog)
  <2>1. wants[p] \in Seq(ALPNs)
    BY <1>1, DialsAreSequences DEF Inv, ServerOK, PeersTyped
  <2> QED
    BY <1>1, <2>1 DEF Inv, PeerOK, Reports, Verdicts, PassedOver, Wanted
<1>2. Inv => NewestInCommon
  BY <1>1 DEF NewestInCommon
<1> QED
  BY <1>2, InvIsInvariant, PTL

-----------------------------------------------------------------------------
(* The refinement.  AskedFor, Phase and Decision are kept peer by peer.     *)

AskedOf(p) == IF at[p] = "idle" THEN {} ELSE {Wanted(p)}

PhaseOf(p) ==
  CASE at[p] = "idle" -> "idle"
    [] at[p] = "done" -> IF result[p] = "dropped" THEN "refused" ELSE result[p]
    [] OTHER          -> IF verdict[p] = "none" THEN "waiting" ELSE "decided"

DecisionOf(p) == IF result[p] = "failed" THEN "none" ELSE verdict[p]

LEMMA Mapping ==
  /\ AskedFor = [p \in Peers |-> AskedOf(p)]
  /\ Phase = [p \in Peers |-> PhaseOf(p)]
  /\ Decision = [p \in Peers |-> DecisionOf(p)]
BY DEF AskedFor, Phase, Decision, AskedOf, PhaseOf, DecisionOf

\* A peer's step moves that peer's attempt and no other.
LEMMA OneAttemptMoves ==
  ASSUME PeersTyped, NEW p \in Peers, PeerStep(p)
  PROVE  /\ AskedFor' = [AskedFor EXCEPT ![p] = AskedOf(p)']
         /\ Phase' = [Phase EXCEPT ![p] = PhaseOf(p)']
         /\ Decision' = [Decision EXCEPT ![p] = DecisionOf(p)']
         /\ AdmitsNow' = AdmitsNow
<1>1. \A q \in Peers \ {p} : /\ AskedOf(q)' = AskedOf(q) /\ PhaseOf(q)' = PhaseOf(q)
                              /\ DecisionOf(q)' = DecisionOf(q)
  BY OthersAreLeftAlone DEF AskedOf, PhaseOf, DecisionOf, Wanted
<1>2. AdmitsNow' = AdmitsNow
  BY PeersLeaveTheServerAlone DEF AdmitsNow, GroupInCommon
<1>3. /\ AskedFor' = [q \in Peers |-> AskedOf(q)']
      /\ Phase' = [q \in Peers |-> PhaseOf(q)']
      /\ Decision' = [q \in Peers |-> DecisionOf(q)']
  BY DEF AskedFor, Phase, Decision, AskedOf, PhaseOf, DecisionOf
<1> QED
  BY <1>1, <1>2, <1>3, Mapping

LEMMA InitRefines ==
  ASSUME Init, Inv
  PROVE  Abstract!AInit
<1>1. AdmitsNow \in [Peers -> SUBSET ALPNs]
  BY DEF AdmitsNow, Inv, ServerOK, Advertised, ALPNs
<1>2. AskedFor = [p \in Peers |-> {}] /\ Phase = [p \in Peers |-> "idle"]
      /\ Decision = [p \in Peers |-> "none"]
  BY DEF Init, AskedFor, Phase, Decision
<1> QED
  BY <1>1, <1>2 DEF Abstract!AInit

\* main's changes of the table and the gate are changes of what is admitted.
LEMMA MainRefines ==
  ASSUME Inv, Inv', [Next]_vars, ~\E p \in Peers : PeerStep(p)
  PROVE  Abstract!Change
<1>1. AdmitsNow' \in [Peers -> SUBSET ALPNs]
  BY DEF AdmitsNow, Inv, ServerOK, Advertised, ALPNs
<1>2. UNCHANGED <<AskedFor, Phase, Decision>>
  BY MainLeavesPeersAlone DEF AskedFor, Phase, Decision, Wanted
<1> QED
  BY <1>1, <1>2 DEF Abstract!Change

\* A step that moves nothing of its peer's attempt is a stutter.
LEMMA Stutters ==
  ASSUME PeersTyped, NEW p \in Peers, PeerStep(p),
         AskedOf(p)' = AskedOf(p), PhaseOf(p)' = PhaseOf(p), DecisionOf(p)' = DecisionOf(p)
  PROVE  UNCHANGED Abstract!avars
BY OneAttemptMoves, Mapping DEF Abstract!avars

\* Dial asks, and so does a NextVersion, which only a refusal leads to.
LEMMA AskRefines ==
  ASSUME Inv, NEW p \in Peers, Dial(p) \/ NextVersion(p), PassedOver(p)'
  PROVE  Abstract!Ask(p)
<1>1. PeersTyped /\ PeerOK(p) /\ PeerStep(p)
  BY DEF Inv, PeerStep, ClientStep
<1>2. /\ PhaseOf(p) = "idle" \/ (PhaseOf(p) = "decided" /\ DecisionOf(p) = "no")
      /\ PhaseOf(p)' = "waiting" /\ DecisionOf(p)' = "none"
      /\ AskedOf(p)' = {Wanted(p)'}
  BY <1>1 DEF PeersTyped, PeerOK, Connections, Verdicts, PhaseOf, DecisionOf, AskedOf, Dial, NextVersion
<1>3. Wanted(p)' \in ALPNs
  BY DialsAreSequences, PeersLeaveTheServerAlone, <1>1 DEF Inv, ServerOK, PeersTyped, PassedOver, Wanted
<1> QED
  BY <1>1, <1>2, <1>3, OneAttemptMoves, Mapping DEF Abstract!Ask

\* The decision of a step that leaves p "decided" is what is admitted now.
LEMMA DecideRefines ==
  ASSUME PeersTyped, NEW p \in Peers, PeerStep(p),
         PhaseOf(p) \in {"waiting", "decided"}, PhaseOf(p)' = "decided",
         AskedOf(p)' = AskedOf(p),
         DecisionOf(p)' = IF AskedOf(p) \subseteq AdmitsNow[p] THEN "yes" ELSE "no"
  PROVE  Abstract!Decide(p)
BY OneAttemptMoves, Mapping DEF Abstract!Decide

\* The handshake decides by names and groups, the filter by the gate.
LEMMA HandshakeDecides ==
  ASSUME Inv, NEW p \in Peers, HandshakeRefused(p) \/ Filter(p)
  PROVE  Abstract!Decide(p)
<1>1. PeersTyped /\ ServerOK /\ PeerOK(p) /\ PeerStep(p)
  BY DEF Inv, PeerStep, ServerStep, ClientStep
<1> USE <1>1 DEF PeersTyped, PeerOK, Connections, Verdicts, PhaseOf, DecisionOf, AskedOf, Wanted
<1>2. CASE HandshakeRefused(p)
  <2>1. Wanted(p) \notin Advertised(prog) \/ ~GroupInCommon(p)
    BY <1>2 DEF HandshakeRefused
  <2>2. ~(AskedOf(p) \subseteq AdmitsNow[p])
    BY <1>2, <2>1 DEF HandshakeRefused, AdmitsNow, ServerOK
  <2>3. /\ PhaseOf(p) \in {"waiting", "decided"} /\ PhaseOf(p)' = "decided"
        /\ AskedOf(p)' = AskedOf(p) /\ DecisionOf(p)' = "no"
    BY <1>2 DEF HandshakeRefused
  <2> QED
    BY <2>2, <2>3, DecideRefines
<1>3. CASE Filter(p)
  <2>1. prog = "incoming_filter" /\ handlers = {1} /\ wants[p] = <<1>> /\ Len(wants[p]) = 1
    BY <1>3, DialsAreSequences DEF Filter, ServerOK, Advertised
  <2>2. Wanted(p) = 1 /\ GroupInCommon(p)
    BY <2>1 DEF PassedOver, GroupInCommon
  <2>3. AskedOf(p) \subseteq AdmitsNow[p] <=> open
    BY <1>3, <2>1, <2>2 DEF Filter, AdmitsNow
  <2>4. /\ PhaseOf(p) \in {"waiting", "decided"} /\ PhaseOf(p)' = "decided"
        /\ AskedOf(p)' = AskedOf(p) /\ DecisionOf(p)' = IF open THEN "yes" ELSE "no"
    BY <1>3 DEF Filter
  <2> QED
    BY <2>3, <2>4, DecideRefines
<1> QED
  BY <1>2, <1>3

\* The lookup decides by the table, unless the filter has decided before it or
\* the peer has given up.
LEMMA LookupDecides ==
  ASSUME Inv, NEW p \in Peers, Lookup(p)
  PROVE  Abstract!Decide(p) \/ UNCHANGED Abstract!avars
<1>1. PeersTyped /\ ServerOK /\ PeerOK(p) /\ PeerStep(p)
  BY DEF Inv, PeerStep, ServerStep
<1> USE <1>1 DEF PeersTyped, PeerOK, Connections, Verdicts, Reports, PhaseOf, DecisionOf, AskedOf, Wanted
<1>2. /\ Wanted(p) \in Advertised(prog) /\ GroupInCommon(p)
      /\ AskedOf(p)' = AskedOf(p)
  BY DEF Lookup
<1>3. CASE prog = "incoming_filter"
  <2>1. Wanted(p) \in handlers
    BY <1>2, <1>3 DEF ServerOK
  <2> QED
    BY <1>2, <1>3, <2>1, Stutters DEF Lookup
<1>4. CASE at[p] = "done"
  BY <1>2, <1>4, Stutters DEF Lookup
<1>5. CASE prog # "incoming_filter" /\ at[p] # "done"
  <2>1. open
    BY <1>5 DEF ServerOK
  <2>2. AskedOf(p) \subseteq AdmitsNow[p] <=> Wanted(p) \in handlers
    BY <1>2, <2>1 DEF Lookup, AdmitsNow
  <2>3. /\ PhaseOf(p) \in {"waiting", "decided"} /\ PhaseOf(p)' = "decided"
        /\ DecisionOf(p)' = IF Wanted(p) \in handlers THEN "yes" ELSE "no"
    BY <1>5 DEF Lookup
  <2> QED
    BY <1>2, <2>2, <2>3, DecideRefines
<1> QED
  BY <1>3, <1>4, <1>5

\* A call that returns tells what was decided, or fails.
LEMMA ReturnRefines ==
  ASSUME Inv, NEW p \in Peers, Refused(p) \/ TimesOut(p) \/ ReadReply(p) \/ ExchangeFails(p)
  PROVE  Abstract!Learn(p) \/ Abstract!Fail(p)
<1>1. PeersTyped /\ Connections(p) /\ Verdicts(p) /\ PeerStep(p)
  BY DEF Inv, PeerOK, PeerStep, ClientStep
<1>2. AskedOf(p)' = AskedOf(p) /\ PhaseOf(p) \in {"waiting", "decided"}
  BY <1>1 DEF PeersTyped, AskedOf, PhaseOf, Wanted, Refused, TimesOut, ReadReply, ExchangeFails, Return
<1>3. ASSUME NEW r \in {"served", "dropped", "refused"}, Return(p, r), at[p] # "done",
             verdict[p] = IF r = "served" THEN "yes" ELSE "no"
      PROVE  Abstract!Learn(p)
  <2>1. /\ PhaseOf(p) = "decided" /\ DecisionOf(p) = verdict[p] /\ DecisionOf(p)' = verdict[p]
        /\ PhaseOf(p)' = IF verdict[p] = "yes" THEN "served" ELSE "refused"
    BY <1>1, <1>2, <1>3 DEF PeersTyped, Connections, PhaseOf, DecisionOf, Return
  <2> QED
    BY <1>1, <1>2, <2>1, OneAttemptMoves, Mapping DEF Abstract!Learn
<1>4. ASSUME Return(p, "failed")
      PROVE  Abstract!Fail(p)
  <2>1. PhaseOf(p)' = "failed" /\ DecisionOf(p)' = "none"
    BY <1>1, <1>4 DEF PeersTyped, PhaseOf, DecisionOf, Return
  <2> QED
    BY <1>1, <1>2, <2>1, OneAttemptMoves, Mapping DEF Abstract!Fail
<1>5. CASE Refused(p)
  BY <1>1, <1>3, <1>5 DEF Refused, Verdicts
<1>6. CASE TimesOut(p)
  BY <1>4, <1>6 DEF TimesOut
<1>7. CASE ReadReply(p)
  BY <1>1, <1>3, <1>7 DEF ReadReply, Verdicts
<1>8. CASE ExchangeFails(p)
  <2>1. at[p] # "done" /\ link[p] \in {"coded", "rejected", "lost"} /\ Return(p, Told[link[p]])
    BY <1>8 DEF ExchangeFails, Told
  <2>2. CASE link[p] = "lost"
    BY <1>4, <2>1, <2>2 DEF Told
  <2>3. CASE link[p] # "lost"
    <3>1. verdict[p] = "no" /\ Told[link[p]] \in {"dropped", "refused"}
      BY <1>1, <2>1, <2>3 DEF Verdicts, Told
    <3> QED
      BY <1>3, <2>1, <3>1
  <2> QED
    BY <2>2, <2>3
<1> QED
  BY <1>5, <1>6, <1>7, <1>8

\* Everything between the decision and the report is a stutter.
LEMMA OthersStutter ==
  ASSUME Inv, NEW p \in Peers,
         \/ Lose(p) \/ Queue(p) \/ Accept(p) \/ Answer(p) \/ HandlerFails(p)
         \/ Handshake(p) \/ Send(p)
  PROVE  UNCHANGED Abstract!avars
<1>1. PeersTyped /\ PeerStep(p)
  BY DEF Inv, PeerStep, ServerStep, ClientStep
<1>2. AskedOf(p)' = AskedOf(p) /\ PhaseOf(p)' = PhaseOf(p) /\ DecisionOf(p)' = DecisionOf(p)
  BY <1>1 DEF PeersTyped, AskedOf, PhaseOf, DecisionOf, Wanted,
       Lose, Queue, Accept, Answer, HandlerFails, Handshake, Send
<1> QED
  BY <1>1, <1>2, Stutters

LEMMA NextRefines ==
  ASSUME Inv, Inv', [Next]_vars
  PROVE  [Abstract!ANext]_(Abstract!avars)
<1>1. CASE ~\E p \in Peers : PeerStep(p)
  BY <1>1, MainRefines DEF Abstract!ANext
<1>2. ASSUME NEW p \in Peers, PeerStep(p)
      PROVE  [Abstract!ANext]_(Abstract!avars)
  <2>1. PassedOver(p)'
    BY DEF Inv, PeerOK
  <2>2. CASE Dial(p) \/ NextVersion(p)
    BY <2>1, <2>2, AskRefines DEF Abstract!ANext
  <2>3. CASE HandshakeRefused(p) \/ Filter(p)
    BY <2>3, HandshakeDecides DEF Abstract!ANext
  <2>4. CASE Lookup(p)
    BY <2>4, LookupDecides DEF Abstract!ANext
  <2>5. CASE Refused(p) \/ TimesOut(p) \/ ReadReply(p) \/ ExchangeFails(p)
    BY <2>5, ReturnRefines DEF Abstract!ANext
  <2>6. CASE \/ Lose(p) \/ Queue(p) \/ Accept(p) \/ Answer(p) \/ HandlerFails(p)
             \/ Handshake(p) \/ Send(p)
    BY <2>6, OthersStutter
  <2> QED
    BY <1>2, <2>2, <2>3, <2>4, <2>5, <2>6 DEF PeerStep, ServerStep, ClientStep
<1> QED
  BY <1>1, <1>2

\* Whatever the accept loop, the filter, the handlers and the changes of the
\* table do between a dial and its report, the report is one decision taken in
\* between, or a failure: Dispatch implements Admission.
THEOREM DispatchImplementsAdmission == Spec => AtomicAdmission
<1>1. Init /\ Inv => Abstract!AInit
  BY InitRefines
<1>2. Inv /\ Inv' /\ [Next]_vars => [Abstract!ANext]_(Abstract!avars)
  BY NextRefines
<1> QED
  BY <1>1, <1>2, InvIsInvariant, PTL DEF Spec, AtomicAdmission, Abstract!ASpec
=============================================================================
