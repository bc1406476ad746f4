----------------------------- MODULE Admission -----------------------------
(***************************************************************************)
(* What a server with a changeable set of protocols promises the peers     *)
(* that dial it, with no accept loop, no handler and no handshake: between *)
(* the dial and the answer there is ONE instant at which the whole         *)
(* decision is taken, against what the server admits at that instant, and  *)
(* the peer learns that decision or learns that the attempt failed.        *)
(* Dispatch implements this.                                               *)
(***************************************************************************)

CONSTANTS Peers,     \* the dialling processes
          ALPNs      \* the protocol names

VARIABLES admits,    \* for each peer, the names the server would serve it now
          asked,     \* for each peer, the names of its attempt (empty: none yet)
          phase,     \* for each peer: idle, waiting, decided, and what it was told
          verdict    \* for each peer, the decision taken: none, yes, no

avars == <<admits, asked, phase, verdict>>

AInit ==
    /\ admits \in [Peers -> SUBSET ALPNs]
    /\ asked = [p \in Peers |-> {}]
    /\ phase = [p \in Peers |-> "idle"]
    /\ verdict = [p \in Peers |-> "none"]

\* The server starts or stops serving something.
Change ==
    /\ admits' \in [Peers -> SUBSET ALPNs]
    /\ UNCHANGED <<asked, phase, verdict>>

\* A peer asks for a name: its first attempt, or the next one after a refusal.
Ask(p) ==
    /\ \/ phase[p] = "idle"
       \/ phase[p] = "decided" /\ verdict[p] = "no"
    /\ \E a \in ALPNs : asked' = [asked EXCEPT ![p] = {a}]
    /\ phase' = [phase EXCEPT ![p] = "waiting"]
    /\ verdict' = [verdict EXCEPT ![p] = "none"]
    /\ UNCHANGED admits

\* The decision, all at once. Until the peer has learned it, it may be taken again.
Decide(p) ==
    /\ phase[p] \in {"waiting", "decided"}
    /\ phase' = [phase EXCEPT ![p] = "decided"]
    /\ verdict' = [verdict EXCEPT ![p] =
                      IF asked[p] \subseteq admits[p] THEN "yes" ELSE "no"]
    /\ UNCHANGED <<admits, asked>>

\* The peer is told the decision; afterwards it stands.
Learn(p) ==
    /\ phase[p] = "decided"
    /\ phase' = [phase EXCEPT ![p] = IF verdict[p] = "yes" THEN "served" ELSE "refused"]
    /\ UNCHANGED <<admits, asked, verdict>>

\* The attempt is cut short: the peer learns nothing about the decision.
Fail(p) ==
    /\ phase[p] \in {"waiting", "decided"}
    /\ phase' = [phase EXCEPT ![p] = "failed"]
    /\ verdict' = [verdict EXCEPT ![p] = "none"]
    /\ UNCHANGED <<admits, asked>>

ANext == Change \/ \E p \in Peers : Ask(p) \/ Decide(p) \/ Learn(p) \/ Fail(p)

ASpec == AInit /\ [][ANext]_avars
=============================================================================
