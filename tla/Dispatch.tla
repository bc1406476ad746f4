------------------------------ MODULE Dispatch ------------------------------
(***************************************************************************)
(* The servers of this repository that decide, connection by connection,   *)
(* whether a peer is served:                                               *)
(*                                                                         *)
(*   custom_router     a handler table that changes while the accept loop  *)
(*                     runs; a name that is advertised but not served is   *)
(*                     accepted and then closed with code 1                *)
(*   incoming_filter   a gate that run() closes between two dials; the     *)
(*                     filter may run several times on one connection and  *)
(*                     refuse it before or after the client's handshake    *)
(*   alpn_negotiation  two versions, and clients that try the versions     *)
(*                     they know, newest first                             *)
(*   key_default,      the two servers of key-exchange; a post-quantum-    *)
(*   key_pq_only       only server shares no group with a classical client *)
(*                                                                         *)
(* They are one machine: a client's dial (report, preferred, probe) goes   *)
(* through the handshake, the accept loop, the lookup and a handler        *)
(* goroutine, while main changes the table or the gate, connections break  *)
(* and the context that bounds run() may expire. Peers dial independently  *)
(* of each other, as a server must expect.                                 *)
(***************************************************************************)
EXTENDS Naturals, Sequences, FiniteSets

CONSTANTS Peers,        \* the dialling clients
          MaxChanges    \* bound on the changes main makes to the handler table

ASSUME DispatchAssumption == MaxChanges \in Nat /\ IsFiniteSet(Peers)

Programs == {"custom_router", "incoming_filter", "alpn_negotiation", "key_default", "key_pq_only"}

\* A version stands for the ALPN that ends in it: alpn1..alpn3, v1..v3.
ALPNs == 1..3

Policies == {"default", "classical"}

VARIABLES
    prog,        \* which server runs
    handlers,    \* router.handlers: the names served now
    open,        \* the filter's gate
    changes,     \* table changes made so far (at most MaxChanges)
    expired,     \* run's context is done
    loop,        \* the accept loop: "serving" or "stopped"
    wants,       \* per peer: the names it can speak, newest first
    try,         \* per peer: the index in wants of the attempt under way
    policy,      \* per peer: its key-exchange policy
    at,          \* per peer: where report, preferred or probe is
    link,        \* per peer: its connection
    server,      \* per peer: what the server has done with the connection
    reply,       \* per peer: the version whose handler answered (0: none)
    verdict,     \* per peer: the decision taken: "none", "yes", "no"
    result       \* per peer: what report, preferred or probe says at the end

vars == <<prog, handlers, open, changes, expired, loop, wants, try, policy,
          at, link, server, reply, verdict, result>>

serverVars == <<prog, handlers, open, changes, expired, loop>>

\* The names the endpoint advertises for the whole run.
Advertised(pr) == IF pr \in {"custom_router", "alpn_negotiation"} THEN {1, 2} ELSE {1}

\* The names served when the accept loop starts: custom_router does not serve alpn2 yet.
InitialHandlers(pr) == IF pr = "alpn_negotiation" THEN {1, 2} ELSE {1}

\* The dials each program makes.
Dials(pr) ==
    CASE pr = "custom_router"    -> {<<1>>, <<2>>, <<3>>}
      [] pr = "alpn_negotiation" -> {<<3, 2, 1>>, <<2>>, <<1>>, <<3>>}
      [] OTHER                   -> {<<1>>}

ClientPolicies(pr) == IF pr \in {"key_default", "key_pq_only"} THEN Policies ELSE {"default"}

\* The two ends share a key-exchange group unless the server insists on
\* post-quantum groups and the client has only classical ones.
GroupInCommon(p) == ~(prog = "key_pq_only" /\ policy[p] = "classical")

Wanted(p) == wants[p][try[p]]

Init ==
    /\ prog \in Programs
    /\ handlers = InitialHandlers(prog)
    /\ open = TRUE
    /\ changes = 0
    /\ expired = FALSE
    /\ loop = "serving"
    /\ wants \in [Peers -> Dials(prog)]
    /\ try = [p \in Peers |-> 1]
    /\ policy \in [Peers -> ClientPolicies(prog)]
    /\ at = [p \in Peers |-> "idle"]
    /\ link = [p \in Peers |-> "none"]
    /\ server = [p \in Peers |-> "none"]
    /\ reply = [p \in Peers |-> 0]
    /\ verdict = [p \in Peers |-> "none"]
    /\ result = [p \in Peers |-> "none"]

-----------------------------------------------------------------------------
(* main: the table, the gate and the context                               *)

\* router.handle: registers a handler while the loop runs.
Handle(a) ==
    /\ prog = "custom_router" /\ changes < MaxChanges
    /\ handlers' = handlers \cup {a}
    /\ changes' = changes + 1
    /\ UNCHANGED <<prog, open, expired, loop, wants, try, policy, at, link, server, reply, verdict, result>>

\* router.remove: the name stays advertised.
Remove(a) ==
    /\ prog = "custom_router" /\ changes < MaxChanges
    /\ handlers' = handlers \ {a}
    /\ changes' = changes + 1
    /\ UNCHANGED <<prog, open, expired, loop, wants, try, policy, at, link, server, reply, verdict, result>>

\* run closes the gate for maintenance and never opens it again.
CloseGate ==
    /\ prog = "incoming_filter" /\ open
    /\ open' = FALSE
    /\ UNCHANGED <<prog, handlers, changes, expired, loop, wants, try, policy, at, link, server, reply, verdict, result>>

\* run's context reaches its deadline.
Expire ==
    /\ ~expired
    /\ expired' = TRUE
    /\ UNCHANGED <<prog, handlers, open, changes, loop, wants, try, policy, at, link, server, reply, verdict, result>>

-----------------------------------------------------------------------------
(* The network and the handshake                                           *)

\* client.Connect is called.
Dial(p) ==
    /\ at[p] = "idle"
    /\ at' = [at EXCEPT ![p] = "dialling"]
    /\ UNCHANGED <<serverVars, wants, try, policy, link, server, reply, verdict, result>>

\* The TLS handshake agrees on the one name offered and on a group, and Connect returns.
Handshake(p) ==
    /\ at[p] = "dialling"
    /\ Wanted(p) \in Advertised(prog) /\ GroupInCommon(p)
    /\ at' = [at EXCEPT ![p] = "dialled"]
    /\ link' = [link EXCEPT ![p] = "open"]
    /\ UNCHANGED <<serverVars, wants, try, policy, server, reply, verdict, result>>

\* The handshake fails with an alert: no application protocol, or no group in common.
HandshakeRefused(p) ==
    /\ at[p] = "dialling"
    /\ ~(Wanted(p) \in Advertised(prog) /\ GroupInCommon(p))
    /\ at' = [at EXCEPT ![p] = "refused"]
    /\ verdict' = [verdict EXCEPT ![p] = "no"]
    /\ UNCHANGED <<serverVars, wants, try, policy, link, server, reply, result>>

\* The filter of incoming_filter looks at the gate: before the client has
\* connected, after it, or both, until the connection reaches the accept loop.
Filter(p) ==
    /\ prog = "incoming_filter" /\ server[p] = "none"
    /\ at[p] = "dialling" \/ (at[p] \in {"dialled", "sent"} /\ link[p] = "open")
    /\ \/ /\ open
          /\ verdict' = [verdict EXCEPT ![p] = "yes"]
          /\ UNCHANGED <<at, link>>
       \/ /\ ~open
          /\ verdict' = [verdict EXCEPT ![p] = "no"]
          /\ at' = IF at[p] = "dialling" THEN [at EXCEPT ![p] = "refused"] ELSE at
          /\ link' = IF at[p] = "dialling" THEN link ELSE [link EXCEPT ![p] = "rejected"]
    /\ UNCHANGED <<serverVars, wants, try, policy, server, reply, result>>

\* The finished handshake puts the connection into the endpoint's accept queue.
Queue(p) ==
    /\ link[p] # "none" /\ link[p] # "rejected" /\ server[p] = "none"
    /\ prog = "incoming_filter" => verdict[p] = "yes"
    /\ server' = [server EXCEPT ![p] = "queued"]
    /\ UNCHANGED <<serverVars, wants, try, policy, at, link, reply, verdict, result>>

\* An established connection breaks.
Lose(p) ==
    /\ link[p] = "open"
    /\ link' = [link EXCEPT ![p] = "lost"]
    /\ UNCHANGED <<serverVars, wants, try, policy, at, server, reply, verdict, result>>

-----------------------------------------------------------------------------
(* The accept loop and the handler goroutines                              *)

\* Endpoint.Accept returns a queued connection. The loop handles one at a time.
Accept(p) ==
    /\ loop = "serving" /\ server[p] = "queued"
    /\ \A q \in Peers : server[q] # "taken"
    /\ server' = [server EXCEPT ![p] = "taken"]
    /\ UNCHANGED <<serverVars, wants, try, policy, at, link, reply, verdict, result>>

\* A loop that hands every connection to a handler without looking at the table.
LookupSkipped(p) ==
    /\ server[p] = "taken"
    /\ server' = [server EXCEPT ![p] = "running"]
    /\ verdict' = [verdict EXCEPT ![p] = "yes"]
    /\ UNCHANGED <<serverVars, wants, try, policy, at, link, reply, result>>

\* A loop that drops a connection it has no handler for without closing it.
LookupNoClose(p) ==
    /\ server[p] = "taken"
    /\ LET found == Wanted(p) \in handlers IN
       /\ server' = [server EXCEPT ![p] = IF found THEN "running" ELSE "done"]
       /\ verdict' = [verdict EXCEPT ![p] = IF found THEN "yes" ELSE "no"]
    /\ UNCHANGED <<serverVars, wants, try, policy, at, link, reply, result>>

\* serve looks the negotiated name up under the mutex. Registered: a goroutine
\* takes the connection. Not registered: the connection is closed with code 1.
\* (Nothing changes a table other than custom_router's, so there the name is found.)
Lookup(p) ==
    /\ server[p] = "taken"
    /\ \/ /\ Wanted(p) \in handlers
          /\ server' = [server EXCEPT ![p] = "running"]
          /\ verdict' = [verdict EXCEPT ![p] = "yes"]
          /\ UNCHANGED link
       \/ /\ Wanted(p) \notin handlers
          /\ server' = [server EXCEPT ![p] = "done"]
          /\ verdict' = [verdict EXCEPT ![p] = "no"]
          /\ link' = IF link[p] = "open" THEN [link EXCEPT ![p] = "coded"] ELSE link
    /\ UNCHANGED <<serverVars, wants, try, policy, at, reply, result>>

\* A deadlined Accept(ctx) ends serve. The built-in router of incoming_filter has its own context.
StopServing ==
    /\ expired /\ loop = "serving" /\ prog # "incoming_filter"
    /\ \A q \in Peers : server[q] # "taken"
    /\ loop' = "stopped"
    /\ UNCHANGED <<prog, handlers, open, changes, expired, wants, try, policy, at, link, server, reply, verdict, result>>

\* echo, transform: accept the stream, read it to its end, answer, close.
Answer(p) ==
    /\ server[p] = "running" /\ at[p] = "sent" /\ link[p] = "open"
    /\ reply' = [reply EXCEPT ![p] = Wanted(p)]
    /\ server' = [server EXCEPT ![p] = "done"]
    /\ UNCHANGED <<serverVars, wants, try, policy, at, link, verdict, result>>

\* The handler returns an error: its connection is gone, or its context is done.
HandlerFails(p) ==
    /\ server[p] = "running"
    /\ link[p] # "open" \/ (expired /\ prog # "incoming_filter")
    /\ server' = [server EXCEPT ![p] = "done"]
    /\ UNCHANGED <<serverVars, wants, try, policy, at, link, reply, verdict, result>>

-----------------------------------------------------------------------------
(* The client's call: report, preferred or probe                           *)

\* How a connection that is no longer open looks to exchange.
Told == [coded |-> "dropped", rejected |-> "refused", lost |-> "failed"]

\* A call that returns without closing its connection.
ReturnNoClose(p, r) ==
    /\ at' = [at EXCEPT ![p] = "done"]
    /\ result' = [result EXCEPT ![p] = r]
    /\ UNCHANGED <<serverVars, wants, try, policy, link, server, reply, verdict>>

\* The call returns r; its deferred CloseWithError closes the connection.
Return(p, r) ==
    /\ at' = [at EXCEPT ![p] = "done"]
    /\ result' = [result EXCEPT ![p] = r]
    /\ link' = IF link[p] = "open" THEN [link EXCEPT ![p] = "closed"] ELSE link
    /\ UNCHANGED <<serverVars, wants, try, policy, server, reply, verdict>>

\* A preferred that tries an older version after any error, not only after a refusal.
NextVersionAnyError(p) ==
    /\ try[p] < Len(wants[p])
    /\ at[p] = "refused" \/ (at[p] \in {"dialled", "sent"} /\ link[p] = "lost")
    /\ try' = [try EXCEPT ![p] = @ + 1]
    /\ at' = [at EXCEPT ![p] = "dialling"]
    /\ link' = [link EXCEPT ![p] = "none"]
    /\ server' = [server EXCEPT ![p] = "none"]
    /\ reply' = [reply EXCEPT ![p] = 0]
    /\ verdict' = [verdict EXCEPT ![p] = "none"]
    /\ UNCHANGED <<serverVars, wants, policy, result>>

\* Connect returned the alert. preferred goes on to the next older name (and
\* each attempt is judged anew); report and probe, and preferred when it has no
\* name left, say that the server refused.
NextVersion(p) ==
    /\ at[p] = "refused" /\ try[p] < Len(wants[p])
    /\ try' = [try EXCEPT ![p] = @ + 1]
    /\ at' = [at EXCEPT ![p] = "dialling"]
    /\ verdict' = [verdict EXCEPT ![p] = "none"]
    /\ UNCHANGED <<serverVars, wants, policy, link, server, reply, result>>

Refused(p) ==
    /\ at[p] = "refused" /\ try[p] = Len(wants[p])
    /\ Return(p, "refused")

\* Connect(ctx) or OpenStreamSync(ctx) returns the context's error.
TimesOut(p) ==
    /\ expired /\ at[p] \in {"dialling", "dialled"}
    /\ Return(p, "failed")

\* exchange, first half: open the stream, write, half-close.
Send(p) ==
    /\ at[p] = "dialled" /\ link[p] = "open"
    /\ at' = [at EXCEPT ![p] = "sent"]
    /\ UNCHANGED <<serverVars, wants, try, policy, link, server, reply, verdict, result>>

\* exchange, second half: the reply has been read to its end.
ReadReply(p) ==
    /\ at[p] = "sent" /\ reply[p] # 0
    /\ Return(p, "served")

\* Any call of exchange on a connection that is gone returns that error; the
\* application code tells report a closed connection from a broken one.
ExchangeFails(p) ==
    /\ at[p] \in {"dialled", "sent"} /\ link[p] \in DOMAIN Told
    /\ Return(p, Told[link[p]])

-----------------------------------------------------------------------------
ServerStep(p) ==
    \/ Queue(p) \/ Filter(p) \/ Accept(p) \/ Lookup(p) \/ Answer(p) \/ HandlerFails(p)

ClientStep(p) ==
    \/ Handshake(p) \/ HandshakeRefused(p) \/ NextVersion(p) \/ Refused(p)
    \/ TimesOut(p) \/ Send(p) \/ ReadReply(p) \/ ExchangeFails(p)

Next ==
    \/ \E a \in Advertised(prog) : Handle(a) \/ Remove(a)
    \/ CloseGate \/ Expire \/ StopServing
    \/ \E p \in Peers : Dial(p) \/ Lose(p) \/ ServerStep(p) \/ ClientStep(p)

(***************************************************************************)
(* Goroutines that can run do run, and loopback packets arrive unless the  *)
(* connection breaks. Nobody has to dial, to change the table or to let    *)
(* the deadline pass. The filter runs at least once on what needs it.      *)
(***************************************************************************)
Fairness ==
    \A p \in Peers :
        /\ WF_vars(ClientStep(p))
        /\ WF_vars(Queue(p)) /\ SF_vars(Accept(p)) /\ WF_vars(Lookup(p))
        /\ WF_vars(Answer(p) \/ HandlerFails(p))
        /\ WF_vars(verdict[p] = "none" /\ Filter(p))

Spec == Init /\ [][Next]_vars /\ Fairness

-----------------------------------------------------------------------------
(* Properties                                                              *)

\* The values each variable of the dispatching servers takes.
TypeOK ==
    /\ prog \in Programs
    /\ handlers \subseteq Advertised(prog)
    /\ open \in BOOLEAN /\ expired \in BOOLEAN
    /\ changes \in 0..MaxChanges
    /\ loop \in {"serving", "stopped"}
    /\ wants \in [Peers -> Dials(prog)]
    /\ try \in [Peers -> 1..3] /\ \A p \in Peers : try[p] <= Len(wants[p])
    /\ policy \in [Peers -> Policies]
    /\ at \in [Peers -> {"idle", "dialling", "refused", "dialled", "sent", "done"}]
    /\ link \in [Peers -> {"none", "open", "coded", "rejected", "lost", "closed"}]
    /\ server \in [Peers -> {"none", "queued", "taken", "running", "done"}]
    /\ reply \in [Peers -> {0} \cup ALPNs]
    /\ verdict \in [Peers -> {"none", "yes", "no"}]
    /\ result \in [Peers -> {"none", "served", "dropped", "refused", "failed"}]

(***************************************************************************)
(* The refinement mapping onto Admission. A peer is admitted what is       *)
(* advertised, registered, behind an open gate and reachable with its      *)
(* key-exchange policy; its phase is read off its call and the decision.   *)
(***************************************************************************)
AdmitsNow ==
    [p \in Peers |-> IF open /\ GroupInCommon(p) THEN handlers ELSE {}]

AskedFor == [p \in Peers |-> IF at[p] = "idle" THEN {} ELSE {Wanted(p)}]

Phase ==
    [p \in Peers |->
        CASE at[p] = "idle" -> "idle"
          [] at[p] = "done" -> IF result[p] = "dropped" THEN "refused" ELSE result[p]
          [] OTHER          -> IF verdict[p] = "none" THEN "waiting" ELSE "decided"]

\* A decision taken about a peer that has already given up reaches nobody.
Decision == [p \in Peers |-> IF result[p] = "failed" THEN "none" ELSE verdict[p]]

Abstract == INSTANCE Admission
    WITH admits <- AdmitsNow, asked <- AskedFor, phase <- Phase, verdict <- Decision

\* However the accept loop, the filter, the handlers and the changes of the
\* table interleave, every report is the outcome of ONE decision taken between
\* the dial and the report against the table, the gate and the policies of that
\* instant: a peer is never served by a table that no longer (or never) had its
\* name, never admitted by a gate that was closed before it dialled, and never
\* turned away by a table that had its name all along.
AtomicAdmission == Abstract!ASpec

\* preferred settles for an older version only when the server speaks none of
\* the newer ones: a broken connection or a deadline never downgrades a peer,
\* and "no version in common" is reported only after the whole list.
NewestInCommon ==
    \A p \in Peers :
        /\ result[p] = "served" =>
              /\ reply[p] = Wanted(p)
              /\ \A i \in 1..(try[p] - 1) : wants[p][i] \notin Advertised(prog)
        /\ result[p] = "refused" /\ prog = "alpn_negotiation" =>
              \A i \in DOMAIN wants[p] : wants[p][i] \notin Advertised(prog)

\* Every dial ends in a report while run's context lasts: a connection the loop
\* has no handler for is closed, not left waiting. (After the deadline the loop
\* has stopped and io.ReadAll, which takes no context, may wait for ever.)
ReportsEnd == \A p \in Peers : at[p] = "dialling" ~> (at[p] = "done" \/ expired)

\* No handler goroutine outlives its connection: each one that is started ends,
\* also when its peer gives up before sending anything.
HandlersEnd == \A p \in Peers : server[p] = "running" ~> server[p] = "done"
=============================================================================
