----------------------------- MODULE SendmeSend -----------------------------
(***************************************************************************)
(* "send" of cmd/go-iroh-sendme: startSend imports the files into a store  *)
(* in a directory of its own, serves the store and prints a ticket; the    *)
(* interrupt makes the command Close the sender, which stops serving and   *)
(* deletes the store.                                                      *)
(***************************************************************************)
EXTENDS Integers, FiniteSets

CONSTANTS
  File,    \* the files walk found
  Jobs,    \* -jobs
  Stream,  \* the request streams receivers may open
  ConnOf,  \* ConnOf[s]: the connection stream s is opened on
  IdOnly   \* is the ticket type idOnly?

Conn == {ConnOf[s] : s \in Stream}

ASSUME ConstantsAssumption ==
  /\ IsFiniteSet(File) /\ IsFiniteSet(Stream)
  /\ Jobs \in Nat \ {0}
  /\ DOMAIN ConnOf = Stream
  /\ IdOnly \in BOOLEAN

VARIABLES
  pc,         \* where send, startSend and Close are
  ctxDone,    \* the interrupt arrived
  store,      \* does storeDir exist?
  imported,   \* imported[f]: the import of file f, "wait", "run", "ok" or "err"
  ticket,     \* was the ticket printed?
  endpoint,   \* "none", "up" or "shut"
  serveDone,  \* serveCtx is canceled
  loop,       \* serve's accept loop: "off", "accept", "wait" or "returned"
  conn,       \* conn[c]: "none", "queued", "served" or "closed"
  stream      \* stream[s]: "none", "open", "serving", "answered" or "reset"

vars == <<pc, ctxDone, store, imported, ticket, endpoint, serveDone, loop, conn, stream>>
serving == <<loop, conn, stream>>

Init ==
  /\ pc = "walk"
  /\ ctxDone = FALSE
  /\ store = FALSE
  /\ imported = [f \in File |-> "wait"]
  /\ ticket = FALSE
  /\ endpoint = "none"
  /\ serveDone = FALSE
  /\ loop = "off"
  /\ conn = [c \in Conn |-> "none"]
  /\ stream = [s \in Stream |-> "none"]

-----------------------------------------------------------------------------
(* startSend.                                                              *)

\* The walk fails, storeDir exists already, or the store cannot be made.
WalkFails ==
  /\ pc = "walk"
  /\ pc' = "exited"
  /\ UNCHANGED <<ctxDone, store, imported, ticket, endpoint, serveDone, serving>>

NewFSStore ==
  /\ pc = "walk"
  /\ store' = TRUE
  /\ pc' = "import"
  /\ UNCHANGED <<ctxDone, imported, ticket, endpoint, serveDone, serving>>

\* importFiles: a goroutine per file, Jobs of them past sem at a time.
ImportBegins(f) ==
  /\ pc = "import" /\ imported[f] = "wait"
  /\ Cardinality({g \in File : imported[g] = "run"}) < Jobs
  /\ imported' = [imported EXCEPT ![f] = "run"]
  /\ UNCHANGED <<pc, ctxDone, store, ticket, endpoint, serveDone, serving>>

\* ImportFile and os.Stat succeed, or the first error is kept.
ImportEnds(f) ==
  /\ pc = "import" /\ imported[f] = "run"
  /\ \E res \in {"ok", "err"} : imported' = [imported EXCEPT ![f] = res]
  /\ UNCHANGED <<pc, ctxDone, store, ticket, endpoint, serveDone, serving>>

\* An importFiles that forgets its firstErr.
importFilesUnchecked ==
  /\ pc = "import"
  /\ \A f \in File : imported[f] \in {"ok", "err"}
  /\ pc' = "bind"
  /\ UNCHANGED <<ctxDone, store, imported, ticket, endpoint, serveDone, serving>>

\* importFiles returns after wg.Wait, with a root when every import succeeded.
importFiles ==
  /\ pc = "import"
  /\ \A f \in File : imported[f] = "ok"
  /\ pc' = "bind"
  /\ UNCHANGED <<ctxDone, store, imported, ticket, endpoint, serveDone, serving>>

\* importFiles fails, in an import or in adding the collection: startSend
\* deletes the store.
importFilesFails ==
  /\ pc = "import"
  /\ \A f \in File : imported[f] \in {"ok", "err"}
  /\ store' = FALSE
  /\ pc' = "exited"
  /\ UNCHANGED <<ctxDone, imported, ticket, endpoint, serveDone, serving>>

\* The pkarr publisher of an ID-only ticket cannot be made: startSend returns
\* at once, and this return leaves the store.
PublisherFails ==
  /\ pc = "bind" /\ IdOnly
  /\ pc' = "abandoned"
  /\ UNCHANGED <<ctxDone, store, imported, ticket, endpoint, serveDone, serving>>

bindFails ==
  /\ pc = "bind"
  /\ store' = FALSE
  /\ pc' = "exited"
  /\ UNCHANGED <<ctxDone, imported, ticket, endpoint, serveDone, serving>>

\* bind, and the goroutine that serves until serveCtx is canceled.
bind ==
  /\ pc = "bind"
  /\ endpoint' = "up"
  /\ loop' = "accept"
  /\ pc' = "online"
  /\ UNCHANGED <<ctxDone, store, imported, ticket, serveDone, conn, stream>>

\* Online returned, timed out or was skipped; the ticket is printed.
PrintTicket ==
  /\ pc = "online"
  /\ ticket' = TRUE
  /\ pc' = "serving"
  /\ UNCHANGED <<ctxDone, store, imported, endpoint, serveDone, serving>>

Interrupt ==
  /\ ~ctxDone
  /\ ctxDone' = TRUE
  /\ UNCHANGED <<pc, store, imported, ticket, endpoint, serveDone, serving>>

-----------------------------------------------------------------------------
(* sender.Close.                                                           *)

Cancel ==
  /\ pc = "serving" /\ ctxDone
  /\ serveDone' = TRUE
  /\ pc' = "shutdown"
  /\ UNCHANGED <<ctxDone, store, imported, ticket, endpoint, serving>>

\* ep.Shutdown closes every connection.
Shutdown ==
  /\ pc = "shutdown"
  /\ endpoint' = "shut"
  /\ conn' = [c \in Conn |-> IF conn[c] = "none" THEN "none" ELSE "closed"]
  /\ pc' = "wait"
  /\ UNCHANGED <<ctxDone, store, imported, ticket, serveDone, loop, stream>>

\* A Close that waits for every request to be answered.
RemoveAllDrained ==
  /\ pc = "wait"
  /\ loop = "returned"
  /\ \A s \in Stream : stream[s] \in {"none", "answered"}
  /\ store' = FALSE
  /\ pc' = "exited"
  /\ UNCHANGED <<ctxDone, imported, ticket, endpoint, serveDone, serving>>

\* s.wg.Wait, then os.RemoveAll.
RemoveAll ==
  /\ pc = "wait"
  /\ loop = "returned"
  /\ store' = FALSE
  /\ pc' = "exited"
  /\ UNCHANGED <<ctxDone, imported, ticket, endpoint, serveDone, serving>>

-----------------------------------------------------------------------------
(* Receivers, and serve.                                                   *)

Connect(c) ==
  /\ endpoint = "up" /\ conn[c] = "none"
  /\ conn' = [conn EXCEPT ![c] = "queued"]
  /\ UNCHANGED <<pc, ctxDone, store, imported, ticket, endpoint, serveDone, loop, stream>>

Request(s) ==
  /\ conn[ConnOf[s]] \in {"queued", "served"} /\ stream[s] = "none"
  /\ stream' = [stream EXCEPT ![s] = "open"]
  /\ UNCHANGED <<pc, ctxDone, store, imported, ticket, endpoint, serveDone, loop, conn>>

\* A receiver closes its connection; the connection's goroutine returns.
Disconnect(c) ==
  /\ conn[c] = "served"
  /\ conn' = [conn EXCEPT ![c] = "closed"]
  /\ UNCHANGED <<pc, ctxDone, store, imported, ticket, endpoint, serveDone, loop, stream>>

\* ep.Accept, and a goroutine for the connection.
Accept(c) ==
  /\ loop = "accept" /\ conn[c] = "queued"
  /\ conn' = [conn EXCEPT ![c] = "served"]
  /\ UNCHANGED <<pc, ctxDone, store, imported, ticket, endpoint, serveDone, loop, stream>>

\* ep.Accept fails once serveCtx is canceled or the endpoint is shut.
AcceptFails ==
  /\ loop = "accept"
  /\ serveDone \/ endpoint = "shut"
  /\ loop' = "wait"
  /\ UNCHANGED <<pc, ctxDone, store, imported, ticket, endpoint, serveDone, conn, stream>>

\* conn.AcceptStream, and a goroutine that runs blobs.ServeBlob.
AcceptStream(s) ==
  /\ conn[ConnOf[s]] = "served" /\ stream[s] = "open"
  /\ stream' = [stream EXCEPT ![s] = "serving"]
  /\ UNCHANGED <<pc, ctxDone, store, imported, ticket, endpoint, serveDone, loop, conn>>

\* conn.AcceptStream fails on serveCtx: the deferred conn.Close.
AcceptStreamFails(c) ==
  /\ conn[c] = "served" /\ serveDone
  /\ conn' = [conn EXCEPT ![c] = "closed"]
  /\ UNCHANGED <<pc, ctxDone, store, imported, ticket, endpoint, serveDone, loop, stream>>

\* blobs.ServeBlob answers the request from the store, or fails because the
\* peer, the connection or serveCtx is gone, and both directions are reset.
ServeBlob(s) ==
  /\ stream[s] = "serving"
  /\ \/ conn[ConnOf[s]] = "served" /\ stream' = [stream EXCEPT ![s] = "answered"]
     \/ stream' = [stream EXCEPT ![s] = "reset"]
  /\ UNCHANGED <<pc, ctxDone, store, imported, ticket, endpoint, serveDone, loop, conn>>

\* A serve that waits for its connections and not for their streams.
serveReturnsEarly ==
  /\ loop = "wait"
  /\ \A c \in Conn : conn[c] # "served"
  /\ loop' = "returned"
  /\ UNCHANGED <<pc, ctxDone, store, imported, ticket, endpoint, serveDone, conn, stream>>

\* serve's deferred wg.Wait: every connection and stream goroutine is done.
serveReturns ==
  /\ loop = "wait"
  /\ \A c \in Conn : conn[c] # "served"
  /\ \A s \in Stream : stream[s] # "serving"
  /\ loop' = "returned"
  /\ UNCHANGED <<pc, ctxDone, store, imported, ticket, endpoint, serveDone, conn, stream>>

Command ==
  \/ WalkFails \/ NewFSStore \/ importFiles \/ importFilesFails
  \/ PublisherFails \/ bindFails \/ bind \/ PrintTicket
  \/ Cancel \/ Shutdown \/ RemoveAll

Next ==
  \/ Command \/ Interrupt \/ AcceptFails \/ serveReturns
  \/ \E f \in File : ImportBegins(f) \/ ImportEnds(f)
  \/ \E c \in Conn : Connect(c) \/ Disconnect(c) \/ Accept(c) \/ AcceptStreamFails(c)
  \/ \E s \in Stream : Request(s) \/ AcceptStream(s) \/ ServeBlob(s)

Spec == Init /\ [][Next]_vars

\* Every goroutine of the sender runs; receivers and the user owe nothing.
Fairness ==
  /\ WF_vars(Command) /\ WF_vars(AcceptFails) /\ WF_vars(serveReturns)
  /\ \A f \in File : WF_vars(ImportBegins(f)) /\ WF_vars(ImportEnds(f))
  /\ \A c \in Conn : WF_vars(AcceptStreamFails(c))
  /\ \A s \in Stream : WF_vars(ServeBlob(s))

FairSpec == Spec /\ Fairness

-----------------------------------------------------------------------------

TypeOK ==
  /\ pc \in {"walk", "import", "bind", "online", "serving", "shutdown", "wait",
             "abandoned", "exited"}
  /\ ctxDone \in BOOLEAN /\ store \in BOOLEAN /\ ticket \in BOOLEAN /\ serveDone \in BOOLEAN
  /\ imported \in [File -> {"wait", "run", "ok", "err"}]
  /\ endpoint \in {"none", "up", "shut"}
  /\ loop \in {"off", "accept", "wait", "returned"}
  /\ conn \in [Conn -> {"none", "queued", "served", "closed"}]
  /\ stream \in [Stream -> {"none", "open", "serving", "answered", "reset"}]
  /\ Cardinality({f \in File : imported[f] = "run"}) <= Jobs

\* The store outlives its readers: no ServeBlob ever runs over a store
\* directory that is being, or has been, deleted.
StoreOutlivesReaders == (\E s \in Stream : stream[s] = "serving") => store

\* A printed ticket is good until the interrupt: every file is imported, the
\* store is there and the accept loop is running.
TicketIsServed ==
  ticket /\ ~ctxDone =>
    /\ store /\ loop = "accept" /\ endpoint = "up"
    /\ \A f \in File : imported[f] = "ok"

\* The interrupt ends the command, however receivers behave: Close waits for no
\* one who does not answer.  And whatever fails or is interrupted, a send that
\* ends deletes its store and leaves no goroutine; the one exception in the
\* code is a failing publisher, after which pc is "abandoned".
Clean == pc = "exited" /\ ~store /\ loop \in {"off", "returned"} /\ endpoint # "up"
InterruptEnds == (ctxDone \/ pc = "exited") ~> (Clean \/ pc = "abandoned")
=============================================================================
