-------------------------- MODULE SendmeSendProofs --------------------------
(***************************************************************************)
(* The store of a sender, from its creation to its deletion: for any files, *)
(* receivers and request streams, whatever fails and whenever the interrupt *)
(* arrives.                                                                 *)
(***************************************************************************)
EXTENDS SendmeSend, FiniteSetTheorems, TLAPS

-----------------------------------------------------------------------------
(* What the steps of startSend and Close have done when the command is at   *)
(* pc: none of it follows from the variables' types, and each conjunct is   *)
(* what makes a later one hold after the next step.                         *)

\* The store is there from NewFSStore to the RemoveAll of an exit, the endpoint
\* from bind to Shutdown, the accept loop from bind on.
Resources ==
  /\ store <=> pc \notin {"walk", "exited"}
  /\ endpoint = "up" <=> pc \in {"online", "serving", "shutdown"}
  /\ endpoint = "none" <=> loop = "off"
  /\ pc \in {"walk", "import", "bind", "abandoned"} => loop = "off"
  /\ pc = "exited" => loop \in {"off", "returned"}

\* Only an interrupt makes Close cancel serveCtx, only a canceled serveCtx or
\* a Shutdown after it ends the accept loop.
Teardown ==
  /\ serveDone => ctxDone
  /\ pc \in {"shutdown", "wait"} \/ endpoint = "shut" \/ loop \in {"wait", "returned"} => serveDone

\* The ticket names a collection that every import was good for.
Promise ==
  /\ pc \in {"bind", "online", "serving", "shutdown", "wait"} \/ ticket
       => \A f \in File : imported[f] = "ok"
  /\ ticket => pc \in {"serving", "shutdown", "wait"} \/ (pc = "exited" /\ ctxDone)

\* Connections and requests have goroutines only while serve runs or waits for
\* them.
Goroutines ==
  /\ \A c \in Conn : conn[c] = "served" => loop \in {"accept", "wait"}
  /\ \A s \in Stream : stream[s] = "serving" => loop \in {"accept", "wait"}

Inv == TypeOK /\ Resources /\ Teardown /\ Promise /\ Goroutines

-----------------------------------------------------------------------------
(* Type correctness: the semaphore of importFiles is the one conjunct of     *)
(* TypeOK that needs an argument.                                           *)

Importing == {f \in File : imported[f] = "run"}

\* importFiles holds at most -jobs imports at a time: a goroutine that gets
\* past sem makes them one more, and no other step makes them more.
LEMMA SemBoundsImports ==
  ASSUME TypeOK, [Next]_vars
  PROVE  Cardinality(Importing') <= Jobs
<1>1. IsFiniteSet(Importing) /\ Cardinality(Importing) \in Nat /\ Cardinality(Importing) <= Jobs
  BY ConstantsAssumption, FS_Subset, FS_CardinalityType DEF Importing, TypeOK
<1>2. CASE \E f \in File : ImportBegins(f)
  <2>1. PICK f \in File : ImportBegins(f)
    BY <1>2
  <2>2. Importing' = Importing \cup {f} /\ f \notin Importing
    BY <2>1 DEF Importing, ImportBegins, TypeOK
  <2>3. Cardinality(Importing) < Jobs
    BY <2>1 DEF Importing, ImportBegins
  <2>4. Cardinality(Importing \cup {f}) = Cardinality(Importing) + 1
    BY <1>1, <2>2, FS_AddElement
  <2> QED
    BY <1>1, <2>2, <2>3, <2>4, ConstantsAssumption
<1>3. CASE ~\E f \in File : ImportBegins(f)
  <2>1. Importing' \subseteq Importing
    BY <1>3 DEF Importing, TypeOK, Next, vars, serving, Command, WalkFails, NewFSStore, importFiles,
         importFilesFails, PublisherFails, bindFails, bind, PrintTicket, Cancel, Shutdown, RemoveAll,
         Interrupt, AcceptFails, serveReturns, ImportEnds, Connect, Disconnect, Accept,
         AcceptStreamFails, Request, AcceptStream, ServeBlob
  <2> QED
    BY <1>1, <2>1, FS_Subset, FS_CardinalityType, ConstantsAssumption
<1> QED
  BY <1>2, <1>3

\* The rest of TypeOK.
Types ==
  /\ pc \in {"walk", "import", "bind", "online", "serving", "shutdown", "wait",
             "abandoned", "exited"}
  /\ ctxDone \in BOOLEAN /\ store \in BOOLEAN /\ ticket \in BOOLEAN /\ serveDone \in BOOLEAN
  /\ imported \in [File -> {"wait", "run", "ok", "err"}]
  /\ endpoint \in {"none", "up", "shut"}
  /\ loop \in {"off", "accept", "wait", "returned"}
  /\ conn \in [Conn -> {"none", "queued", "served", "closed"}]
  /\ stream \in [Stream -> {"none", "open", "serving", "answered", "reset"}]

-----------------------------------------------------------------------------
(* The inductive invariant.                                                *)

\* Every step keeps what the command, its Close and its goroutines have done.
LEMMA StepsKeep ==
  ASSUME Types, Resources, Teardown, Promise, Goroutines, [Next]_vars
  PROVE  Types' /\ Resources' /\ Teardown' /\ Promise' /\ Goroutines'
<1> USE DEF Types, Resources, Teardown, Promise, Goroutines
<1>1. CASE WalkFails \/ NewFSStore
  <2>1. Types'
    BY <1>1 DEF WalkFails, NewFSStore, serving
  <2>2. Resources' /\ Teardown' /\ Promise' /\ Goroutines'
    BY <1>1 DEF WalkFails, NewFSStore, serving
  <2> QED
    BY <2>1, <2>2
<1>2. CASE \E f \in File : ImportBegins(f) \/ ImportEnds(f)
  BY <1>2 DEF ImportBegins, ImportEnds, serving
<1>3. CASE importFiles \/ importFilesFails
  <2>1. Types'
    BY <1>3 DEF importFiles, importFilesFails, serving
  <2>2. Resources' /\ Teardown' /\ Promise' /\ Goroutines'
    BY <1>3 DEF importFiles, importFilesFails, serving
  <2> QED
    BY <2>1, <2>2
<1>4. CASE PublisherFails \/ bindFails
  <2>1. Types'
    BY <1>4 DEF PublisherFails, bindFails, serving
  <2>2. Resources' /\ Teardown' /\ Promise' /\ Goroutines'
    BY <1>4 DEF PublisherFails, bindFails, serving
  <2> QED
    BY <2>1, <2>2
<1>5. CASE bind
  BY <1>5 DEF bind
<1>6. CASE PrintTicket \/ Interrupt
  <2>1. Types'
    BY <1>6 DEF PrintTicket, Interrupt, serving
  <2>2. Resources' /\ Teardown' /\ Promise' /\ Goroutines'
    BY <1>6 DEF PrintTicket, Interrupt, serving
  <2> QED
    BY <2>1, <2>2
<1>7. CASE Cancel
  BY <1>7 DEF Cancel, serving
<1>8. CASE Shutdown
  BY <1>8 DEF Shutdown
<1>9. CASE RemoveAll
  BY <1>9 DEF RemoveAll, serving
<1>10. CASE \E c \in Conn : Connect(c) \/ Disconnect(c) \/ Accept(c) \/ AcceptStreamFails(c)
  BY <1>10 DEF Connect, Disconnect, Accept, AcceptStreamFails
<1>11. CASE \E s \in Stream : Request(s) \/ AcceptStream(s) \/ ServeBlob(s)
  BY <1>11 DEF Request, AcceptStream, ServeBlob, Conn
<1>12. CASE AcceptFails
  BY <1>12 DEF AcceptFails
<1>13. CASE serveReturns
  BY <1>13 DEF serveReturns
<1>14. CASE UNCHANGED vars
  BY <1>14 DEF vars
<1> QED
  BY <1>1, <1>2, <1>3, <1>4, <1>5, <1>6, <1>7, <1>8, <1>9, <1>10, <1>11, <1>12, <1>13, <1>14
     DEF Next, Command

LEMMA InvIsInvariant == Spec => []Inv
<1>1. Init => Inv
  <2> SUFFICES ASSUME Init PROVE Inv
    OBVIOUS
  <2>1. Importing = {}
    BY DEF Init, Importing
  <2>2. Cardinality(Importing) <= Jobs
    BY <2>1, FS_EmptySet, ConstantsAssumption
  <2> QED
    BY <2>2 DEF Init, Inv, TypeOK, Importing, Resources, Teardown, Promise, Goroutines
<1>2. Inv /\ [Next]_vars => Inv'
  BY SemBoundsImports, StepsKeep DEF Inv, TypeOK, Types, Importing
<1> QED
  BY <1>1, <1>2, PTL DEF Spec

-----------------------------------------------------------------------------

\* Every variable stays in its range, and importFiles never runs more than
\* -jobs imports at once.
THEOREM TypeCorrect == Spec => []TypeOK
BY InvIsInvariant, PTL DEF Inv

\* Close stops serve and waits for its goroutines before it deletes the store,
\* and no other return of startSend has a goroutine to wait for: no request is
\* ever answered from a directory that is deleted.
THEOREM ReadersHaveAStore == Spec => []StoreOutlivesReaders
<1>1. Inv => StoreOutlivesReaders
  BY DEF Inv, Resources, Goroutines, StoreOutlivesReaders
<1> QED
  BY <1>1, InvIsInvariant, PTL

\* Until the interrupt, the ticket that was printed leads to a running accept
\* loop over a store that every file was imported into.
THEOREM TicketsAreGood == Spec => []TicketIsServed
<1>1. Inv => TicketIsServed
  BY DEF Inv, TypeOK, Resources, Teardown, Promise, TicketIsServed
<1> QED
  BY <1>1, InvIsInvariant, PTL

\* The safety half of InterruptEnds: at every exit of the command, of a failed
\* start as well as of a Close, the store is gone and so are the endpoint, the
\* accept loop and every goroutine that serves a receiver.
THEOREM ExitsAreClean ==
  Spec => [](pc = "exited" => /\ Clean
                              /\ \A c \in Conn : conn[c] # "served"
                              /\ \A s \in Stream : stream[s] # "serving")
<1>1. Inv /\ pc = "exited" => /\ Clean
                              /\ \A c \in Conn : conn[c] # "served"
                              /\ \A s \in Stream : stream[s] # "serving"
  BY DEF Inv, Resources, Goroutines, Clean
<1> QED
  BY <1>1, InvIsInvariant, PTL
=============================================================================
