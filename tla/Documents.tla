----------------------------- MODULE Documents -----------------------------
(***************************************************************************)
(* Two replicas of a multi-writer document, and a store of blobs on disk:   *)
(*                                                                         *)
(*   docs_live_sync  replicas that learn of writes over gossip and catch   *)
(*                   up by reconciliation when they meet; bob's store also *)
(*                   appends what it takes in to a file                    *)
(*   docs_sync       replicas that reconcile only when run asks for it     *)
(*   blobs_store     one store directory: blobs with and without a name,   *)
(*                   a download, garbage collection, kills and reruns      *)
(*                                                                         *)
(* main follows a script (run); beside it the library's reconciliations,   *)
(* gossip neighbours and deliveries happen in any order. The stores, gossip,*)
(* reconciliation and garbage collection are go-iroh's: they appear as the *)
(* programs use and describe them. An entry names a blob by its hash, so   *)
(* the entry stands for that blob as well. An entry is identified by its   *)
(* author and its key, and a later one replaces an earlier one; no key in   *)
(* these programs is a prefix of another, so prefix deletion does not       *)
(* arise.                                                                  *)
(***************************************************************************)
EXTENDS Naturals, Sequences, FiniteSets

Replicas == {"alice", "bob"}
Other(r) == IF r = "alice" THEN "bob" ELSE "alice"

Programs == {"docs_live_sync", "docs_sync", "blobs_store"}

CONSTANT MaxRuns  \* bound on the runs of blobs_store over one -dir

ASSUME DocumentsAssumption == MaxRuns \in Nat \ {0}

VARIABLES
    prog,       \* which program runs
    pc,         \* main's place in its script
    outcome,    \* of run: "running", "ok", "failed" or "killed"
    expired,    \* run's context is done
    broken,     \* some reconciliation failed on the network
    refused,    \* some reconciliation was refused while run was under way
    store,      \* per replica: the entries of its document store
    file,       \* the entries in the file behind bob's store
    allowed,    \* per replica: allowSync admits the namespace
    live,       \* per replica: StartLiveSync has returned
    neighbor,   \* per replica: gossip has reported the other one
    todo,       \* per replica: it owes the other one a reconciliation
    sync,       \* per replica: the reconciliation it has started
    gossip,     \* broadcasts under way: a receiver and an entry
    blobs,      \* per replica: its blob store's data, temp tags and persistent tags
    asked,      \* blobs_store: the downloader has tried a provider
    runs,       \* blobs_store: the times it was run
    parts       \* blobs_store: the runs whose unfinished blob is a file in the directory

vars == <<prog, pc, outcome, expired, broken, refused, store, file, allowed, live,
          neighbor, todo, sync, gossip, blobs, asked, runs, parts>>
blobVars == <<blobs, asked, runs, parts>>
docVars  == <<store, file, allowed, live, neighbor, todo, sync, gossip>>

Entry(author, key, ts) == [author |-> author, key |-> key, ts |-> ts]

\* The values main writes. The timestamps of docs_sync are base + i; the ones
\* of docs_live_sync are clock readings, and no key there is written twice.
Before == Entry("alice", "before", 1)
After  == Entry("alice", "after", 1)
Reply  == Entry("bob", "reply", 1)

AliceGreeting == Entry("alice", "greeting", 1)
Coffee        == Entry("alice", "menu/coffee", 1)
BobGreeting   == Entry("bob", "greeting", 1)
ColdBrew      == Entry("alice", "menu/coffee", 2)

Entries == {Before, After, Reply, AliceGreeting, Coffee, BobGreeting, ColdBrew}

\* The blobs of blobs_store.
Keep    == "keepData"
Scratch == "scratchData"
Remote  == "remoteData"

Newer(e, f) == e.author = f.author /\ e.key = f.key /\ e.ts > f.ts

\* What a store holds after inserting T into S: per author and key, the newest.
Merge(S, T) == {e \in S \cup T : \A f \in S \cup T : ~Newer(f, e)}

\* The scripts. A step of main is a record of what it does, who does it and with what.
Do(op, who, arg) == [op |-> op, who |-> who, arg |-> arg]

\* A replica.put that stores the entry first.
PutEntryFirst(who, e) == << Do("put", who, e), Do("write", who, e) >>
\* replica.put stores the content and then the entry that names it.
PutSteps(who, e) == << Do("write", who, e), Do("put", who, e) >>

\* A startLiveSync that admits the namespace only after it has joined the topic.
LiveSyncScriptLateAllow ==
    PutSteps("alice", Before) \o
    << Do("start", "alice", 0), Do("allow", "alice", 0),
       Do("start", "bob", 0), Do("allow", "bob", 0), Do("await", "bob", 1) >>

\* A run that does not wait for alice before it compares the replicas.
LiveSyncScriptHasty ==
    PutSteps("alice", Before) \o
    << Do("allow", "alice", 0), Do("start", "alice", 0),
       Do("allow", "bob", 0), Do("start", "bob", 0), Do("await", "bob", 1) >> \o
    PutSteps("alice", After) \o << Do("await", "bob", 2) >> \o
    PutSteps("bob", Reply) \o << Do("check", "bob", 0) >>

LiveSyncScript ==
    PutSteps("alice", Before) \o
    << Do("allow", "alice", 0), Do("start", "alice", 0),
       Do("allow", "bob", 0), Do("start", "bob", 0), Do("await", "bob", 1) >> \o
    PutSteps("alice", After) \o << Do("await", "bob", 2) >> \o
    PutSteps("bob", Reply) \o << Do("await", "alice", 3), Do("check", "bob", 0) >>

\* (Three of its five keys: one that both write, one that is updated, none alike.)
SyncScript ==
    << Do("allow", "alice", 0) >> \o PutSteps("alice", AliceGreeting) \o
    PutSteps("alice", Coffee) \o PutSteps("bob", BobGreeting) \o
    << Do("sync", "bob", 0), Do("synced", "bob", 0) >> \o PutSteps("alice", ColdBrew) \o
    << Do("sync", "bob", 0), Do("synced", "bob", 0), Do("find", "bob", ColdBrew) >>

\* A blobs_store that gives the unnamed blob a temp tag and never closes it.
BlobsStoreScriptLeakyTag ==
    << Do("commit", "alice", Keep), Do("tag", "alice", Keep), Do("commit", "alice", Scratch),
       Do("untemp", "alice", Keep), Do("reopen", "alice", Keep),
       Do("download", "alice", Remote), Do("tag", "alice", Remote), Do("counted", "alice", 0),
       Do("untemp", "alice", Remote), Do("gc", "alice", 0) >>

\* blobs_store: write, reopen, download and collect. (Its store is alice's.)
BlobsStoreScript ==
    << Do("commit", "alice", Keep), Do("tag", "alice", Keep), Do("write", "alice", Scratch),
       Do("untemp", "alice", Keep), Do("reopen", "alice", Keep),
       Do("download", "alice", Remote), Do("tag", "alice", Remote), Do("counted", "alice", 0),
       Do("untemp", "alice", Remote), Do("gc", "alice", 0) >>

Script(pr) == CASE pr = "docs_live_sync" -> LiveSyncScript
                [] pr = "docs_sync" -> SyncScript
                [] pr = "blobs_store" -> BlobsStoreScript

Idle == [phase |-> "none", sent |-> {}]

Init ==
    /\ prog \in Programs
    /\ pc = 1 /\ outcome = "running"
    /\ expired = FALSE /\ broken = FALSE /\ refused = FALSE
    /\ store = [r \in Replicas |-> {}]
    /\ file = {}
    /\ allowed = [r \in Replicas |-> FALSE]
    /\ live = [r \in Replicas |-> FALSE]
    /\ neighbor = [r \in Replicas |-> FALSE]
    /\ todo = [r \in Replicas |-> FALSE]
    /\ sync = [r \in Replicas |-> Idle]
    /\ gossip = {}
    /\ blobs = [r \in Replicas |-> [data |-> {}, temp |-> {}, tags |-> {}]]
    /\ asked = FALSE
    /\ runs = 1
    /\ parts = {}

-----------------------------------------------------------------------------
(* main                                                                    *)

\* main is about to do op.
AtCall(op) == pc <= Len(Script(prog)) /\ Script(prog)[pc].op = op
At(op) == outcome = "running" /\ AtCall(op)
Who == Script(prog)[pc].who
Arg == Script(prog)[pc].arg

\* A store takes entries in; what bob's store inserts is appended to its file.
TakeIn(r, T) ==
    /\ store' = [store EXCEPT ![r] = Merge(@, T)]
    /\ file' = IF r = "bob" /\ prog = "docs_live_sync"
               THEN file \cup (Merge(store[r], T) \ store[r]) ELSE file

\* A mutant of Put: the entry is stored and never announced.
PutQuiet ==
    /\ At("put")
    /\ IF \E f \in store[Who] : f = Arg \/ Newer(f, Arg)
       THEN outcome' = "failed" /\ UNCHANGED <<pc, store, file>>
       ELSE /\ TakeIn(Who, {Arg})
            /\ pc' = pc + 1
            /\ UNCHANGED outcome
    /\ UNCHANGED <<blobVars, prog, expired, broken, refused, allowed, live, neighbor, todo, sync, gossip>>

\* replica.put: a live replica broadcasts the new entry to its neighbour. An
\* entry that is equal to or older than one already stored is an error of put.
Put ==
    /\ At("put")
    /\ IF \E f \in store[Who] : f = Arg \/ Newer(f, Arg)
       THEN outcome' = "failed" /\ UNCHANGED <<pc, store, file, gossip>>
       ELSE /\ TakeIn(Who, {Arg})
            /\ gossip' = IF live[Who] /\ neighbor[Who]
                         THEN gossip \cup {<<Other(Who), Arg>>} ELSE gossip
            /\ pc' = pc + 1
            /\ UNCHANGED outcome
    /\ UNCHANGED <<blobVars, prog, expired, broken, refused, allowed, live, neighbor, todo, sync>>

\* startLiveSync publishes the namespace to allowSync (docs_sync: NewRouter's Allow) ...
AllowSync ==
    /\ At("allow")
    /\ allowed' = [allowed EXCEPT ![Who] = TRUE]
    /\ pc' = pc + 1
    /\ UNCHANGED <<blobVars, prog, outcome, expired, broken, refused, store, file, live, neighbor, todo, sync, gossip>>

\* ... and only then joins the topic. Bob bootstraps to alice, and so owes her a reconciliation.
StartLiveSync ==
    /\ At("start")
    /\ live' = [live EXCEPT ![Who] = TRUE]
    /\ todo' = IF Who = "bob" THEN [todo EXCEPT !["bob"] = TRUE] ELSE todo
    /\ pc' = pc + 1
    /\ UNCHANGED <<blobVars, prog, outcome, expired, broken, refused, store, file, allowed, neighbor, sync, gossip>>

\* StartLiveSync fails: the namespace is withdrawn and run returns the error.
StartLiveSyncFails ==
    /\ At("start")
    /\ allowed' = [allowed EXCEPT ![Who] = FALSE]
    /\ outcome' = "failed" /\ broken' = TRUE
    /\ UNCHANGED <<blobVars, prog, pc, expired, refused, store, file, live, neighbor, todo, sync, gossip>>

\* An await that stops one entry early.
AwaitOneLess ==
    /\ At("await") /\ Cardinality(store[Who]) >= Arg - 1
    /\ pc' = pc + 1
    /\ UNCHANGED <<blobVars, prog, outcome, expired, broken, refused, store, file, allowed, live, neighbor, todo, sync, gossip>>

\* replica.await: the store has at least n entries ...
Await ==
    /\ At("await") /\ Cardinality(store[Who]) >= Arg
    /\ pc' = pc + 1
    /\ UNCHANGED <<blobVars, prog, outcome, expired, broken, refused, store, file, allowed, live, neighbor, todo, sync, gossip>>

\* ... or the deadline passes first.
AwaitTimesOut ==
    /\ At("await") /\ Cardinality(store[Who]) < Arg /\ expired
    /\ outcome' = "failed"
    /\ UNCHANGED <<blobVars, prog, pc, expired, broken, refused, store, file, allowed, live, neighbor, todo, sync, gossip>>

\* syncOnce: bob starts one reconciliation with the peer the ticket names ...
SyncOnce ==
    /\ At("sync")
    /\ todo' = [todo EXCEPT ![Who] = TRUE]
    /\ pc' = pc + 1
    /\ UNCHANGED <<blobVars, prog, outcome, expired, broken, refused, store, file, allowed, live, neighbor, sync, gossip>>

\* ... and waits for its result, which may be an error.
SyncOnceReturns ==
    /\ At("synced") /\ ~todo[Who] /\ sync[Who] = Idle
    /\ IF broken THEN outcome' = "failed" /\ UNCHANGED pc
                 ELSE pc' = pc + 1 /\ UNCHANGED outcome
    /\ UNCHANGED <<blobVars, prog, expired, broken, refused, store, file, allowed, live, neighbor, todo, sync, gossip>>

\* The checks at the end of run: equal fingerprints, and a file that loads to bob's store ...
Check ==
    /\ At("check")
    /\ IF store["alice"] = store["bob"] /\ Merge({}, file) = store["bob"]
       THEN pc' = pc + 1 /\ UNCHANGED outcome
       ELSE outcome' = "failed" /\ UNCHANGED pc
    /\ UNCHANGED <<blobVars, prog, expired, broken, refused, store, file, allowed, live, neighbor, todo, sync, gossip>>

\* ... or, in docs_sync, an update that bob can find.
Find ==
    /\ At("find")
    /\ IF \E e \in store[Who] : e.author = Arg.author /\ e.key = Arg.key
       THEN pc' = pc + 1 /\ UNCHANGED outcome
       ELSE outcome' = "failed" /\ UNCHANGED pc
    /\ UNCHANGED <<blobVars, prog, expired, broken, refused, store, file, allowed, live, neighbor, todo, sync, gossip>>

\* blobs.WriteBlob and FSStore.Add: content that nothing protects.
WriteBlob ==
    /\ At("write")
    /\ blobs' = [blobs EXCEPT ![Who].data = @ \cup {Arg}]
    /\ pc' = pc + 1
    /\ UNCHANGED <<prog, outcome, expired, broken, refused, docVars, asked, runs, parts>>

\* NewBlob opens a temporary file that garbage collection cannot see ...
NewBlob ==
    /\ At("commit") /\ runs \notin parts
    /\ parts' = parts \cup {runs}
    /\ UNCHANGED <<prog, pc, outcome, expired, broken, refused, docVars, blobs, asked, runs>>

\* ... and once the content is written Commit installs it, under a temp tag.
Commit ==
    /\ At("commit") /\ runs \in parts
    /\ parts' = parts \ {runs}
    /\ blobs' = [blobs EXCEPT ![Who].data = @ \cup {Arg}, ![Who].temp = @ \cup {Arg}]
    /\ pc' = pc + 1
    /\ UNCHANGED <<prog, outcome, expired, broken, refused, docVars, asked, runs>>

SetTag ==
    /\ At("tag")
    /\ blobs' = [blobs EXCEPT ![Who].tags = @ \cup {Arg}]
    /\ pc' = pc + 1
    /\ UNCHANGED <<prog, outcome, expired, broken, refused, docVars, asked, runs, parts>>

\* TempTag.Close, deferred by write and by download.
CloseTempTag ==
    /\ At("untemp")
    /\ blobs' = [blobs EXCEPT ![Who].temp = @ \ {Arg}]
    /\ pc' = pc + 1
    /\ UNCHANGED <<prog, outcome, expired, broken, refused, docVars, asked, runs, parts>>

\* reopen: a new store over the directory has the tag and the blob.
Reopen ==
    /\ At("reopen")
    /\ IF Arg \in blobs[Who].tags \cap blobs[Who].data
       THEN pc' = pc + 1 /\ UNCHANGED outcome
       ELSE outcome' = "failed" /\ UNCHANGED pc
    /\ UNCHANGED <<blobVars, prog, expired, broken, refused, docVars>>

\* Downloader.Download tries a provider, unless it finds the blob in the store:
\* what it does then is the library's choice.
Download ==
    /\ At("download")
    /\ asked' \in IF Arg \in blobs[Who].data THEN BOOLEAN ELSE {TRUE}
    /\ blobs' = [blobs EXCEPT ![Who].data = @ \cup {Arg}, ![Who].temp = @ \cup {Arg}]
    /\ pc' = pc + 1
    /\ UNCHANGED <<prog, outcome, expired, broken, refused, docVars, runs, parts>>

\* download counts the attempts, and fails when there was none; its deferred
\* Close drops the temp tag then.
Counted ==
    /\ At("counted")
    /\ IF asked THEN pc' = pc + 1 /\ UNCHANGED <<outcome, blobs>>
                ELSE /\ outcome' = "failed" /\ UNCHANGED pc
                     /\ blobs' = [blobs EXCEPT ![Who].temp = {}]
    /\ UNCHANGED <<prog, expired, broken, refused, docVars, asked, runs, parts>>

\* GCWithEvents deletes what no tag names, one blob after the other.
Unnamed(b) == b.data \ (b.temp \cup b.tags)

Delete ==
    /\ At("gc")
    /\ \E h \in Unnamed(blobs[Who]) : blobs' = [blobs EXCEPT ![Who].data = @ \ {h}]
    /\ UNCHANGED <<prog, pc, outcome, expired, broken, refused, docVars, asked, runs, parts>>

GCReturns ==
    /\ At("gc") /\ Unnamed(blobs[Who]) = {}
    /\ pc' = pc + 1
    /\ UNCHANGED <<blobVars, prog, outcome, expired, broken, refused, docVars>>

\* A mutant of StoreFails: write returns without closing its BlobWriter.
StoreFailsLeaky ==
    /\ \E op \in {"put", "check", "commit", "tag", "write", "reopen", "download", "gc"} : At(op)
    /\ outcome' = "failed"
    /\ broken' = TRUE
    /\ blobs' = [blobs EXCEPT ![Who].temp = {}]
    /\ UNCHANGED <<prog, pc, expired, refused, docVars, asked, runs, parts>>

\* A call on a store fails: the disk, the providers or the deadline. An entry
\* that cannot be persisted is not stored. What was deferred closes the temp
\* tags and the BlobWriter, whose file goes unless it was committed.
StoreFails ==
    /\ \E op \in {"put", "check", "commit", "tag", "write", "reopen", "download", "gc"} : At(op)
    /\ outcome' = "failed"
    /\ broken' = TRUE
    /\ blobs' = [blobs EXCEPT ![Who].temp = {}]
    /\ parts' = parts \ {runs}
    /\ UNCHANGED <<prog, pc, expired, refused, docVars, asked, runs>>

\* blobs_store is killed: its temp tags go with the process, the directory
\* stays, with the file of a blob that was not committed.
Kill ==
    /\ prog = "blobs_store" /\ outcome = "running"
    /\ outcome' = "killed"
    /\ blobs' = [r \in Replicas |-> [blobs[r] EXCEPT !.temp = {}]]
    /\ UNCHANGED <<prog, pc, expired, broken, refused, docVars, asked, runs, parts>>

\* It is run again with the same -dir.
Rerun ==
    /\ prog = "blobs_store" /\ outcome # "running" /\ runs < MaxRuns
    /\ runs' = runs + 1
    /\ pc' = 1 /\ outcome' = "running"
    /\ expired' = FALSE /\ broken' = FALSE /\ asked' = FALSE
    /\ UNCHANGED <<prog, refused, docVars, blobs, parts>>

Finish ==
    /\ outcome = "running" /\ pc > Len(Script(prog))
    /\ outcome' = "ok"
    /\ UNCHANGED <<blobVars, prog, pc, expired, broken, refused, store, file, allowed, live, neighbor, todo, sync, gossip>>

\* replica.close, deferred by run: the namespace is withdrawn before live sync stops.
Close(r) ==
    /\ outcome # "running" /\ allowed[r]
    /\ allowed' = [allowed EXCEPT ![r] = FALSE]
    /\ live' = [live EXCEPT ![r] = FALSE]
    /\ UNCHANGED <<blobVars, prog, pc, outcome, expired, broken, refused, store, file, neighbor, todo, sync, gossip>>

Expire ==
    /\ ~expired
    /\ expired' = TRUE
    /\ UNCHANGED <<blobVars, prog, pc, outcome, broken, refused, store, file, allowed, live, neighbor, todo, sync, gossip>>

-----------------------------------------------------------------------------
(* Live sync and reconciliation                                            *)

\* Gossip reports the other replica as a neighbour; the resolver knows its
\* address, and it is reconciled with before updates flow.
NeighborUp(r) ==
    /\ live[r] /\ live[Other(r)] /\ ~neighbor[r]
    /\ neighbor' = [neighbor EXCEPT ![r] = TRUE]
    /\ todo' = [todo EXCEPT ![r] = TRUE]
    /\ UNCHANGED <<blobVars, prog, pc, outcome, expired, broken, refused, store, file, allowed, live, sync, gossip>>

\* A broadcast arrives.
Receive(m) ==
    /\ m \in gossip
    /\ gossip' = gossip \ {m}
    /\ IF live[m[1]] THEN TakeIn(m[1], {m[2]}) ELSE UNCHANGED <<store, file>>
    /\ UNCHANGED <<blobVars, prog, pc, outcome, expired, broken, refused, allowed, live, neighbor, todo, sync>>

\* r asks the other replica to reconcile, offering what it holds now.
Ask(r) ==
    /\ todo[r] /\ sync[r] = Idle
    /\ todo' = [todo EXCEPT ![r] = FALSE]
    /\ sync' = [sync EXCEPT ![r] = [phase |-> "asked", sent |-> store[r]]]
    /\ UNCHANGED <<blobVars, prog, pc, outcome, expired, broken, refused, store, file, allowed, live, neighbor, gossip>>

\* The other replica's docs.Handler takes in what it lacks and sends what it
\* holds, unless its Allow refuses the namespace.
Answer(r) ==
    /\ sync[r].phase = "asked"
    /\ \/ /\ allowed[Other(r)]
          /\ TakeIn(Other(r), sync[r].sent)
          /\ sync' = [sync EXCEPT ![r] = [phase |-> "answered", sent |-> store[Other(r)]]]
          /\ UNCHANGED refused
       \/ /\ ~allowed[Other(r)]
          /\ sync' = [sync EXCEPT ![r] = Idle]
          /\ refused' = (refused \/ outcome = "running")
          /\ UNCHANGED <<store, file>>
    /\ UNCHANGED <<blobVars, prog, pc, outcome, expired, broken, allowed, live, neighbor, todo, gossip>>

\* r takes in the answer.
Apply(r) ==
    /\ sync[r].phase = "answered"
    /\ TakeIn(r, sync[r].sent)
    /\ sync' = [sync EXCEPT ![r] = Idle]
    /\ UNCHANGED <<blobVars, prog, pc, outcome, expired, broken, refused, allowed, live, neighbor, todo, gossip>>

\* The connection of a reconciliation breaks, before or after the other side took its half in.
Break(r) ==
    /\ sync[r] # Idle
    /\ sync' = [sync EXCEPT ![r] = Idle]
    /\ broken' = TRUE
    /\ UNCHANGED <<blobVars, prog, pc, outcome, expired, refused, store, file, allowed, live, neighbor, todo, gossip>>

-----------------------------------------------------------------------------
Main ==
    \/ Put \/ AllowSync \/ StartLiveSync \/ Await \/ AwaitTimesOut
    \/ SyncOnce \/ SyncOnceReturns \/ Check \/ Find \/ Finish
    \/ WriteBlob \/ NewBlob \/ Commit \/ SetTag \/ CloseTempTag \/ Reopen \/ Download \/ Counted
    \/ Delete \/ GCReturns

Next ==
    \/ Main \/ Expire \/ StartLiveSyncFails \/ StoreFails \/ Kill \/ Rerun
    \/ \E r \in Replicas : Close(r) \/ NeighborUp(r) \/ Ask(r) \/ Answer(r) \/ Apply(r) \/ Break(r)
    \/ \E m \in Replicas \X Entries : Receive(m)

(***************************************************************************)
(* main runs, gossip finds the neighbours and delivers, and the other      *)
(* replica answers. Nothing has to break and no deadline has to pass.      *)
(***************************************************************************)
Fairness ==
    /\ WF_vars(Main)
    /\ \A r \in Replicas :
         WF_vars(NeighborUp(r)) /\ WF_vars(Ask(r)) /\ WF_vars(Answer(r)) /\ WF_vars(Apply(r))
    /\ WF_vars(\E m \in gossip : Receive(m))

Spec == Init /\ [][Next]_vars /\ Fairness

-----------------------------------------------------------------------------
(* Properties                                                              *)

\* What main has written so far.
Written == {Script(prog)[i].arg : i \in {j \in 1..(pc - 1) : Script(prog)[j].op = "put"}}

\* The values of each variable; the stores hold only what was written, and at
\* most one entry per author and key.
TypeOK ==
    /\ prog \in Programs
    /\ pc \in 1..(Len(Script(prog)) + 1)
    /\ outcome \in {"running", "ok", "failed", "killed"}
    /\ expired \in BOOLEAN /\ broken \in BOOLEAN /\ refused \in BOOLEAN
    /\ \A r \in Replicas :
         /\ store[r] \subseteq Written
         /\ \A e, f \in store[r] : ~Newer(e, f)
         /\ sync[r].phase \in {"none", "asked", "answered"}
         /\ sync[r].sent \subseteq Written
    /\ file \subseteq Written
    /\ allowed \in [Replicas -> BOOLEAN] /\ live \in [Replicas -> BOOLEAN]
    /\ neighbor \in [Replicas -> BOOLEAN] /\ todo \in [Replicas -> BOOLEAN]
    /\ gossip \subseteq (Replicas \X Written)
    /\ \A r \in Replicas : DOMAIN blobs[r] = {"data", "temp", "tags"}
    /\ asked \in BOOLEAN /\ runs \in 1..MaxRuns
    /\ parts \subseteq 1..runs

\* await counts, but run means contents: once it has returned, the replica
\* holds every entry written up to then, not merely as many.
AwaitedMeansReceived ==
    \A i \in 1..(pc - 1) :
        Script(prog)[i].op = "await" =>
            \A j \in 1..i : Script(prog)[j].op = "put" =>
                Script(prog)[j].arg \in store[Script(prog)[i].who]

\* The checks of run raise no false alarm: run fails only if its deadline
\* passed or the network or the disk failed it. In particular the file loads to
\* what bob's store holds, however the entries reached it, and the tagged blob
\* is there when the directory is opened again, whatever earlier runs left in
\* it. (One alarm depends on the library: a rerun that downloads nothing new.)
NoFalseAlarm == outcome = "failed" => (expired \/ broken \/ (AtCall("counted") /\ runs > 1))

\* A replica that has joined the topic never turns its neighbour away:
\* startLiveSync publishes the namespace before anyone can learn of it.
NoNeighborRefused == ~refused

\* Whatever names a blob names one that is there: a persistent tag, over kills,
\* reruns and garbage collection, a blob of its store; an entry, wherever it has
\* got to by now, one that its author can still hand out.
NamedIsHeld ==
    /\ \A r \in Replicas : blobs[r].tags \subseteq blobs[r].data
    /\ \A r \in Replicas : \A e \in store[r] : e \in blobs[e.author].data

\* A run of blobs_store that succeeds leaves the named blobs and nothing else,
\* also of what a run that was killed or failed before it had left behind.
OnlyNamedStay ==
    prog = "blobs_store" /\ outcome = "ok" =>
        blobs["alice"] = [data |-> {Keep, Remote}, temp |-> {}, tags |-> {Keep, Remote}]

\* A run of blobs_store that returned, wherever it failed, left no temporary
\* file in the directory: garbage collection would never find it. Only a kill
\* leaves one.
NoTempFileLeft == outcome \in {"ok", "failed"} => runs \notin parts

\* run reaches its end with both replicas equal, unless the deadline passes, the
\* network or the disk fails or it is killed: what gossip could not deliver
\* before the replicas were neighbours, reconciliation does.
Converges == <>((outcome = "ok" /\ store["alice"] = store["bob"])
              \/ expired \/ broken \/ outcome = "killed")
=============================================================================
