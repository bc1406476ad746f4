--------------------------- MODULE ContentProofs ----------------------------
(***************************************************************************)
(* That what has a name is there.                                          *)
(*                                                                         *)
(* Documents, for any number of runs over one store directory: an await     *)
(* that returns has received what was written, no check of run fails        *)
(* without a cause, nobody who may reconcile is refused, tags and entries   *)
(* name content that is there, a run of blobs_store that succeeds leaves    *)
(* nothing else, and one that returns leaves no temporary file.             *)
(*                                                                         *)
(* Gateway, at the end: when the links of a collection's index lead to the  *)
(* entries they stand for.                                                  *)
(***************************************************************************)
EXTENDS Documents, FiniteSetTheorems, TLAPS

-----------------------------------------------------------------------------
(* The inductive invariant.                                                *)

Docs == {"docs_live_sync", "docs_sync"}

\* The ranges of the variables, and what a program that has no documents
\* leaves alone.
Shapes ==
  /\ prog \in Programs
  /\ pc \in 1..(Len(Script(prog)) + 1)
  /\ outcome \in {"running", "ok", "failed", "killed"}
  /\ store \in [Replicas -> SUBSET Entries] /\ file \in SUBSET Entries
  /\ allowed \in [Replicas -> BOOLEAN] /\ live \in [Replicas -> BOOLEAN]
  /\ neighbor \in [Replicas -> BOOLEAN] /\ todo \in [Replicas -> BOOLEAN]
  /\ sync \in [Replicas -> {Idle} \cup [phase : {"asked", "answered"}, sent : SUBSET Entries]]
  /\ gossip \subseteq (Replicas \X Entries)
  /\ blobs = [r \in Replicas |->
                [data |-> blobs[r].data, temp |-> blobs[r].temp, tags |-> blobs[r].tags]]
  /\ prog = "blobs_store" =>
       \A r \in Replicas : /\ store[r] = {} /\ sync[r] = Idle /\ gossip = {}
                           /\ ~live[r] /\ ~todo[r]
  /\ expired \in BOOLEAN /\ broken \in BOOLEAN /\ refused \in BOOLEAN
  /\ asked \in BOOLEAN /\ runs \in 1..MaxRuns /\ parts \subseteq 1..runs

\* Entries come from main's writes only, wherever they have got to.
OnlyWritten ==
  /\ \A r \in Replicas : store[r] \subseteq Written /\ sync[r].sent \subseteq Written
  /\ file \subseteq Written
  /\ \A m \in gossip : m[2] \in Written

\* A store keeps the newest entry of an author and a key, and no other.
OneEach == \A r \in Replicas : \A e, f \in store[r] : ~Newer(e, f)

\* The author of an entry that was put keeps it, or a newer one under its key.
WritesSurvive == \A e \in Written : \E f \in store[e.author] : f = e \/ Newer(f, e)

\* What was written to a replica's blob store stays there while documents need it.
Content ==
  prog \in Docs =>
    /\ \A j \in 1..(pc - 1) : Script(prog)[j].op = "write" =>
         Script(prog)[j].arg \in blobs[Script(prog)[j].who].data
    /\ \A r \in Replicas : blobs[r].tags = {}

\* Whoever may be asked to reconcile has admitted the namespace.
Admitted ==
  /\ outcome = "running" =>
       /\ \A j \in 1..(pc - 1) : Script(prog)[j].op = "allow" => allowed[Script(prog)[j].who]
       /\ \A r \in Replicas : /\ live[r] => allowed[r]
                              /\ todo[r] \/ sync[r] # Idle => allowed[Other(r)]
  /\ ~refused

\* docs_live_sync: an await that returned has seen what it counted, and the
\* file has what bob's store has.
Awaited ==
  prog = "docs_live_sync" =>
    /\ file = store["bob"]
    /\ pc > 7 => Before \in store["bob"]
    /\ pc > 10 => After \in store["bob"]
    /\ pc > 13 => {Before, After, Reply} \subseteq store["alice"]

HasCoffee(S) == \E e \in S : e.author = "alice" /\ e.key = "menu/coffee"

\* docs_sync: a reconciliation that did not break brings bob alice's entries.
Synced ==
  prog = "docs_sync" /\ outcome = "running" /\ ~broken =>
    /\ pc = 9 => \/ todo["bob"] \/ sync["bob"].phase = "asked"
                 \/ sync["bob"].phase = "answered" /\ HasCoffee(sync["bob"].sent)
                 \/ HasCoffee(store["bob"])
    /\ pc > 9 => HasCoffee(store["bob"])

\* blobs_store: what the store has at each point of a run, whatever it had
\* when the run began.
Stored ==
  prog = "blobs_store" =>
    LET b == blobs["alice"] IN
    /\ b.tags \subseteq {Keep, Remote} /\ b.tags \subseteq b.data
    /\ blobs["bob"].tags = {}
    /\ b.temp = IF outcome = "running" /\ pc \in 2..4 THEN {Keep}
                ELSE IF outcome = "running" /\ pc \in 7..9 THEN {Remote} ELSE {}
    /\ outcome = "running" =>
         /\ pc > 1 => Keep \in b.data
         /\ pc > 2 => Keep \in b.tags
         /\ pc > 6 => Remote \in b.data
         /\ pc > 7 => Remote \in b.tags
         /\ runs = 1 /\ pc <= 6 => Remote \notin b.data
         /\ runs = 1 /\ pc > 6 => asked
    /\ outcome = "ok" \/ (outcome = "running" /\ pc = 11) =>
         b.data = {Keep, Remote} /\ b.tags = {Keep, Remote}

\* The file of an unfinished blob is there while write is between NewBlob and
\* Commit, or because the run was killed there.
Parts == runs \in parts => outcome = "killed" \/ At("commit")

Inv ==
  /\ Shapes /\ OnlyWritten /\ OneEach /\ WritesSurvive
  /\ Content /\ Admitted /\ Awaited /\ Synced /\ Stored /\ Parts /\ NoFalseAlarm

-----------------------------------------------------------------------------
(* The scripts.                                                            *)

\* The calls of run of docs_live_sync, one by one.
LEMMA LiveSyncCalls ==
  /\ Len(LiveSyncScript) = 14
  /\ LiveSyncScript[1] = Do("write", "alice", Before)
  /\ LiveSyncScript[2] = Do("put", "alice", Before)
  /\ LiveSyncScript[3] = Do("allow", "alice", 0)
  /\ LiveSyncScript[4] = Do("start", "alice", 0)
  /\ LiveSyncScript[5] = Do("allow", "bob", 0)
  /\ LiveSyncScript[6] = Do("start", "bob", 0)
  /\ LiveSyncScript[7] = Do("await", "bob", 1)
  /\ LiveSyncScript[8] = Do("write", "alice", After)
  /\ LiveSyncScript[9] = Do("put", "alice", After)
  /\ LiveSyncScript[10] = Do("await", "bob", 2)
  /\ LiveSyncScript[11] = Do("write", "bob", Reply)
  /\ LiveSyncScript[12] = Do("put", "bob", Reply)
  /\ LiveSyncScript[13] = Do("await", "alice", 3)
  /\ LiveSyncScript[14] = Do("check", "bob", 0)
BY DEF LiveSyncScript, PutSteps

\* The calls of run of docs_sync.
LEMMA SyncCalls ==
  /\ Len(SyncScript) = 14
  /\ SyncScript[1] = Do("allow", "alice", 0)
  /\ SyncScript[2] = Do("write", "alice", AliceGreeting)
  /\ SyncScript[3] = Do("put", "alice", AliceGreeting)
  /\ SyncScript[4] = Do("write", "alice", Coffee)
  /\ SyncScript[5] = Do("put", "alice", Coffee)
  /\ SyncScript[6] = Do("write", "bob", BobGreeting)
  /\ SyncScript[7] = Do("put", "bob", BobGreeting)
  /\ SyncScript[8] = Do("sync", "bob", 0)
  /\ SyncScript[9] = Do("synced", "bob", 0)
  /\ SyncScript[10] = Do("write", "alice", ColdBrew)
  /\ SyncScript[11] = Do("put", "alice", ColdBrew)
  /\ SyncScript[12] = Do("sync", "bob", 0)
  /\ SyncScript[13] = Do("synced", "bob", 0)
  /\ SyncScript[14] = Do("find", "bob", ColdBrew)
BY DEF SyncScript, PutSteps

\* The calls of run of blobs_store.
LEMMA BlobsStoreCalls ==
  /\ Len(BlobsStoreScript) = 10
  /\ BlobsStoreScript[1] = Do("commit", "alice", Keep)
  /\ BlobsStoreScript[2] = Do("tag", "alice", Keep)
  /\ BlobsStoreScript[3] = Do("write", "alice", Scratch)
  /\ BlobsStoreScript[4] = Do("untemp", "alice", Keep)
  /\ BlobsStoreScript[5] = Do("reopen", "alice", Keep)
  /\ BlobsStoreScript[6] = Do("download", "alice", Remote)
  /\ BlobsStoreScript[7] = Do("tag", "alice", Remote)
  /\ BlobsStoreScript[8] = Do("counted", "alice", 0)
  /\ BlobsStoreScript[9] = Do("untemp", "alice", Remote)
  /\ BlobsStoreScript[10] = Do("gc", "alice", 0)
BY DEF BlobsStoreScript

\* A place in a script is one of fourteen.
LEMMA UpToFourteen ==
  \A i \in 1..14 : \/ i = 1 \/ i = 2 \/ i = 3 \/ i = 4 \/ i = 5 \/ i = 6 \/ i = 7
                   \/ i = 8 \/ i = 9 \/ i = 10 \/ i = 11 \/ i = 12 \/ i = 13 \/ i = 14
OBVIOUS

\* Where docs_live_sync makes each kind of call.
LEMMA LiveSyncOps ==
  ASSUME NEW i \in 1..14
  PROVE  LET c == LiveSyncScript[i] IN
         /\ c.op = "put" <=> i \in {2, 9, 12}
         /\ c.op = "write" <=> i \in {1, 8, 11}
         /\ c.op = "allow" <=> i \in {3, 5}
         /\ c.op = "start" <=> i \in {4, 6}
         /\ c.op = "await" <=> i \in {7, 10, 13}
         /\ c.op = "check" <=> i = 14
         /\ c.op \in {"put", "write", "allow", "start", "await", "check"}
BY LiveSyncCalls, UpToFourteen DEF Do

\* Where docs_sync makes each kind of call.
LEMMA SyncOps ==
  ASSUME NEW i \in 1..14
  PROVE  LET c == SyncScript[i] IN
         /\ c.op = "put" <=> i \in {3, 5, 7, 11}
         /\ c.op = "write" <=> i \in {2, 4, 6, 10}
         /\ c.op = "allow" <=> i = 1
         /\ c.op = "sync" <=> i \in {8, 12}
         /\ c.op = "synced" <=> i \in {9, 13}
         /\ c.op = "find" <=> i = 14
         /\ c.op \in {"put", "write", "allow", "sync", "synced", "find"}
BY SyncCalls, UpToFourteen DEF Do

\* Where blobs_store makes each kind of call.
LEMMA BlobsStoreOps ==
  ASSUME NEW i \in 1..10
  PROVE  LET c == BlobsStoreScript[i] IN
         /\ c.who = "alice"
         /\ c.op = "commit" <=> i = 1
         /\ c.op = "tag" <=> i \in {2, 7}
         /\ c.op = "write" <=> i = 3
         /\ c.op = "untemp" <=> i \in {4, 9}
         /\ c.op = "reopen" <=> i = 5
         /\ c.op = "download" <=> i = 6
         /\ c.op = "counted" <=> i = 8
         /\ c.op = "gc" <=> i = 10
         /\ c.op \in {"commit", "tag", "write", "untemp", "reopen", "download", "counted", "gc"}
<1>1. i \in 1..14
  OBVIOUS
<1> QED
  BY <1>1, BlobsStoreCalls, UpToFourteen DEF Do

-----------------------------------------------------------------------------
(* Entries and stores.                                                     *)

\* Only one entry of these programs replaces another.
LEMMA EntryFacts ==
  /\ \A e \in Entries : e.author \in Replicas
  /\ \A e, f \in Entries : Newer(e, f) <=> e = ColdBrew /\ f = Coffee
  /\ ColdBrew # Coffee /\ ColdBrew \in Entries /\ Coffee \in Entries
  /\ {Before, After, Reply} \subseteq Entries \ {Coffee, ColdBrew}
  /\ {AliceGreeting, BobGreeting} \subseteq Entries \ {Coffee, ColdBrew}
  /\ Before # After /\ Before # Reply /\ After # Reply
  /\ AliceGreeting # BobGreeting
  /\ Before.author = "alice" /\ After.author = "alice" /\ Reply.author = "bob"
  /\ AliceGreeting.author = "alice" /\ Coffee.author = "alice" /\ ColdBrew.author = "alice"
  /\ BobGreeting.author = "bob"
  /\ Coffee.key = "menu/coffee" /\ ColdBrew.key = "menu/coffee"
BY DEF Entries, Newer, Replicas, Entry, Before, After, Reply, AliceGreeting, Coffee, BobGreeting, ColdBrew

\* A merge keeps everything but Coffee once there is ColdBrew.
LEMMA MergeIs ==
  ASSUME NEW S \in SUBSET Entries, NEW T \in SUBSET Entries
  PROVE  Merge(S, T) = {e \in S \cup T : e = Coffee => ColdBrew \notin S \cup T}
BY EntryFacts DEF Merge

\* A merge loses nothing but what something newer replaces.
LEMMA MergeKeeps ==
  ASSUME NEW S \in SUBSET Entries, NEW T \in SUBSET Entries
  PROVE  /\ Merge(S, T) \in SUBSET Entries /\ Merge(S, T) \subseteq S \cup T
         /\ \A e \in S \cup T : \E f \in Merge(S, T) : f = e \/ Newer(f, e)
         /\ \A e, f \in Merge(S, T) : ~Newer(e, f)
         /\ ColdBrew \notin S \cup T => Merge(S, T) = S \cup T
<1> DEFINE M == Merge(S, T)
<1>1. M = {e \in S \cup T : e = Coffee => ColdBrew \notin S \cup T}
  BY MergeIs
<1>2. M \in SUBSET Entries /\ M \subseteq S \cup T
  BY <1>1
<1>3. ASSUME NEW e \in S \cup T PROVE \E f \in M : f = e \/ Newer(f, e)
  <2>1. CASE e = Coffee /\ ColdBrew \in S \cup T
    <3>1. ColdBrew \in M
      BY <1>1, <2>1, EntryFacts
    <3>2. Newer(ColdBrew, e)
      BY <2>1, EntryFacts
    <3> QED
      BY <3>1, <3>2
  <2>2. CASE ~(e = Coffee /\ ColdBrew \in S \cup T)
    BY <1>1, <2>2
  <2> QED
    BY <2>1, <2>2
<1>4. \A e, f \in M : ~Newer(e, f)
  BY <1>1, <1>2, EntryFacts
<1>5. ColdBrew \notin S \cup T => M = S \cup T
  BY <1>1
<1> QED
  BY <1>2, <1>3, <1>4, <1>5

\* A merge has an entry for alice's coffee if either side has one.
LEMMA MergeKeepsCoffee ==
  ASSUME NEW S \in SUBSET Entries, NEW T \in SUBSET Entries, HasCoffee(S) \/ HasCoffee(T)
  PROVE  HasCoffee(Merge(S, T))
<1>1. PICK e \in S \cup T : e.author = "alice" /\ e.key = "menu/coffee"
  BY DEF HasCoffee
<1>2. PICK f \in Merge(S, T) : f = e \/ Newer(f, e)
  BY MergeKeeps
<1> QED
  BY <1>1, <1>2 DEF HasCoffee, Newer

-----------------------------------------------------------------------------
(* What main has written.                                                  *)

\* What program pr has written before step n of its script.
WrittenBy(pr, n) == {Script(pr)[i].arg : i \in {j \in 1..(n - 1) : Script(pr)[j].op = "put"}}

\* The script of each program.
LEMMA Scripts ==
  /\ Script("docs_live_sync") = LiveSyncScript
  /\ Script("docs_sync") = SyncScript
  /\ Script("blobs_store") = BlobsStoreScript
  /\ \A pr \in Programs : Len(Script(pr)) \in 10..14
BY LiveSyncCalls, SyncCalls, BlobsStoreCalls DEF Script, Programs

\* What docs_live_sync has written before its n-th call.
LEMMA LiveSyncWrites ==
  ASSUME NEW n \in 1..15
  PROVE  \A e : e \in WrittenBy("docs_live_sync", n) <=>
                \/ n > 2 /\ e = Before
                \/ n > 9 /\ e = After
                \/ n > 12 /\ e = Reply
<1>1. \A e : e \in WrittenBy("docs_live_sync", n) <=>
             \E i \in {2, 9, 12} : i < n /\ e = LiveSyncScript[i].arg
  <2>1. \A i \in 1..(n - 1) : i \in 1..14 /\ (LiveSyncScript[i].op = "put" <=> i \in {2, 9, 12})
    BY LiveSyncOps
  <2> QED
    BY <2>1, Scripts DEF WrittenBy
<1> QED
  BY <1>1, LiveSyncCalls DEF Do

\* What docs_sync has written before its n-th call.
LEMMA SyncWrites ==
  ASSUME NEW n \in 1..15
  PROVE  \A e : e \in WrittenBy("docs_sync", n) <=>
                \/ n > 3 /\ e = AliceGreeting
                \/ n > 5 /\ e = Coffee
                \/ n > 7 /\ e = BobGreeting
                \/ n > 11 /\ e = ColdBrew
<1>1. \A e : e \in WrittenBy("docs_sync", n) <=>
             \E i \in {3, 5, 7, 11} : i < n /\ e = SyncScript[i].arg
  <2>1. \A i \in 1..(n - 1) : i \in 1..14 /\ (SyncScript[i].op = "put" <=> i \in {3, 5, 7, 11})
    BY SyncOps
  <2> QED
    BY <2>1, Scripts DEF WrittenBy
<1> QED
  BY <1>1, SyncCalls DEF Do

\* blobs_store writes no entry.
LEMMA BlobsStoreWrites ==
  ASSUME NEW n \in 1..11
  PROVE  WrittenBy("blobs_store", n) = {}
<1>1. \A i \in 1..(n - 1) : i \in 1..10 /\ BlobsStoreScript[i].op # "put"
  BY BlobsStoreOps
<1> QED
  BY <1>1, Scripts DEF WrittenBy

\* A step of the script writes what it puts.
LEMMA WritesGrow ==
  ASSUME NEW pr \in Programs, NEW n \in 1..Len(Script(pr))
  PROVE  WrittenBy(pr, n + 1) = IF Script(pr)[n].op = "put"
                                THEN WrittenBy(pr, n) \cup {Script(pr)[n].arg}
                                ELSE WrittenBy(pr, n)
<1>1. Len(Script(pr)) \in 10..14
  BY Scripts
<1>2. \A j : j \in 1..((n + 1) - 1) <=> j \in 1..(n - 1) \/ j = n
  BY <1>1
<1> QED
  BY <1>2 DEF WrittenBy

\* All that is written are entries.
LEMMA WrittenEntries ==
  ASSUME NEW pr \in Programs, NEW n \in 1..(Len(Script(pr)) + 1)
  PROVE  WrittenBy(pr, n) \subseteq Entries
<1>1. CASE pr = "docs_live_sync"
  <2>0. Len(Script(pr)) = 14
    BY <1>1, Scripts, LiveSyncCalls
  <2>1. n \in 1..15
    BY <2>0
  <2>2. \A e \in WrittenBy("docs_live_sync", n) : e \in {Before, After, Reply}
    BY <2>1, LiveSyncWrites
  <2> QED
    BY <1>1, <2>2, EntryFacts
<1>2. CASE pr = "docs_sync"
  <2>0. Len(Script(pr)) = 14
    BY <1>2, Scripts, SyncCalls
  <2>1. n \in 1..15
    BY <2>0
  <2>2. \A e \in WrittenBy("docs_sync", n) : e \in {AliceGreeting, Coffee, BobGreeting, ColdBrew}
    BY <2>1, SyncWrites
  <2> QED
    BY <1>2, <2>2, EntryFacts
<1>3. CASE pr = "blobs_store"
  <2>0. Len(Script(pr)) = 10
    BY <1>3, Scripts, BlobsStoreCalls
  <2>1. n \in 1..11
    BY <2>0
  <2> QED
    BY <1>3, <2>1, BlobsStoreWrites
<1> QED
  BY <1>1, <1>2, <1>3 DEF Programs

\* Every put is of an entry of the one who puts it, which is new, whose key has
\* no newer one, and whose content was written just before.
LEMMA PutsAreNew ==
  ASSUME NEW pr \in Programs, NEW n \in 1..Len(Script(pr)), Script(pr)[n].op = "put"
  PROVE  LET c == Script(pr)[n]
             w == Script(pr)[n - 1] IN
         /\ pr \in Docs
         /\ c.arg \in Entries /\ c.who \in Replicas /\ c.arg.author = c.who
         /\ \A f \in WrittenBy(pr, n) : f # c.arg /\ ~Newer(f, c.arg)
         /\ n > 1 /\ w.op = "write" /\ w.who = c.who /\ w.arg = c.arg
<1>1. CASE pr = "docs_live_sync"
  <2>1. n \in {2, 9, 12}
    BY <1>1, Scripts, LiveSyncCalls, LiveSyncOps
  <2>2. WrittenBy(pr, n) \subseteq Entries
    BY WrittenEntries, Scripts
  <2> QED
    BY <1>1, <2>1, <2>2, Scripts, LiveSyncCalls, LiveSyncWrites, EntryFacts DEF Do, Docs, Replicas
<1>2. CASE pr = "docs_sync"
  <2>1. n \in {3, 5, 7, 11}
    BY <1>2, Scripts, SyncCalls, SyncOps
  <2>2. WrittenBy(pr, n) \subseteq Entries
    BY WrittenEntries, Scripts
  <2> QED
    BY <1>2, <2>1, <2>2, Scripts, SyncCalls, SyncWrites, EntryFacts DEF Do, Docs, Replicas
<1>3. CASE pr = "blobs_store"
  BY <1>3, Scripts, BlobsStoreCalls, BlobsStoreOps
<1> QED
  BY <1>1, <1>2, <1>3 DEF Programs

\* What the other calls of the two document programs are about.
LEMMA DocCalls ==
  ASSUME NEW pr \in Docs, NEW n \in 1..Len(Script(pr))
  PROVE  LET c == Script(pr)[n] IN
         /\ Len(Script(pr)) = 14
         /\ c.who \in Replicas
         /\ c.op = "start" =>
              /\ \E j \in 1..(n - 1) : Script(pr)[j].op = "allow" /\ Script(pr)[j].who = c.who
              /\ \E j \in 1..(n - 1) : Script(pr)[j].op = "allow" /\ Script(pr)[j].who = "alice"
         /\ c.op = "sync" =>
              /\ c.who = "bob"
              /\ \E j \in 1..(n - 1) : Script(pr)[j].op = "allow" /\ Script(pr)[j].who = "alice"
         /\ c.op \notin {"commit", "tag", "untemp", "reopen", "download", "counted", "gc"}
<1>1. CASE pr = "docs_live_sync"
  <2>1. n \in 1..14 /\ Len(Script(pr)) = 14
    BY <1>1, Scripts, LiveSyncCalls
  <2>2. LiveSyncScript[n].who \in Replicas
    BY <2>1, LiveSyncCalls, UpToFourteen DEF Do, Replicas
  <2>3. ASSUME LiveSyncScript[n].op = "start"
        PROVE  /\ n > 3 /\ LiveSyncScript[3].op = "allow" /\ LiveSyncScript[3].who = "alice"
               /\ \/ LiveSyncScript[n].who = "alice"
                  \/ /\ n > 5 /\ LiveSyncScript[5].op = "allow"
                     /\ LiveSyncScript[5].who = LiveSyncScript[n].who
    BY <2>1, <2>3, LiveSyncCalls, LiveSyncOps DEF Do
  <2>4. LiveSyncScript[n].op \in {"put", "write", "allow", "start", "await", "check"}
    BY <2>1, LiveSyncOps
  <2>5. LiveSyncScript[n].op = "start" =>
          /\ \E j \in 1..(n - 1) : /\ LiveSyncScript[j].op = "allow"
                                   /\ LiveSyncScript[j].who = LiveSyncScript[n].who
          /\ \E j \in 1..(n - 1) : LiveSyncScript[j].op = "allow" /\ LiveSyncScript[j].who = "alice"
    <3> SUFFICES ASSUME LiveSyncScript[n].op = "start"
                 PROVE  /\ \E j \in 1..(n - 1) : /\ LiveSyncScript[j].op = "allow"
                                                 /\ LiveSyncScript[j].who = LiveSyncScript[n].who
                        /\ \E j \in 1..(n - 1) : /\ LiveSyncScript[j].op = "allow"
                                                 /\ LiveSyncScript[j].who = "alice"
      OBVIOUS
    <3>1. 3 \in 1..(n - 1) /\ (n > 5 => 5 \in 1..(n - 1))
      BY <2>1, <2>3
    <3> QED
      BY <2>3, <3>1
  <2> QED
    BY <1>1, <2>1, <2>2, <2>4, <2>5, Scripts
<1>2. CASE pr = "docs_sync"
  <2>1. n \in 1..14 /\ Len(Script(pr)) = 14
    BY <1>2, Scripts, SyncCalls
  <2>2. SyncScript[n].who \in Replicas
    BY <2>1, SyncCalls, UpToFourteen DEF Do, Replicas
  <2>3. ASSUME SyncScript[n].op = "sync"
        PROVE  /\ 1 \in 1..(n - 1) /\ SyncScript[1].op = "allow" /\ SyncScript[1].who = "alice"
               /\ SyncScript[n].who = "bob"
    BY <2>1, <2>3, SyncCalls, SyncOps DEF Do
  <2>4. SyncScript[n].op \in {"put", "write", "allow", "sync", "synced", "find"}
    BY <2>1, SyncOps
  <2> QED
    BY <1>2, <2>1, <2>2, <2>3, <2>4, Scripts
<1> QED
  BY <1>1, <1>2 DEF Docs

-----------------------------------------------------------------------------
(* What a step may do to main's place, to the stores and to what is on its  *)
(* way between them.                                                       *)

\* There are two replicas.
LEMMA OtherReplica ==
  /\ Replicas = {"alice", "bob"} /\ Other("alice") = "bob" /\ Other("bob") = "alice"
  /\ \A r \in Replicas : Other(r) \in Replicas /\ Other(r) # r /\ Other(Other(r)) = r
BY DEF Replicas, Other

\* Where main is when it is about to make a call.
LEMMA AtIs ==
  ASSUME Shapes, NEW op, At(op)
  PROVE  /\ pc \in 1..Len(Script(prog)) /\ prog \in Programs /\ Script(prog)[pc].op = op
         /\ outcome = "running" /\ pc + 1 \in 1..(Len(Script(prog)) + 1)
<1>1. Len(Script(prog)) \in 10..14
  BY Scripts DEF Shapes
<1> QED
  BY <1>1 DEF At, AtCall, Shapes

\* Kinds of steps.
MainDocs == \/ AllowSync \/ StartLiveSync \/ Await \/ AwaitTimesOut
            \/ SyncOnce \/ SyncOnceReturns \/ Check \/ Find
StoreCalls == \/ WriteBlob \/ NewBlob \/ Commit \/ SetTag \/ CloseTempTag \/ Reopen \/ Download
              \/ Counted \/ Delete \/ GCReturns
Live == \/ \E r \in Replicas : NeighborUp(r) \/ Ask(r) \/ Answer(r) \/ Apply(r) \/ Break(r)
        \/ \E m \in Replicas \X Entries : Receive(m)
Rest == Expire \/ StartLiveSyncFails \/ StoreFails \/ Kill \/ Finish \/ \E r \in Replicas : Close(r)

\* Every step is of one of these kinds.
LEMMA Kinds ==
  ASSUME [Next]_vars
  PROVE  Put \/ MainDocs \/ StoreCalls \/ Live \/ Rest \/ Rerun \/ UNCHANGED vars
BY DEF Next, Main, MainDocs, StoreCalls, Live, Rest

\* main stays where it is, takes the step it is at, or starts again.
Advance == /\ outcome = "running" /\ outcome' = "running"
           /\ pc \in 1..Len(Script(prog)) /\ pc' = pc + 1

\* What a step does to the place of main.
LEMMA MainMoves ==
  ASSUME Shapes, [Next]_vars
  PROVE  /\ prog' = prog
         /\ outcome' \in {"running", "ok", "failed", "killed"}
         /\ \/ pc' = pc /\ (outcome' = "running" => outcome = "running")
            \/ Advance
            \/ Rerun /\ pc' = 1
         /\ pc' \in 1..(Len(Script(prog)) + 1)
         /\ Advance /\ Script(prog)[pc].op = "put" => Put /\ TakeIn(Who, {Arg})
         /\ ~Advance => Written' = Written
<1>0. Len(Script(prog)) \in 10..14
  BY Scripts DEF Shapes
<1>1. CASE Put
  BY <1>0, <1>1, AtIs DEF Put, Advance, Written, Shapes
<1>2. CASE MainDocs
  <2>1. /\ prog' = prog /\ (outcome' = outcome \/ outcome' = "failed")
        /\ \/ pc' = pc
           \/ pc' = pc + 1 /\ outcome' = outcome
    BY <1>2 DEF MainDocs, AllowSync, StartLiveSync, Await, AwaitTimesOut, SyncOnce, SyncOnceReturns, Check, Find
  <2>2. PICK op \in {"allow", "start", "await", "sync", "synced", "check", "find"} : At(op)
    BY <1>2 DEF MainDocs, AllowSync, StartLiveSync, Await, AwaitTimesOut, SyncOnce, SyncOnceReturns, Check, Find
  <2> QED
    BY <1>0, <2>1, <2>2, AtIs DEF Advance, Written, Shapes
<1>3. CASE StoreCalls
  <2>1. /\ prog' = prog /\ (outcome' = outcome \/ outcome' = "failed")
        /\ \/ pc' = pc
           \/ pc' = pc + 1 /\ outcome' = outcome
    BY <1>3 DEF StoreCalls, WriteBlob, NewBlob, Commit, SetTag, CloseTempTag, Reopen, Download, Counted,
       Delete, GCReturns
  <2>2. PICK op \in {"write", "commit", "tag", "untemp", "reopen", "download", "counted", "gc"} : At(op)
    BY <1>3 DEF StoreCalls, WriteBlob, NewBlob, Commit, SetTag, CloseTempTag, Reopen, Download, Counted,
       Delete, GCReturns
  <2> QED
    BY <1>0, <2>1, <2>2, AtIs DEF Advance, Written, Shapes
<1>4. CASE Live
  <2>1. prog' = prog /\ pc' = pc /\ outcome' = outcome
    BY <1>4 DEF Live, NeighborUp, Ask, Answer, Apply, Break, Receive
  <2> QED
    BY <1>0, <2>1 DEF Advance, Written, Shapes
<1>5. CASE Rest
  BY <1>0, <1>5 DEF Rest, Expire, StartLiveSyncFails, StoreFails, Kill, Finish, Close, Advance, Written, Shapes
<1>6. CASE Rerun
  <2>1. prog' = prog /\ prog = "blobs_store" /\ pc' = 1 /\ outcome' = "running" /\ outcome # "running"
    BY <1>6 DEF Rerun
  <2>2. Written = WrittenBy("blobs_store", pc) /\ Written' = WrittenBy("blobs_store", 1)
    BY <2>1 DEF Written, WrittenBy
  <2>3. Len(Script(prog)) = 10
    BY <2>1, BlobsStoreCalls, Scripts
  <2>4. pc \in 1..11
    BY <2>3 DEF Shapes
  <2>5. Written' = Written
    BY <2>2, <2>4, BlobsStoreWrites
  <2> QED
    BY <1>0, <1>6, <2>1, <2>5 DEF Advance
<1>7. CASE UNCHANGED vars
  BY <1>0, <1>7 DEF vars, Advance, Written, Shapes
<1> QED
  BY <1>1, <1>2, <1>3, <1>4, <1>5, <1>6, <1>7, Kinds

\* The entries a step may find written.
LEMMA WrittenMoves ==
  ASSUME Shapes, [Next]_vars
  PROVE  /\ Written \subseteq Entries /\ Written' \subseteq Entries
         /\ Written' = IF Advance /\ Script(prog)[pc].op = "put" THEN Written \cup {Arg} ELSE Written
<1>1. Written = WrittenBy(prog, pc) /\ Written' = WrittenBy(prog', pc')
  BY DEF Written, WrittenBy
<1>2. Written \subseteq Entries /\ Written' \subseteq Entries
  BY <1>1, MainMoves, WrittenEntries DEF Shapes
<1>3. CASE Advance
  BY <1>1, <1>2, <1>3, MainMoves, WritesGrow DEF Advance, Arg, Shapes
<1>4. CASE ~Advance
  BY <1>2, <1>4, MainMoves
<1> QED
  BY <1>2, <1>3, <1>4

\* The stores take in what main puts, or what was on its way.
LEMMA StoresMove ==
  ASSUME Shapes, OnlyWritten, [Next]_vars
  PROVE  \/ UNCHANGED <<store, file>>
         \/ Advance /\ Script(prog)[pc].op = "put" /\ TakeIn(Who, {Arg})
         \/ Live /\ pc' = pc /\ prog' = prog
            /\ \E r \in Replicas : \E T \in SUBSET Written : TakeIn(r, T)
<1>1. CASE Put
  BY <1>1, AtIs DEF Put, Advance
<1>2. CASE MainDocs
  BY <1>2 DEF MainDocs, AllowSync, StartLiveSync, Await, AwaitTimesOut, SyncOnce, SyncOnceReturns,
     Check, Find
<1>3. CASE StoreCalls
  BY <1>3 DEF StoreCalls, WriteBlob, NewBlob, Commit, SetTag, CloseTempTag, Reopen, Download, Counted,
     Delete, GCReturns, docVars
<1>4. CASE Live
  <2>1. ASSUME NEW r \in Replicas, NeighborUp(r) \/ Ask(r) \/ Break(r) PROVE UNCHANGED <<store, file>>
    BY <2>1 DEF NeighborUp, Ask, Break
  <2>2. ASSUME NEW r \in Replicas, Answer(r)
        PROVE  UNCHANGED <<store, file>> \/ TakeIn(Other(r), sync[r].sent)
    BY <2>2 DEF Answer
  <2>3. ASSUME NEW r \in Replicas, Apply(r) PROVE TakeIn(r, sync[r].sent)
    BY <2>3 DEF Apply
  <2>4. ASSUME NEW m \in Replicas \X Entries, Receive(m)
        PROVE  UNCHANGED <<store, file>> \/ (m \in gossip /\ TakeIn(m[1], {m[2]}))
    BY <2>4 DEF Receive
  <2>5. pc' = pc /\ prog' = prog
    BY <1>4 DEF Live, NeighborUp, Ask, Answer, Apply, Break, Receive
  <2>6. \A r \in Replicas : sync[r].sent \in SUBSET Written
    BY DEF OnlyWritten
  <2>7. \A m \in gossip : {m[2]} \in SUBSET Written /\ m[1] \in Replicas
    BY DEF OnlyWritten, Shapes
  <2>8. \/ UNCHANGED <<store, file>>
        \/ \E r \in Replicas : \E T \in SUBSET Written : TakeIn(r, T)
    <3>1. CASE \E r \in Replicas : NeighborUp(r) \/ Ask(r) \/ Answer(r) \/ Apply(r) \/ Break(r)
      <4>1. PICK r \in Replicas : NeighborUp(r) \/ Ask(r) \/ Answer(r) \/ Apply(r) \/ Break(r)
        BY <3>1
      <4>2. Other(r) \in Replicas /\ sync[r].sent \in SUBSET Written
        BY <2>6, OtherReplica
      <4>3. UNCHANGED <<store, file>> \/ TakeIn(r, sync[r].sent) \/ TakeIn(Other(r), sync[r].sent)
        BY <4>1, <2>1, <2>2, <2>3
      <4> QED
        BY <4>2, <4>3
    <3>2. CASE \E m \in Replicas \X Entries : Receive(m)
      BY <3>2, <2>4, <2>7
    <3> QED
      BY <1>4, <3>1, <3>2 DEF Live
  <2> QED
    BY <1>4, <2>5, <2>8
<1>5. CASE Rest
  BY <1>5 DEF Rest, Expire, StartLiveSyncFails, StoreFails, Kill, Finish, Close, docVars
<1>6. CASE Rerun
  BY <1>6 DEF Rerun, docVars
<1>7. CASE UNCHANGED vars
  BY <1>7 DEF vars
<1> QED
  BY <1>1, <1>2, <1>3, <1>4, <1>5, <1>6, <1>7, Kinds

-----------------------------------------------------------------------------
(* Each part of the invariant is kept.                                     *)

\* What a call on a store does to the blobs, field by field.
LEMMA CallsOnStores ==
  ASSUME Shapes, StoreCalls \/ StoreFails
  PROVE  /\ Who \in Replicas
         /\ blobs' = [r \in Replicas |->
                [data |-> blobs'[r].data, temp |-> blobs'[r].temp, tags |-> blobs'[r].tags]]
         /\ \A r \in Replicas : r # Who => blobs'[r] = blobs[r]
         /\ WriteBlob => /\ blobs'[Who].data = blobs[Who].data \cup {Arg}
                         /\ blobs'[Who].temp = blobs[Who].temp /\ blobs'[Who].tags = blobs[Who].tags
         /\ Commit \/ Download => /\ blobs'[Who].data = blobs[Who].data \cup {Arg}
                                  /\ blobs'[Who].temp = blobs[Who].temp \cup {Arg}
                                  /\ blobs'[Who].tags = blobs[Who].tags
         /\ SetTag => /\ blobs'[Who].tags = blobs[Who].tags \cup {Arg}
                      /\ blobs'[Who].temp = blobs[Who].temp /\ blobs'[Who].data = blobs[Who].data
         /\ CloseTempTag => /\ blobs'[Who].temp = blobs[Who].temp \ {Arg}
                            /\ blobs'[Who].data = blobs[Who].data /\ blobs'[Who].tags = blobs[Who].tags
         /\ NewBlob \/ Reopen \/ GCReturns => blobs' = blobs
         /\ Counted => /\ blobs'[Who].temp = IF asked THEN blobs[Who].temp ELSE {}
                       /\ blobs'[Who].data = blobs[Who].data /\ blobs'[Who].tags = blobs[Who].tags
         /\ Delete => /\ \E h \in Unnamed(blobs[Who]) : blobs'[Who].data = blobs[Who].data \ {h}
                      /\ blobs'[Who].temp = blobs[Who].temp /\ blobs'[Who].tags = blobs[Who].tags
         /\ StoreFails => /\ blobs'[Who].temp = {}
                          /\ blobs'[Who].data = blobs[Who].data /\ blobs'[Who].tags = blobs[Who].tags
<1>1. PICK op \in {"put", "check", "write", "commit", "tag", "untemp", "reopen", "download", "counted", "gc"} :
        At(op)
  BY DEF StoreCalls, WriteBlob, NewBlob, Commit, SetTag, CloseTempTag, Reopen, Download, Counted,
     Delete, GCReturns, StoreFails
<1>2. pc \in 1..Len(Script(prog)) /\ prog \in Programs
  BY <1>1, AtIs
<1>3. Who \in Replicas
  <2>1. CASE prog \in Docs
    BY <1>2, <2>1, DocCalls DEF Who
  <2>2. CASE prog = "blobs_store"
    <3>1. pc \in 1..10
      BY <1>2, <2>2, Scripts, BlobsStoreCalls
    <3> QED
      BY <2>2, <3>1, Scripts, BlobsStoreOps DEF Who, Replicas
  <2> QED
    BY <1>2, <2>1, <2>2 DEF Programs, Docs
<1> DEFINE W == Who
           A == Arg
           b == blobs[W]
           Put1(x) == [blobs EXCEPT ![W] = x]
           Blob(d, m, t) == [data |-> d, temp |-> m, tags |-> t]
<1>4. blobs = [r \in Replicas |-> Blob(blobs[r].data, blobs[r].temp, blobs[r].tags)]
  BY DEF Shapes
<1>5. b = Blob(b.data, b.temp, b.tags)
  BY <1>3, <1>4
<1>6. WriteBlob => blobs' = Put1(Blob(b.data \cup {A}, b.temp, b.tags))
  <2>1. WriteBlob => blobs' = Put1([b EXCEPT !.data = b.data \cup {A}])
    BY <1>3, <1>4 DEF WriteBlob
  <2>2. [b EXCEPT !.data = b.data \cup {A}] = Blob(b.data \cup {A}, b.temp, b.tags)
    BY <1>5
  <2> QED
    BY <2>1, <2>2
<1>7. Commit \/ Download => blobs' = Put1(Blob(b.data \cup {A}, b.temp \cup {A}, b.tags))
  BY <1>3, <1>4, <1>5 DEF Commit, Download
<1>8. SetTag => blobs' = Put1(Blob(b.data, b.temp, b.tags \cup {A}))
  BY <1>3, <1>4, <1>5 DEF SetTag
<1>9. CloseTempTag => blobs' = Put1(Blob(b.data, b.temp \ {A}, b.tags))
  BY <1>3, <1>4, <1>5 DEF CloseTempTag
<1>10. NewBlob \/ Reopen \/ GCReturns => blobs' = blobs
  BY DEF NewBlob, Reopen, GCReturns, blobVars
<1>11. Counted => blobs' = Put1(Blob(b.data, IF asked THEN b.temp ELSE {}, b.tags))
  BY <1>3, <1>4, <1>5 DEF Counted
<1>12. ASSUME Delete PROVE \E h \in Unnamed(b) : blobs' = Put1(Blob(b.data \ {h}, b.temp, b.tags))
  <2>1. PICK h \in Unnamed(b) : blobs' = [blobs EXCEPT ![W].data = @ \ {h}]
    BY <1>12 DEF Delete
  <2>2. blobs' = Put1([b EXCEPT !.data = b.data \ {h}])
    BY <1>3, <1>4, <2>1
  <2>3. [b EXCEPT !.data = b.data \ {h}] = Blob(b.data \ {h}, b.temp, b.tags)
    BY <1>5
  <2> QED
    BY <2>2, <2>3
<1>13. StoreFails => blobs' = Put1(Blob(b.data, {}, b.tags))
  BY <1>3, <1>4, <1>5 DEF StoreFails
<1> DEFINE Sets(d, m, t) ==
             /\ blobs'[W].data = d /\ blobs'[W].temp = m /\ blobs'[W].tags = t
             /\ \A r \in Replicas : r # W => blobs'[r] = blobs[r]
             /\ blobs' = [r \in Replicas |-> Blob(blobs'[r].data, blobs'[r].temp, blobs'[r].tags)]
<1>14. \A d, m, t : blobs' = Put1(Blob(d, m, t)) => Sets(d, m, t)
  BY <1>3, <1>4
<1> HIDE DEF Put1, Blob, Sets
<1>15. WriteBlob => Sets(b.data \cup {A}, b.temp, b.tags)
  BY <1>6, <1>14
<1>16. Commit \/ Download => Sets(b.data \cup {A}, b.temp \cup {A}, b.tags)
  BY <1>7, <1>14
<1>17. SetTag => Sets(b.data, b.temp, b.tags \cup {A})
  BY <1>8, <1>14
<1>18. CloseTempTag => Sets(b.data, b.temp \ {A}, b.tags)
  BY <1>9, <1>14
<1>19. Counted => Sets(b.data, IF asked THEN b.temp ELSE {}, b.tags)
  BY <1>11, <1>14
<1>20. Delete => \E h \in Unnamed(b) : Sets(b.data \ {h}, b.temp, b.tags)
  BY <1>12, <1>14
<1>21. StoreFails => Sets(b.data, {}, b.tags)
  BY <1>13, <1>14
<1>22. blobs' = blobs \/ \E d, m, t : Sets(d, m, t)
  <2>1. CASE WriteBlob \/ Commit \/ Download \/ SetTag
    BY <2>1, <1>15, <1>16, <1>17
  <2>2. CASE CloseTempTag \/ Counted \/ StoreFails
    BY <2>2, <1>18, <1>19, <1>21
  <2>3. CASE Delete
    BY <2>3, <1>20
  <2>4. CASE NewBlob \/ Reopen \/ GCReturns
    BY <2>4, <1>10
  <2> QED
    BY <2>1, <2>2, <2>3, <2>4 DEF StoreCalls
<1>23. /\ blobs' = [r \in Replicas |-> Blob(blobs'[r].data, blobs'[r].temp, blobs'[r].tags)]
       /\ \A r \in Replicas : r # W => blobs'[r] = blobs[r]
  <2>1. CASE blobs' = blobs
    BY <1>4, <2>1
  <2>2. CASE \E d, m, t : Sets(d, m, t)
    BY <2>2 DEF Sets
  <2> QED
    BY <1>22, <2>1, <2>2
<1>24. Delete => /\ \E h \in Unnamed(b) : blobs'[W].data = b.data \ {h}
                 /\ blobs'[W].temp = b.temp /\ blobs'[W].tags = b.tags
  BY <1>20 DEF Sets
<1> QED
  BY <1>3, <1>10, <1>15, <1>16, <1>17, <1>18, <1>19, <1>21, <1>23, <1>24 DEF Sets, Blob

\* A kill takes the temp tags and nothing else.
LEMMA TempTagsDie ==
  ASSUME Shapes, Kill
  PROVE  blobs' = [r \in Replicas |-> [data |-> blobs[r].data, temp |-> {}, tags |-> blobs[r].tags]]
<1>1. blobs' = [r \in Replicas |-> [blobs[r] EXCEPT !.temp = {}]]
  BY DEF Kill
<1>2. \A d, m, t : [[data |-> d, temp |-> m, tags |-> t] EXCEPT !.temp = {}] = [data |-> d, temp |-> {}, tags |-> t]
  OBVIOUS
<1>3. ASSUME NEW r \in Replicas
      PROVE  [blobs[r] EXCEPT !.temp = {}] = [data |-> blobs[r].data, temp |-> {}, tags |-> blobs[r].tags]
  <2>1. blobs[r] = [data |-> blobs[r].data, temp |-> blobs[r].temp, tags |-> blobs[r].tags]
    BY DEF Shapes
  <2>2. PICK d, m, t : blobs[r] = [data |-> d, temp |-> m, tags |-> t]
    BY <2>1
  <2> QED
    BY <1>2, <2>2
<1> QED
  BY <1>1, <1>3

\* Taking entries in.
LEMMA TakenIn ==
  ASSUME Shapes, NEW r \in Replicas, NEW T \in SUBSET Entries, TakeIn(r, T)
  PROVE  /\ store' \in [Replicas -> SUBSET Entries]
         /\ store'[r] = Merge(store[r], T)
         /\ \A q \in Replicas : q # r => store'[q] = store[q]
         /\ file' = IF r = "bob" /\ prog = "docs_live_sync"
                    THEN file \cup (store'[r] \ store[r]) ELSE file
         /\ file' \in SUBSET Entries
<1>1. store \in [Replicas -> SUBSET Entries] /\ file \in SUBSET Entries
  BY DEF Shapes
<1>2. store' = [store EXCEPT ![r] = Merge(store[r], T)]
  BY DEF TakeIn
<1>3. Merge(store[r], T) \in SUBSET Entries
  BY <1>1, MergeKeeps
<1> QED
  BY <1>1, <1>2, <1>3 DEF TakeIn

\* What the calls of blobs_store leave alone.
LEMMA NoDocuments ==
  ASSUME Shapes, prog = "blobs_store", [Next]_vars
  PROVE  ~Put /\ ~MainDocs /\ ~Live
<1>1. \A op : At(op) => op \in {"commit", "tag", "write", "untemp", "reopen", "download", "counted", "gc"}
  BY AtIs, Scripts, BlobsStoreCalls, BlobsStoreOps
<1>2. ~Put /\ ~MainDocs
  BY <1>1 DEF Put, MainDocs, AllowSync, StartLiveSync, Await, AwaitTimesOut, SyncOnce, SyncOnceReturns,
     Check, Find
<1>3. \A r \in Replicas : sync[r] = Idle /\ gossip = {} /\ ~live[r] /\ ~todo[r]
  BY DEF Shapes
<1>4. \A r \in Replicas : ~NeighborUp(r) /\ ~Ask(r) /\ ~Break(r)
  BY <1>3 DEF NeighborUp, Ask, Break
<1>5. \A r \in Replicas : ~Answer(r) /\ ~Apply(r)
  BY <1>3 DEF Answer, Apply, Idle
<1>6. \A m : ~Receive(m)
  BY <1>3, OtherReplica DEF Receive
<1>7. ~Live
  BY <1>4, <1>5, <1>6 DEF Live
<1> QED
  BY <1>2, <1>7

\* Every step keeps the variables in their ranges.
LEMMA ShapesKept ==
  ASSUME Shapes, OnlyWritten, [Next]_vars
  PROVE  Shapes'
<1>1. /\ prog' \in Programs /\ pc' \in 1..(Len(Script(prog')) + 1)
      /\ outcome' \in {"running", "ok", "failed", "killed"}
  BY MainMoves DEF Shapes
<1>2. Written \subseteq Entries
  BY WrittenMoves
<1>3. store' \in [Replicas -> SUBSET Entries] /\ file' \in SUBSET Entries
  <2>1. CASE UNCHANGED <<store, file>>
    BY <2>1 DEF Shapes
  <2>2. CASE Advance /\ Script(prog)[pc].op = "put" /\ TakeIn(Who, {Arg})
    <3>1. Who \in Replicas /\ {Arg} \in SUBSET Entries
      BY <2>2, PutsAreNew DEF Advance, Shapes, Who, Arg
    <3> QED
      BY <2>2, <3>1, TakenIn
  <2>3. CASE \E r \in Replicas : \E T \in SUBSET Written : TakeIn(r, T)
    BY <1>2, <2>3, TakenIn
  <2> QED
    BY <2>1, <2>2, <2>3, StoresMove
<1>4. /\ allowed' \in [Replicas -> BOOLEAN] /\ live' \in [Replicas -> BOOLEAN]
      /\ neighbor' \in [Replicas -> BOOLEAN] /\ todo' \in [Replicas -> BOOLEAN]
      /\ expired' \in BOOLEAN /\ broken' \in BOOLEAN /\ refused' \in BOOLEAN
      /\ asked' \in BOOLEAN /\ runs' \in 1..MaxRuns
  <2>0. /\ allowed \in [Replicas -> BOOLEAN] /\ live \in [Replicas -> BOOLEAN]
        /\ neighbor \in [Replicas -> BOOLEAN] /\ todo \in [Replicas -> BOOLEAN]
        /\ expired \in BOOLEAN /\ broken \in BOOLEAN /\ refused \in BOOLEAN
        /\ asked \in BOOLEAN /\ runs \in 1..MaxRuns
    BY DEF Shapes
  <2>1. CASE Put
    BY <2>0, <2>1 DEF Put, blobVars
  <2>2. CASE MainDocs
    BY <2>0, <2>2 DEF MainDocs, AllowSync, StartLiveSync, Await, AwaitTimesOut, SyncOnce, SyncOnceReturns,
       Check, Find, blobVars
  <2>3. CASE StoreCalls
    BY <2>0, <2>3 DEF StoreCalls, WriteBlob, NewBlob, Commit, SetTag, CloseTempTag, Reopen, Download, Counted,
       Delete, GCReturns, docVars, blobVars
  <2>4. CASE Live
    BY <2>0, <2>4 DEF Live, NeighborUp, Ask, Answer, Apply, Break, Receive, blobVars
  <2>5. CASE Rest
    BY <2>0, <2>5 DEF Rest, Expire, StartLiveSyncFails, StoreFails, Kill, Finish, Close, docVars, blobVars
  <2>6. CASE Rerun
    <3>1. runs' \in 1..MaxRuns
      <4>1. runs' = runs + 1 /\ runs < MaxRuns /\ MaxRuns \in Nat
        BY <2>6, DocumentsAssumption DEF Rerun
      <4> QED
        BY <2>0, <4>1
    <3> QED
      BY <2>0, <2>6, <3>1 DEF Rerun, docVars
  <2>7. CASE UNCHANGED vars
    BY <2>0, <2>7 DEF vars
  <2> QED
    BY <2>1, <2>2, <2>3, <2>4, <2>5, <2>6, <2>7, Kinds
<1>5. /\ sync' \in [Replicas -> {Idle} \cup [phase : {"asked", "answered"}, sent : SUBSET Entries]]
      /\ gossip' \subseteq (Replicas \X Entries)
  <2>0. /\ sync \in [Replicas -> {Idle} \cup [phase : {"asked", "answered"}, sent : SUBSET Entries]]
        /\ gossip \subseteq (Replicas \X Entries)
    BY DEF Shapes
  <2>1. CASE Put
    <3>1. Who \in Replicas /\ Arg \in Entries
      BY <2>1, AtIs, PutsAreNew DEF Put, Shapes, Who, Arg
    <3> QED
      BY <2>0, <2>1, <3>1, OtherReplica DEF Put
  <2>2. CASE MainDocs
    BY <2>0, <2>2 DEF MainDocs, AllowSync, StartLiveSync, Await, AwaitTimesOut, SyncOnce, SyncOnceReturns,
       Check, Find
  <2>3. CASE StoreCalls
    BY <2>0, <2>3 DEF StoreCalls, WriteBlob, NewBlob, Commit, SetTag, CloseTempTag, Reopen, Download, Counted,
       Delete, GCReturns, docVars
  <2>4. CASE Live
    <3>1. \A r \in Replicas : store[r] \in SUBSET Entries /\ store[Other(r)] \in SUBSET Entries
      BY OtherReplica DEF Shapes
    <3>2. gossip' \subseteq (Replicas \X Entries)
      BY <2>0, <2>4 DEF Live, NeighborUp, Ask, Answer, Apply, Break, Receive
    <3>3. \/ sync' = sync
          \/ \E r \in Replicas : \E x \in {Idle} \cup [phase : {"asked", "answered"}, sent : SUBSET Entries] :
               sync' = [sync EXCEPT ![r] = x]
      BY <2>4, <3>1 DEF Live, NeighborUp, Ask, Answer, Apply, Break, Receive
    <3> QED
      BY <2>0, <3>2, <3>3
  <2>5. CASE Rest
    BY <2>0, <2>5 DEF Rest, Expire, StartLiveSyncFails, StoreFails, Kill, Finish, Close, docVars
  <2>6. CASE Rerun
    BY <2>0, <2>6 DEF Rerun, docVars
  <2>7. CASE UNCHANGED vars
    BY <2>0, <2>7 DEF vars
  <2> QED
    BY <2>1, <2>2, <2>3, <2>4, <2>5, <2>6, <2>7, Kinds
<1>6. blobs' = [r \in Replicas |->
                  [data |-> blobs'[r].data, temp |-> blobs'[r].temp, tags |-> blobs'[r].tags]]
  <2>1. CASE StoreCalls \/ StoreFails
    BY <2>1, CallsOnStores
  <2>2. CASE Kill
    BY <2>2, TempTagsDie
  <2>3. CASE ~(StoreCalls \/ StoreFails \/ Kill)
    <3>1. blobs' = blobs
      BY <2>3, Kinds DEF MainDocs, AllowSync, StartLiveSync, Await, AwaitTimesOut, SyncOnce, SyncOnceReturns,
         Check, Find, Put, Live, NeighborUp, Ask, Answer, Apply, Break, Receive, Rest, Expire,
         StartLiveSyncFails, Finish, Close, Rerun, blobVars, vars
    <3> QED
      BY <3>1 DEF Shapes
  <2> QED
    BY <2>1, <2>2, <2>3
<1>7. prog' = "blobs_store" =>
        \A r \in Replicas : /\ store'[r] = {} /\ sync'[r] = Idle /\ gossip' = {}
                            /\ ~live'[r] /\ ~todo'[r]
  <2> SUFFICES ASSUME prog' = "blobs_store"
               PROVE \A r \in Replicas : /\ store'[r] = {} /\ sync'[r] = Idle /\ gossip' = {}
                                         /\ ~live'[r] /\ ~todo'[r]
    OBVIOUS
  <2>1. prog = "blobs_store"
    BY MainMoves
  <2>2. \A r \in Replicas : store[r] = {} /\ sync[r] = Idle /\ gossip = {} /\ ~live[r] /\ ~todo[r]
    BY <2>1 DEF Shapes
  <2>3. CASE StoreCalls
    BY <2>2, <2>3 DEF StoreCalls, WriteBlob, NewBlob, Commit, SetTag, CloseTempTag, Reopen, Download, Counted,
       Delete, GCReturns, docVars
  <2>4. CASE Rest
    BY <2>2, <2>4 DEF Rest, Expire, StartLiveSyncFails, StoreFails, Kill, Finish, Close, docVars, Shapes
  <2>5. CASE Rerun \/ UNCHANGED vars
    BY <2>2, <2>5 DEF Rerun, docVars, vars
  <2> QED
    BY <2>1, <2>3, <2>4, <2>5, Kinds, NoDocuments
<1>8. parts' \subseteq 1..runs'
  <2>1. runs \in Nat \ {0} /\ parts \subseteq 1..runs
    BY DocumentsAssumption DEF Shapes
  <2>2. \/ parts' \subseteq parts \cup {runs} /\ runs' = runs
        \/ parts' = parts /\ runs' = runs + 1
    <3>1. CASE Put \/ MainDocs \/ Live
      BY <3>1 DEF Put, MainDocs, AllowSync, StartLiveSync, Await, AwaitTimesOut, SyncOnce, SyncOnceReturns,
         Check, Find, Live, NeighborUp, Ask, Answer, Apply, Break, Receive, blobVars
    <3>2. CASE StoreCalls
      BY <3>2 DEF StoreCalls, WriteBlob, NewBlob, Commit, SetTag, CloseTempTag, Reopen, Download, Counted,
         Delete, GCReturns, blobVars
    <3>3. CASE Rest \/ Rerun \/ UNCHANGED vars
      BY <3>3 DEF Rest, Expire, StartLiveSyncFails, StoreFails, Kill, Finish, Close, Rerun, blobVars, vars
    <3> QED
      BY <3>1, <3>2, <3>3, Kinds
  <2>3. runs \in 1..runs /\ 1..runs \subseteq 1..(runs + 1)
    BY <2>1
  <2>4. CASE parts' \subseteq parts \cup {runs} /\ runs' = runs
    <3>1. parts \cup {runs} \subseteq 1..runs
      BY <2>1, <2>3
    <3> QED
      BY <2>4, <3>1
  <2>5. CASE parts' = parts /\ runs' = runs + 1
    BY <2>1, <2>3, <2>5
  <2> QED
    BY <2>2, <2>4, <2>5
<1> QED
  BY <1>1, <1>3, <1>4, <1>5, <1>6, <1>7, <1>8 DEF Shapes

\* No step makes up an entry.
LEMMA OnlyWrittenKept ==
  ASSUME Shapes, OnlyWritten, [Next]_vars
  PROVE  OnlyWritten'
<1>1. /\ Written \subseteq Entries /\ Written \subseteq Written'
      /\ \A r \in Replicas : store[r] \in SUBSET Entries /\ sync[r].sent \subseteq Written'
      /\ \A r \in Replicas : store[r] \subseteq Written'
      /\ file \subseteq Written' /\ \A m \in gossip : m[2] \in Written'
  BY WrittenMoves DEF OnlyWritten, Shapes
<1>2. ASSUME NEW r \in Replicas, NEW T \in SUBSET Entries, T \subseteq Written', TakeIn(r, T)
      PROVE  (\A q \in Replicas : store'[q] \subseteq Written') /\ file' \subseteq Written'
  <2>0. store'[r] = Merge(store[r], T) /\ store[r] \in SUBSET Entries
    BY <1>1, <1>2, TakenIn
  <2>1. Merge(store[r], T) \subseteq store[r] \cup T
    BY <2>0, MergeKeeps
  <2> QED
    BY <1>1, <1>2, <2>0, <2>1, TakenIn
<1>3. (\A r \in Replicas : store'[r] \subseteq Written') /\ file' \subseteq Written'
  <2>1. CASE UNCHANGED <<store, file>>
    BY <1>1, <2>1
  <2>2. CASE Advance /\ Script(prog)[pc].op = "put" /\ TakeIn(Who, {Arg})
    <3>1. Who \in Replicas /\ {Arg} \in SUBSET Entries /\ {Arg} \subseteq Written'
      BY <2>2, PutsAreNew, WrittenMoves DEF Advance, Shapes, Who, Arg
    <3> QED
      BY <2>2, <3>1, <1>2
  <2>3. CASE \E r \in Replicas : \E T \in SUBSET Written : TakeIn(r, T)
    BY <1>1, <2>3, <1>2
  <2> QED
    BY <2>1, <2>2, <2>3, StoresMove
<1>4. /\ \A r \in Replicas : sync'[r].sent \subseteq Written'
      /\ \A m \in gossip' : m[2] \in Written'
  <2>1. CASE Put
    <3>1. sync' = sync
      BY <2>1 DEF Put
    <3>2. gossip' = gossip \/ (gossip' = gossip \cup {<<Other(Who), Arg>>} /\ Arg \in Written')
      <4>1. CASE Advance
        BY <2>1, <4>1, AtIs, WrittenMoves DEF Put
      <4>2. CASE ~Advance
        BY <2>1, <4>2, AtIs DEF Put, Advance
      <4> QED
        BY <4>1, <4>2
    <3> QED
      BY <1>1, <3>1, <3>2
  <2>2. CASE Live
    <3>1. gossip' \subseteq gossip
      BY <2>2 DEF Live, NeighborUp, Ask, Answer, Apply, Break, Receive
    <3>2. \/ sync' = sync
          \/ \E r \in Replicas : \E x : x.sent \subseteq Written' /\ sync' = [sync EXCEPT ![r] = x]
      <4>1. Idle.sent \subseteq Written'
        BY DEF Idle
      <4>2. \A r \in Replicas : Ask(r) => sync' = [sync EXCEPT ![r] = [phase |-> "asked", sent |-> store[r]]]
        BY DEF Ask
      <4>3. \A r \in Replicas : Answer(r) =>
              \/ sync' = [sync EXCEPT ![r] = [phase |-> "answered", sent |-> store[Other(r)]]]
              \/ sync' = [sync EXCEPT ![r] = Idle]
        BY DEF Answer
      <4>4. \A r \in Replicas : Apply(r) \/ Break(r) => sync' = [sync EXCEPT ![r] = Idle]
        BY DEF Apply, Break
      <4>5. \A r \in Replicas : NeighborUp(r) => sync' = sync
        BY DEF NeighborUp
      <4>6. \A m : Receive(m) => sync' = sync
        BY DEF Receive
      <4>7. \A S, p : S \subseteq Written' => [phase |-> p, sent |-> S].sent \subseteq Written'
        OBVIOUS
      <4>8. \A r \in Replicas : store[r] \subseteq Written' /\ store[Other(r)] \subseteq Written'
        BY <1>1, OtherReplica
      <4> QED
        BY <2>2, <4>1, <4>2, <4>3, <4>4, <4>5, <4>6, <4>7, <4>8 DEF Live
    <3>3. sync \in [Replicas -> {Idle} \cup [phase : {"asked", "answered"}, sent : SUBSET Entries]]
      BY DEF Shapes
    <3>4. ASSUME NEW r \in Replicas, NEW x, x.sent \subseteq Written', sync' = [sync EXCEPT ![r] = x]
          PROVE  \A q \in Replicas : sync'[q].sent \subseteq Written'
      BY <1>1, <3>3, <3>4
    <3> QED
      BY <1>1, <3>1, <3>2, <3>4
  <2>3. CASE ~Put /\ ~Live
    <3>1. sync' = sync /\ gossip' = gossip
      BY <2>3, Kinds DEF MainDocs, AllowSync, StartLiveSync, Await, AwaitTimesOut, SyncOnce, SyncOnceReturns,
         Check, Find, StoreCalls, WriteBlob, NewBlob, Commit, SetTag, CloseTempTag, Reopen, Download, Counted,
         Delete, GCReturns, Rest, Expire, StartLiveSyncFails, StoreFails, Kill, Finish, Close,
         Rerun, docVars, vars
    <3> QED
      BY <1>1, <3>1
  <2> QED
    BY <2>1, <2>2, <2>3
<1> QED
  BY <1>3, <1>4 DEF OnlyWritten

\* No step leaves an entry beside a newer one.
LEMMA OneEachKept ==
  ASSUME Shapes, OnlyWritten, OneEach, [Next]_vars
  PROVE  OneEach'
<1>1. \A r \in Replicas : store[r] \in SUBSET Entries
  BY DEF Shapes
<1>2. ASSUME NEW r \in Replicas, NEW T \in SUBSET Entries, TakeIn(r, T)
      PROVE  OneEach'
  <2>1. store'[r] = Merge(store[r], T) /\ store[r] \in SUBSET Entries
    BY <1>1, <1>2, TakenIn
  <2>2. \A e, f \in store'[r] : ~Newer(e, f)
    BY <2>1, MergeKeeps
  <2>3. \A q \in Replicas : q # r => store'[q] = store[q]
    BY <1>2, TakenIn
  <2> QED
    BY <2>2, <2>3 DEF OneEach
<1>3. CASE UNCHANGED <<store, file>>
  BY <1>3 DEF OneEach
<1>4. CASE Advance /\ Script(prog)[pc].op = "put" /\ TakeIn(Who, {Arg})
  <2>1. Who \in Replicas /\ {Arg} \in SUBSET Entries
    BY <1>4, PutsAreNew DEF Advance, Shapes, Who, Arg
  <2> QED
    BY <1>4, <2>1, <1>2
<1>5. CASE \E r \in Replicas : \E T \in SUBSET Written : TakeIn(r, T)
  BY <1>2, <1>5, WrittenMoves
<1> QED
  BY <1>3, <1>4, <1>5, StoresMove

\* The author of an entry holds it, or a newer one: a store takes in without losing.
LEMMA WritesSurviveKept ==
  ASSUME Shapes, OnlyWritten, WritesSurvive, [Next]_vars
  PROVE  WritesSurvive'
<1>0. /\ \A r \in Replicas : store[r] \in SUBSET Entries
      /\ Written \subseteq Entries /\ \A e \in Entries : e.author \in Replicas
  BY WrittenMoves, EntryFacts DEF Shapes
<1> DEFINE Holds(S, e) == \E f \in S : f = e \/ Newer(f, e)
<1>1. \A e, f, g \in Entries : Newer(f, e) /\ Newer(g, f) => Newer(g, e)
  BY EntryFacts
<1>2. ASSUME NEW r \in Replicas, NEW T \in SUBSET Entries, TakeIn(r, T), NEW e \in Entries,
             Holds(store[e.author], e) \/ (r = e.author /\ e \in T)
      PROVE  Holds(store'[e.author], e)
  <2>1. CASE r # e.author
    BY <1>0, <1>2, <2>1, TakenIn
  <2>2. CASE r = e.author
    <3>1. PICK f \in store[r] \cup T : f = e \/ Newer(f, e)
      BY <1>2, <2>2
    <3>0. store[r] \in SUBSET Entries
      BY <1>0
    <3>2. PICK g \in Merge(store[r], T) : g = f \/ Newer(g, f)
      BY <3>0, MergeKeeps
    <3>3. g \in store'[r] /\ g \in Entries /\ f \in Entries
      BY <1>0, <1>2, <3>1, <3>2, TakenIn
    <3>4. g = e \/ Newer(g, e)
      BY <1>1, <3>1, <3>2, <3>3
    <3> QED
      BY <2>2, <3>3, <3>4
  <2> QED
    BY <2>1, <2>2
<1>3. CASE UNCHANGED <<store, file>> /\ Written' = Written
  BY <1>3 DEF WritesSurvive
<1>4. CASE Advance /\ Script(prog)[pc].op = "put" /\ TakeIn(Who, {Arg})
  <2>1. Who \in Replicas /\ {Arg} \in SUBSET Entries /\ Arg.author = Who
    BY <1>4, PutsAreNew DEF Advance, Shapes, Who, Arg
  <2>2. Written' = Written \cup {Arg}
    BY <1>4, WrittenMoves
  <2>3. ASSUME NEW e \in Written' PROVE Holds(store'[e.author], e)
    <3>1. e \in Entries /\ (Holds(store[e.author], e) \/ (Who = e.author /\ e \in {Arg}))
      BY <1>0, <2>1, <2>2 DEF WritesSurvive
    <3> HIDE DEF Holds
    <3> QED
      BY <1>2, <1>4, <2>1, <3>1
  <2> QED
    BY <2>3 DEF WritesSurvive
<1>5. CASE /\ Live /\ pc' = pc /\ prog' = prog
           /\ \E r \in Replicas : \E T \in SUBSET Written : TakeIn(r, T)
  <2>1. PICK r \in Replicas, T \in SUBSET Written : TakeIn(r, T)
    BY <1>5
  <2>2. Written' = Written
    BY <1>5 DEF Written
  <2>3. ASSUME NEW e \in Written' PROVE Holds(store'[e.author], e)
    <3>1. e \in Entries /\ Holds(store[e.author], e) /\ T \in SUBSET Entries
      BY <1>0, <2>2 DEF WritesSurvive
    <3> HIDE DEF Holds
    <3> QED
      BY <1>2, <2>1, <3>1
  <2> QED
    BY <2>3 DEF WritesSurvive
<1>6. UNCHANGED <<store, file>> =>
        \/ Written' = Written
        \/ Advance /\ Script(prog)[pc].op = "put" /\ TakeIn(Who, {Arg})
  BY WrittenMoves, MainMoves
<1> QED
  BY <1>3, <1>4, <1>5, <1>6, StoresMove

\* The step that main takes is the one it is at.
LEMMA AdvanceIs ==
  ASSUME Shapes, [Next]_vars, Advance
  PROVE  LET op == Script(prog)[pc].op IN
         /\ op = "write" => WriteBlob
         /\ op = "allow" => AllowSync
         /\ op = "start" => StartLiveSync
         /\ op = "await" => Await
         /\ op = "sync" => SyncOnce
         /\ op = "synced" => SyncOnceReturns /\ ~broken
         /\ op = "check" => Check
         /\ op = "find" => Find
<1> DEFINE op == Script(prog)[pc].op
<1>0. pc' # pc /\ outcome = "running" /\ outcome' = "running"
  BY DEF Advance, Shapes
<1>1. CASE Put
  <2>1. op = "put"
    BY <1>1, AtIs DEF Put
  <2> QED
    BY <2>1
<1>2. CASE MainDocs
  <2>1. AllowSync => op = "allow"
    BY AtIs DEF AllowSync
  <2>2. StartLiveSync => op = "start"
    BY AtIs DEF StartLiveSync
  <2>3. Await => op = "await"
    BY AtIs DEF Await
  <2>4. ~AwaitTimesOut
    BY <1>0 DEF AwaitTimesOut
  <2>5. SyncOnce => op = "sync"
    BY AtIs DEF SyncOnce
  <2>6. SyncOnceReturns => op = "synced" /\ ~broken
    BY <1>0, AtIs DEF SyncOnceReturns
  <2>7. Check => op = "check"
    BY AtIs DEF Check
  <2>8. Find => op = "find"
    BY AtIs DEF Find
  <2> HIDE DEF op
  <2> QED
    BY <1>2, <2>1, <2>2, <2>3, <2>4, <2>5, <2>6, <2>7, <2>8 DEF MainDocs, op
<1>3. CASE StoreCalls
  <2>1. WriteBlob \/ op \in {"commit", "tag", "untemp", "reopen", "download", "counted", "gc"}
    BY <1>3, AtIs DEF StoreCalls, NewBlob, Commit, SetTag, CloseTempTag, Reopen, Download, Counted, Delete, GCReturns
  <2>2. WriteBlob => op = "write"
    BY AtIs DEF WriteBlob
  <2> QED
    BY <2>1, <2>2
<1>4. CASE Live \/ Rest \/ Rerun \/ UNCHANGED vars
  BY <1>0, <1>4 DEF Live, NeighborUp, Ask, Answer, Apply, Break, Receive,
     Rest, Expire, StartLiveSyncFails, StoreFails, Kill, Finish, Close, Rerun, vars
<1> QED
  BY <1>1, <1>2, <1>3, <1>4, Kinds

\* The steps of a program with documents leave its blobs alone, or add to them.
LEMMA DocBlobs ==
  ASSUME Shapes, prog \in Docs, [Next]_vars
  PROVE  \A r \in Replicas :
           /\ blobs[r].data \subseteq blobs'[r].data
           /\ blobs'[r].tags = blobs[r].tags
<1>0. Docs \cap {"blobs_store"} = {}
  BY DEF Docs
<1>1. CASE WriteBlob \/ StoreFails
  BY <1>1, CallsOnStores DEF StoreCalls
<1>2. CASE StoreCalls /\ ~WriteBlob
  <2>1. PICK op \in {"commit", "tag", "untemp", "reopen", "download", "counted", "gc"} : At(op)
    BY <1>2 DEF StoreCalls, NewBlob, Commit, SetTag, CloseTempTag, Reopen, Download, Counted, Delete, GCReturns
  <2> QED
    BY <2>1, AtIs, DocCalls
<1>3. CASE ~(StoreCalls \/ StoreFails)
  <2>1. blobs' = blobs
    BY <1>0, <1>3, Kinds DEF MainDocs, AllowSync, StartLiveSync, Await, AwaitTimesOut, SyncOnce, SyncOnceReturns,
       Check, Find, Put, Live, NeighborUp, Ask, Answer, Apply, Break, Receive, Rest, Expire,
       StartLiveSyncFails, Kill, Finish, Close, Rerun, blobVars, vars
  <2> QED
    BY <2>1
<1> QED
  BY <1>1, <1>2, <1>3

\* No step takes content away that an entry names.
LEMMA ContentKept ==
  ASSUME Shapes, Content, [Next]_vars
  PROVE  Content'
<1> SUFFICES ASSUME prog' \in Docs
             PROVE  /\ \A j \in 1..(pc' - 1) : Script(prog')[j].op = "write" =>
                         Script(prog')[j].arg \in blobs'[Script(prog')[j].who].data
                    /\ \A r \in Replicas : blobs'[r].tags = {}
  BY DEF Content
<1>1. prog' = prog /\ prog \in Docs /\ prog # "blobs_store"
  BY MainMoves DEF Docs
<1>2. Len(Script(prog)) = 14 /\ pc \in 1..15
  <2>1. Len(Script(prog)) = 14
    BY <1>1, Scripts, LiveSyncCalls, SyncCalls DEF Docs
  <2> QED
    BY <2>1 DEF Shapes
<1>3. \A r \in Replicas : blobs'[r].tags = {}
  BY <1>1, DocBlobs DEF Content
<1>4. ASSUME NEW j \in 1..(pc' - 1), Script(prog)[j].op = "write"
      PROVE  Script(prog)[j].arg \in blobs'[Script(prog)[j].who].data
  <2>1. CASE j \in 1..(pc - 1)
    <3>1. j \in 1..Len(Script(prog))
      BY <1>2, <2>1
    <3>2. Script(prog)[j].who \in Replicas
      BY <1>1, <3>1, DocCalls
    <3>3. Script(prog)[j].arg \in blobs[Script(prog)[j].who].data
      BY <1>1, <1>4, <2>1 DEF Content
    <3> QED
      BY <1>1, <3>2, <3>3, DocBlobs
  <2>2. CASE j \notin 1..(pc - 1)
    <3>0. ~Rerun /\ pc' # pc
      BY <1>1, <2>2 DEF Rerun
    <3>1. Advance /\ j = pc
      <4>1. Advance
        BY <3>0, MainMoves
      <4>2. pc' = pc + 1
        BY <4>1 DEF Advance
      <4> QED
        BY <1>2, <2>2, <4>1, <4>2
    <3>2. WriteBlob
      BY <1>4, <3>1, AdvanceIs
    <3> QED
      BY <3>1, <3>2, CallsOnStores DEF StoreCalls, Who, Arg
  <2> QED
    BY <2>1, <2>2
<1> QED
  BY <1>1, <1>3, <1>4

\* A replica that joined the topic, or that may be asked, admits the namespace.
LEMMA AdmittedKept ==
  ASSUME Shapes, Admitted, [Next]_vars
  PROVE  Admitted'
<1>0. /\ allowed \in [Replicas -> BOOLEAN] /\ live \in [Replicas -> BOOLEAN]
      /\ neighbor \in [Replicas -> BOOLEAN] /\ todo \in [Replicas -> BOOLEAN]
      /\ sync \in [Replicas -> {Idle} \cup [phase : {"asked", "answered"}, sent : SUBSET Entries]]
      /\ refused = FALSE
  BY DEF Shapes, Admitted
<1>1. ~refused'
  <2>1. CASE \E r \in Replicas : Answer(r)
    <3>1. PICK r \in Replicas : Answer(r)
      BY <2>1
    <3>2. CASE outcome = "running"
      <4>1. sync[r] # Idle
        BY <3>1 DEF Answer, Idle
      <4> QED
        BY <1>0, <3>1, <3>2, <4>1 DEF Answer, Admitted
    <3>3. CASE outcome # "running"
      BY <1>0, <3>1, <3>3 DEF Answer
    <3> QED
      BY <3>2, <3>3
  <2>2. CASE ~ \E r \in Replicas : Answer(r)
    <3>1. refused' = refused
      BY <2>2, Kinds DEF MainDocs, AllowSync, StartLiveSync, Await, AwaitTimesOut, SyncOnce, SyncOnceReturns,
         Check, Find, StoreCalls, WriteBlob, NewBlob, Commit, SetTag, CloseTempTag, Reopen, Download, Counted,
         Delete, GCReturns, Put, Live, NeighborUp, Ask, Apply, Break, Receive, Rest, Expire,
         StartLiveSyncFails, StoreFails,
         Kill, Finish, Close, Rerun, vars
    <3> QED
      BY <1>0, <3>1
  <2> QED
    BY <2>1, <2>2
<1> DEFINE Fit(a, l, t, s) ==
             \A r \in Replicas : (l[r] => a[r]) /\ (t[r] \/ s[r] # Idle => a[Other(r)])
<1>2. ASSUME outcome' = "running", outcome = "running"
      PROVE  /\ \A r \in Replicas : allowed[r] => allowed'[r]
             /\ Fit(allowed', live', todo', sync')
  <2>0. Fit(allowed, live, todo, sync)
    BY <1>2 DEF Admitted
  <2>1. CASE AllowSync
    <3>1. UNCHANGED <<live, todo, sync>> /\ \A r \in Replicas : allowed[r] => allowed'[r]
      BY <1>0, <2>1 DEF AllowSync
    <3> QED
      BY <2>0, <3>1, OtherReplica
  <2>2. CASE StartLiveSync \/ SyncOnce
    <3>1. /\ UNCHANGED <<allowed, sync>> /\ allowed["alice"]
          /\ \A r \in Replicas : /\ live'[r] => live[r] \/ allowed[r]
                                 /\ todo'[r] => todo[r] \/ r = "bob"
      <4>0. \A op : At(op) => pc \in 1..Len(Script(prog)) /\ prog \in Programs /\ Script(prog)[pc].op = op
        BY AtIs
      <4>1. prog \in Docs
        <5>1. MainDocs
          BY <2>2 DEF MainDocs
        <5>2. prog # "blobs_store"
          BY <5>1, NoDocuments
        <5> QED
          BY <5>2 DEF Shapes, Docs, Programs
      <4>2. CASE StartLiveSync
        <5>1. pc \in 1..Len(Script(prog)) /\ Script(prog)[pc].op = "start"
          BY <4>0, <4>2 DEF StartLiveSync
        <5>2. allowed[Who] /\ allowed["alice"]
          BY <1>2, <4>1, <5>1, DocCalls DEF Who, Admitted
        <5>3. UNCHANGED <<allowed, sync>> /\ live' = [live EXCEPT ![Who] = TRUE]
              /\ (todo' = todo \/ todo' = [todo EXCEPT !["bob"] = TRUE])
          BY <4>2 DEF StartLiveSync
        <5> QED
          BY <1>0, <5>2, <5>3
      <4>3. CASE SyncOnce
        <5>1. pc \in 1..Len(Script(prog)) /\ Script(prog)[pc].op = "sync"
          BY <4>0, <4>3 DEF SyncOnce
        <5>2. allowed["alice"] /\ Who = "bob"
          BY <1>2, <4>1, <5>1, DocCalls DEF Who, Admitted
        <5>3. UNCHANGED <<allowed, sync, live>> /\ todo' = [todo EXCEPT ![Who] = TRUE]
          BY <4>3 DEF SyncOnce
        <5> QED
          BY <1>0, <5>2, <5>3
      <4> QED
        BY <2>2, <4>2, <4>3
    <3> QED
      BY <2>0, <3>1, OtherReplica
  <2>3. CASE Live
    <3>0. allowed' = allowed /\ live' = live
      BY <2>3 DEF Live, NeighborUp, Ask, Answer, Apply, Break, Receive
    <3>1. CASE \E m \in Replicas \X Entries : Receive(m)
      BY <2>0, <3>0, <3>1 DEF Receive
    <3>2. CASE \E r \in Replicas : NeighborUp(r) \/ Ask(r) \/ Answer(r) \/ Apply(r) \/ Break(r)
      <4>1. PICK r \in Replicas : NeighborUp(r) \/ Ask(r) \/ Answer(r) \/ Apply(r) \/ Break(r)
        BY <3>2
      <4>2. CASE NeighborUp(r)
        <5>1. live[Other(r)] /\ todo' = [todo EXCEPT ![r] = TRUE] /\ sync' = sync
          BY <4>2 DEF NeighborUp
        <5>2. allowed[Other(r)]
          BY <2>0, <5>1, OtherReplica
        <5> QED
          BY <1>0, <2>0, <3>0, <5>1, <5>2
      <4>3. CASE Ask(r)
        <5>1. todo[r] /\ todo' = [todo EXCEPT ![r] = FALSE]
          BY <4>3 DEF Ask
        <5>2. \A q \in Replicas : q # r => sync'[q] = sync[q]
          BY <1>0, <4>3 DEF Ask
        <5>3. \A q \in Replicas : todo'[q] \/ sync'[q] # Idle => todo[q] \/ sync[q] # Idle
          BY <1>0, <5>1, <5>2
        <5> QED
          BY <2>0, <3>0, <5>3
      <4>4. CASE Answer(r)
        <5>1. todo' = todo /\ sync[r] # Idle
          BY <4>4 DEF Answer, Idle
        <5>2. \A q \in Replicas : q # r => sync'[q] = sync[q]
          BY <1>0, <4>4 DEF Answer
        <5>3. \A q \in Replicas : todo'[q] \/ sync'[q] # Idle => todo[q] \/ sync[q] # Idle
          BY <5>1, <5>2
        <5> QED
          BY <2>0, <3>0, <5>3
      <4>5. CASE Apply(r) \/ Break(r)
        <5>1. todo' = todo /\ sync' = [sync EXCEPT ![r] = Idle]
          BY <4>5 DEF Apply, Break
        <5>3. \A q \in Replicas : todo'[q] \/ sync'[q] # Idle => todo[q] \/ sync[q] # Idle
          BY <1>0, <5>1
        <5> QED
          BY <2>0, <3>0, <5>3
      <4> QED
        BY <4>1, <4>2, <4>3, <4>4, <4>5
    <3> QED
      BY <2>3, <3>1, <3>2 DEF Live
  <2>4. CASE ~AllowSync /\ ~StartLiveSync /\ ~SyncOnce /\ ~Live
    <3>1. UNCHANGED <<allowed, live, todo, sync>>
      BY <1>2, <2>4, Kinds DEF MainDocs, Await, AwaitTimesOut, SyncOnceReturns,
         Check, Find, StoreCalls, WriteBlob, NewBlob, Commit, SetTag, CloseTempTag, Reopen, Download, Counted,
         Delete, GCReturns, Put, Rest, Expire, StartLiveSyncFails, StoreFails, Kill, Finish, Close,
         Rerun, docVars, vars
    <3> QED
      BY <2>0, <3>1
  <2> QED
    BY <2>1, <2>2, <2>3, <2>4
<1>3. ASSUME outcome' = "running", Rerun
      PROVE  /\ \A j \in 1..(pc' - 1) : Script(prog')[j].op = "allow" => allowed'[Script(prog')[j].who]
             /\ Fit(allowed', live', todo', sync')
  <2>1. prog = "blobs_store" /\ pc' = 1 /\ UNCHANGED <<live, todo, sync>>
    BY <1>3 DEF Rerun, docVars
  <2>2. \A r \in Replicas : ~live'[r] /\ ~todo'[r] /\ sync'[r] = Idle
    BY <2>1 DEF Shapes
  <2> QED
    BY <2>1, <2>2
<1>4. ASSUME outcome' = "running", outcome = "running", NEW j \in 1..(pc' - 1), Script(prog')[j].op = "allow"
      PROVE  allowed'[Script(prog')[j].who]
  <2>0. prog' = prog /\ ~Rerun
    BY <1>4, MainMoves DEF Rerun
  <2>1. CASE j \in 1..(pc - 1)
    <3>1. allowed[Script(prog)[j].who]
      BY <1>4, <2>0, <2>1 DEF Admitted
    <3>2. prog \in Docs /\ j \in 1..Len(Script(prog))
      <4>1. Len(Script(prog)) \in 10..14
        BY Scripts DEF Shapes
      <4>2. j \in 1..Len(Script(prog))
        BY <2>1, <4>1 DEF Shapes
      <4>3. prog # "blobs_store"
        <5> SUFFICES ASSUME prog = "blobs_store" PROVE FALSE
          OBVIOUS
        <5>1. j \in 1..10 /\ BlobsStoreScript[j].op = "allow"
          BY <1>4, <2>0, <4>2, Scripts, BlobsStoreCalls
        <5> QED
          BY <5>1, BlobsStoreOps
      <4> QED
        BY <4>2, <4>3 DEF Docs, Shapes, Programs
    <3>3. Script(prog)[j].who \in Replicas
      BY <3>2, DocCalls
    <3> QED
      BY <1>2, <1>4, <2>0, <3>1, <3>3
  <2>2. CASE j \notin 1..(pc - 1)
    <3>1. Advance
      BY <1>4, <2>0, <2>2, MainMoves
    <3>2. pc' = pc + 1 /\ pc \in 1..Len(Script(prog))
      BY <3>1 DEF Advance
    <3>3. j = pc
      BY <2>2, <3>2 DEF Shapes
    <3>4. AllowSync
      BY <1>4, <2>0, <3>1, <3>3, AdvanceIs
    <3>5. Who \in Replicas
      <4>1. prog # "blobs_store"
        BY <3>4, NoDocuments DEF MainDocs
      <4> QED
        BY <3>2, <4>1, DocCalls DEF Who, Docs, Shapes, Programs
    <3> QED
      BY <1>0, <2>0, <3>3, <3>4, <3>5 DEF AllowSync, Who
  <2> QED
    BY <2>1, <2>2
<1>5. outcome' = "running" => outcome = "running" \/ Rerun
  BY MainMoves DEF Advance
<1> QED
  BY <1>1, <1>2, <1>3, <1>4, <1>5 DEF Admitted

\* Whoever holds as many entries as there are holds them all.
LEMMA CountsAreContents ==
  ASSUME NEW S, NEW T, IsFiniteSet(T), S \subseteq T, Cardinality(S) >= Cardinality(T)
  PROVE  S = T
BY FS_Subset, FS_CardinalityType

\* How many entries docs_live_sync has at each await.
LEMMA Counts ==
  /\ IsFiniteSet({Before}) /\ Cardinality({Before}) = 1
  /\ IsFiniteSet({Before, After}) /\ Cardinality({Before, After}) = 2
  /\ IsFiniteSet({Before, After, Reply}) /\ Cardinality({Before, After, Reply}) = 3
<1>1. IsFiniteSet({Before}) /\ Cardinality({Before}) = 1
  BY FS_Singleton
<1>2. {Before, After} = {Before} \cup {After} /\ After \notin {Before}
  BY EntryFacts
<1>3. IsFiniteSet({Before, After}) /\ Cardinality({Before, After}) = 2
  BY <1>1, <1>2, FS_AddElement
<1>4. {Before, After, Reply} = {Before, After} \cup {Reply} /\ Reply \notin {Before, After}
  BY EntryFacts
<1>5. IsFiniteSet({Before, After, Reply}) /\ Cardinality({Before, After, Reply}) = 3
  BY <1>3, <1>4, FS_AddElement
<1> QED
  BY <1>1, <1>3, <1>5

\* The stores of docs_live_sync only grow, and bob's file with his store.
LEMMA LiveStoresGrow ==
  ASSUME Shapes, OnlyWritten, prog = "docs_live_sync", [Next]_vars
  PROVE  /\ \A r \in Replicas : store[r] \subseteq store'[r]
         /\ file = store["bob"] => file' = store'["bob"]
<1>0. /\ \A r \in Replicas : store[r] \in SUBSET Entries
      /\ "bob" \in Replicas /\ prog' = prog
  BY MainMoves DEF Shapes, Replicas
<1>1. pc \in 1..15 /\ pc' \in 1..15
  <2>1. Len(Script(prog)) = 14
    BY Scripts, LiveSyncCalls
  <2>2. pc \in 1..(14 + 1)
    BY <2>1 DEF Shapes
  <2>3. pc' \in 1..(14 + 1)
    BY <2>1, MainMoves
  <2> QED
    BY <2>2, <2>3
<1>2. /\ Written = WrittenBy("docs_live_sync", pc) /\ Written' = WrittenBy("docs_live_sync", pc')
      /\ Written \subseteq Written'
  BY <1>0, WrittenMoves DEF Written, WrittenBy
<1>3. ColdBrew \notin Written' /\ ColdBrew \notin Written /\ Written' \subseteq Entries
  BY <1>1, <1>2, LiveSyncWrites, EntryFacts, WrittenMoves
<1>4. ASSUME NEW r \in Replicas, NEW T \in SUBSET Written', TakeIn(r, T)
      PROVE  /\ \A q \in Replicas : store[q] \subseteq store'[q]
             /\ file = store["bob"] => file' = store'["bob"]
  <2>1. T \in SUBSET Entries /\ store[r] \in SUBSET Entries /\ ColdBrew \notin store[r] \cup T
    BY <1>0, <1>2, <1>3 DEF OnlyWritten
  <2>2. store'[r] = store[r] \cup T
    BY <1>4, <2>1, TakenIn, MergeKeeps
  <2>3. \A q \in Replicas : q # r => store'[q] = store[q]
    BY <1>4, <2>1, TakenIn
  <2>4. file' = IF r = "bob" THEN file \cup (store'[r] \ store[r]) ELSE file
    BY <1>4, <2>1, TakenIn
  <2> QED
    BY <1>0, <2>2, <2>3, <2>4
<1>5. CASE UNCHANGED <<store, file>>
  BY <1>5
<1>6. CASE Advance /\ Script(prog)[pc].op = "put" /\ TakeIn(Who, {Arg})
  <2>1. Who \in Replicas /\ {Arg} \in SUBSET Written'
    BY <1>6, PutsAreNew, WrittenMoves DEF Advance, Shapes, Who, Arg
  <2> QED
    BY <1>4, <1>6, <2>1
<1>7. CASE \E r \in Replicas : \E T \in SUBSET Written : TakeIn(r, T)
  BY <1>2, <1>4, <1>7
<1> QED
  BY <1>5, <1>6, <1>7, StoresMove

\* An await counts what can only be the entries it waits for.
LEMMA AwaitedKept ==
  ASSUME Shapes, OnlyWritten, Awaited, [Next]_vars
  PROVE  Awaited'
<1> SUFFICES ASSUME prog' = "docs_live_sync"
             PROVE  /\ file' = store'["bob"]
                    /\ pc' > 7 => Before \in store'["bob"]
                    /\ pc' > 10 => After \in store'["bob"]
                    /\ pc' > 13 => {Before, After, Reply} \subseteq store'["alice"]
  BY DEF Awaited
<1>1. prog = "docs_live_sync" /\ ~Rerun /\ "alice" \in Replicas /\ "bob" \in Replicas
  BY MainMoves DEF Rerun, Replicas
<1>2. /\ store["alice"] \subseteq store'["alice"] /\ store["bob"] \subseteq store'["bob"]
      /\ file' = store'["bob"]
  BY <1>1, LiveStoresGrow DEF Awaited
<1>3. CASE pc' = pc
  BY <1>1, <1>2, <1>3 DEF Awaited
<1>4. CASE Advance
  <2>1. pc \in 1..14 /\ pc' = pc + 1
    BY <1>1, <1>4, Scripts, LiveSyncCalls DEF Advance
  <2>2. Written = WrittenBy("docs_live_sync", pc)
    BY <1>1 DEF Written, WrittenBy
  <2>3. ASSUME pc \in {7, 10, 13} PROVE Cardinality(store[LiveSyncScript[pc].who]) >= LiveSyncScript[pc].arg
    <3>1. Script(prog)[pc].op = "await"
      BY <1>1, <2>1, <2>3, LiveSyncOps, Scripts
    <3>2. Await
      BY <1>4, <3>1, AdvanceIs
    <3> QED
      BY <1>1, <3>2, Scripts DEF Await, Who, Arg
  <2>4. CASE pc = 7
    <3>1. Cardinality(store["bob"]) >= 1
      BY <2>3, <2>4, LiveSyncCalls DEF Do
    <3>2. store["bob"] \subseteq {Before}
      BY <1>1, <2>2, <2>4, LiveSyncWrites DEF OnlyWritten
    <3>3. store["bob"] = {Before}
      BY <3>1, <3>2, Counts, CountsAreContents
    <3> QED
      BY <1>2, <2>1, <2>4, <3>3
  <2>5. CASE pc = 10
    <3>1. Cardinality(store["bob"]) >= 2
      BY <2>3, <2>5, LiveSyncCalls DEF Do
    <3>2. store["bob"] \subseteq {Before, After}
      BY <1>1, <2>2, <2>5, LiveSyncWrites DEF OnlyWritten
    <3>3. store["bob"] = {Before, After}
      BY <3>1, <3>2, Counts, CountsAreContents
    <3> QED
      BY <1>2, <2>1, <2>5, <3>3
  <2>6. CASE pc = 13
    <3>1. Cardinality(store["alice"]) >= 3
      BY <2>3, <2>6, LiveSyncCalls DEF Do
    <3>2. store["alice"] \subseteq {Before, After, Reply}
      BY <1>1, <2>2, <2>6, LiveSyncWrites DEF OnlyWritten
    <3>3. store["alice"] = {Before, After, Reply}
      BY <3>1, <3>2, Counts, CountsAreContents
    <3>4. Before \in store["bob"] /\ After \in store["bob"]
      BY <1>1, <2>6 DEF Awaited
    <3> QED
      BY <1>2, <2>1, <2>6, <3>3, <3>4
  <2>7. CASE pc \notin {7, 10, 13}
    <3>1. (pc' > 7 => pc > 7) /\ (pc' > 10 => pc > 10) /\ (pc' > 13 => pc > 13)
      BY <2>1, <2>7
    <3> QED
      BY <1>1, <1>2, <3>1 DEF Awaited
  <2> QED
    BY <2>4, <2>5, <2>6, <2>7
<1> QED
  BY <1>1, <1>3, <1>4, MainMoves

\* A store that has alice's coffee goes on having it.
LEMMA CoffeeStays ==
  ASSUME Shapes, OnlyWritten, [Next]_vars, NEW r \in Replicas, HasCoffee(store[r])
  PROVE  HasCoffee(store'[r])
<1>1. ASSUME NEW q \in Replicas, NEW T \in SUBSET Entries, TakeIn(q, T) PROVE HasCoffee(store'[r])
  <2>1. CASE q = r
    <3>1. store'[r] = Merge(store[r], T) /\ store[r] \in SUBSET Entries
      BY <1>1, <2>1, TakenIn DEF Shapes
    <3>2. HasCoffee(Merge(store[r], T))
      BY <3>1, MergeKeepsCoffee
    <3> QED
      BY <3>1, <3>2
  <2>2. CASE q # r
    <3>1. store'[r] = store[r]
      BY <1>1, <2>2, TakenIn
    <3> QED
      BY <3>1
  <2> QED
    BY <2>1, <2>2
<1>2. CASE UNCHANGED <<store, file>>
  <2>1. store' = store
    BY <1>2
  <2> QED
    BY <2>1
<1>3. CASE Advance /\ Script(prog)[pc].op = "put" /\ TakeIn(Who, {Arg})
  <2>1. Who \in Replicas /\ {Arg} \in SUBSET Entries
    BY <1>3, PutsAreNew DEF Advance, Shapes, Who, Arg
  <2> QED
    BY <1>1, <1>3, <2>1
<1>4. CASE \E q \in Replicas : \E T \in SUBSET Written : TakeIn(q, T)
  BY <1>1, <1>4, WrittenMoves
<1> QED
  BY <1>2, <1>3, <1>4, StoresMove

\* What has gone wrong stays on record until the program is run again.
LEMMA RecordsStay ==
  ASSUME Shapes, [Next]_vars, ~Rerun
  PROVE  (broken => broken') /\ (expired => expired') /\ runs' = runs
<1>1. CASE Put \/ MainDocs
  BY <1>1 DEF Put, MainDocs, AllowSync, StartLiveSync, Await, AwaitTimesOut, SyncOnce, SyncOnceReturns,
     Check, Find, blobVars
<1>2. CASE StoreCalls
  <2>1. UNCHANGED <<broken, expired, runs>>
    BY <1>2 DEF StoreCalls, WriteBlob, NewBlob, Commit, SetTag, CloseTempTag, Reopen, Download, Counted,
       Delete, GCReturns, blobVars
  <2> QED
    BY <2>1
<1>3. CASE Live
  <2>1. ASSUME NEW r \in Replicas, NeighborUp(r) \/ Ask(r) \/ Answer(r) \/ Apply(r) \/ Break(r)
        PROVE  UNCHANGED <<expired, runs>> /\ (broken' = broken \/ broken' = TRUE)
    BY <2>1 DEF NeighborUp, Ask, Answer, Apply, Break, blobVars
  <2>2. ASSUME NEW m, Receive(m) PROVE UNCHANGED <<broken, expired, runs>>
    BY <2>2 DEF Receive, blobVars
  <2> QED
    BY <1>3, <2>1, <2>2 DEF Live
<1>4. CASE Rest \/ UNCHANGED vars
  BY <1>4 DEF Rest, Expire, StartLiveSyncFails, StoreFails, Kill, Finish, Close, blobVars, vars
<1> QED
  BY <1>1, <1>2, <1>3, <1>4, Kinds

\* syncOnce returns without an error only if alice's entries came over.
LEMMA SyncedKept ==
  ASSUME Shapes, OnlyWritten, WritesSurvive, Admitted, Synced, [Next]_vars
  PROVE  Synced'
<1> DEFINE Coming(t, s, h) == \/ t["bob"] \/ s["bob"].phase = "asked"
                              \/ s["bob"].phase = "answered" /\ HasCoffee(s["bob"].sent)
                              \/ HasCoffee(h["bob"])
<1> SUFFICES ASSUME prog' = "docs_sync", outcome' = "running", ~broken'
             PROVE  /\ pc' = 9 => Coming(todo', sync', store')
                    /\ pc' > 9 => HasCoffee(store'["bob"])
  BY DEF Synced
<1>1. prog = "docs_sync" /\ ~Rerun /\ outcome = "running" /\ "bob" \in Replicas /\ Other("bob") = "alice"
  BY MainMoves, OtherReplica DEF Rerun, Advance
<1>2. ~broken
  BY <1>1, RecordsStay
<1>3. /\ todo \in [Replicas -> BOOLEAN] /\ \A r \in Replicas : store[r] \in SUBSET Entries
      /\ sync \in [Replicas -> {Idle} \cup [phase : {"asked", "answered"}, sent : SUBSET Entries]]
  BY DEF Shapes
<1>4. HasCoffee(store["bob"]) => HasCoffee(store'["bob"])
  BY <1>1, CoffeeStays
<1>5. ASSUME pc = 9, pc' = pc PROVE Coming(todo', sync', store')
  <2>0. Coming(todo, sync, store)
    BY <1>1, <1>2, <1>5 DEF Synced
  <2>1. CASE ~Live
    <3>1. ~SyncOnce /\ ~StartLiveSync
      BY <1>5 DEF SyncOnce, StartLiveSync
    <3>2. todo' = todo /\ sync' = sync
      BY <2>1, <3>1, Kinds DEF MainDocs, AllowSync, Await, AwaitTimesOut, SyncOnceReturns,
         Check, Find, StoreCalls, WriteBlob, NewBlob, Commit, SetTag, CloseTempTag, Reopen, Download, Counted,
         Delete, GCReturns, Put, Rest, Expire, StartLiveSyncFails, StoreFails, Kill, Finish, Close,
         Rerun, docVars, vars
    <3> QED
      BY <1>4, <2>0, <3>2
  <2>2. CASE \E m \in Replicas \X Entries : Receive(m)
    <3>1. todo' = todo /\ sync' = sync
      BY <2>2 DEF Receive
    <3> QED
      BY <1>4, <2>0, <3>1
  <2>3. CASE \E r \in Replicas : NeighborUp(r)
    <3>1. sync' = sync /\ (todo["bob"] => todo'["bob"])
      BY <1>3, <2>3 DEF NeighborUp
    <3> QED
      BY <1>4, <2>0, <3>1
  <2>4. CASE Ask("alice") \/ Answer("alice") \/ Apply("alice")
    <3>1. todo'["bob"] = todo["bob"] /\ sync'["bob"] = sync["bob"]
      BY <1>1, <1>3, <2>4 DEF Ask, Answer, Apply
    <3> QED
      BY <1>4, <2>0, <3>1
  <2>5. CASE \E r \in Replicas : Break(r)
    BY <2>5 DEF Break
  <2>6. CASE Ask("bob")
    <3>1. sync'["bob"].phase = "asked"
      BY <1>1, <1>3, <2>6 DEF Ask
    <3> QED
      BY <3>1
  <2>7. CASE Answer("bob")
    <3>1. sync["bob"] # Idle
      BY <2>7 DEF Answer, Idle
    <3>2. allowed[Other("bob")]
      BY <1>1, <3>1 DEF Admitted
    <3>3. sync'["bob"].phase = "answered" /\ sync'["bob"].sent = store["alice"]
      BY <1>1, <1>3, <2>7, <3>2 DEF Answer
    <3>4. HasCoffee(store["alice"])
      <4>1. Written = WrittenBy("docs_sync", 9)
        BY <1>1, <1>5 DEF Written, WrittenBy
      <4>2. Coffee \in Written
        BY <4>1, SyncWrites
      <4>3. PICK f \in store["alice"] : f = Coffee \/ Newer(f, Coffee)
        BY <4>2, EntryFacts DEF WritesSurvive
      <4> QED
        BY <4>3, EntryFacts DEF HasCoffee, Newer
    <3> QED
      BY <3>3, <3>4
  <2>8. CASE Apply("bob")
    <3>1. sync["bob"].phase = "answered" /\ todo' = todo /\ TakeIn("bob", sync["bob"].sent)
      BY <2>8 DEF Apply
    <3>2. sync["bob"].sent \in SUBSET Entries /\ store["bob"] \in SUBSET Entries
      BY <1>1, <1>3 DEF Idle
    <3>3. store'["bob"] = Merge(store["bob"], sync["bob"].sent)
      BY <1>1, <3>1, <3>2, TakenIn
    <3>4. HasCoffee(sync["bob"].sent) => HasCoffee(store'["bob"])
      BY <3>2, <3>3, MergeKeepsCoffee
    <3> QED
      BY <1>4, <2>0, <3>1, <3>4
  <2> QED
    BY <2>1, <2>2, <2>3, <2>4, <2>5, <2>6, <2>7, <2>8 DEF Live, Replicas
<1>6. CASE pc' = pc
  BY <1>1, <1>2, <1>4, <1>5, <1>6 DEF Synced
<1>7. CASE Advance
  <2>1. pc \in 1..14 /\ pc' = pc + 1
    BY <1>1, <1>7, Scripts, SyncCalls DEF Advance
  <2>2. CASE pc = 8
    <3>1. Script(prog)[pc].op = "sync" /\ Who = "bob"
      BY <1>1, <2>2, Scripts, SyncCalls DEF Do, Who
    <3>2. SyncOnce
      BY <1>7, <3>1, AdvanceIs
    <3>3. todo'["bob"]
      BY <1>1, <1>3, <3>1, <3>2 DEF SyncOnce
    <3> QED
      BY <2>1, <2>2, <3>3
  <2>3. CASE pc = 9
    <3>1. Script(prog)[pc].op = "synced" /\ Who = "bob"
      BY <1>1, <2>3, Scripts, SyncCalls DEF Do, Who
    <3>2. SyncOnceReturns
      BY <1>7, <3>1, AdvanceIs
    <3>3. ~todo["bob"] /\ sync["bob"] = Idle
      BY <3>1, <3>2 DEF SyncOnceReturns
    <3>4. HasCoffee(store["bob"])
      BY <1>1, <1>2, <2>3, <3>3 DEF Synced, Idle
    <3> QED
      BY <1>4, <2>1, <2>3, <3>4
  <2>4. CASE pc \notin {8, 9}
    BY <1>1, <1>2, <1>4, <2>1, <2>4 DEF Synced
  <2> QED
    BY <2>2, <2>3, <2>4
<1> QED
  BY <1>1, <1>6, <1>7, MainMoves

\* Where each call of blobs_store is made, and with what.
LEMMA BlobsStoreAt ==
  ASSUME Shapes, prog = "blobs_store", NEW op, At(op)
  PROVE  /\ pc \in 1..10 /\ outcome = "running" /\ Who = "alice"
         /\ op = "commit" => pc = 1 /\ Arg = Keep
         /\ op = "tag" => (pc = 2 /\ Arg = Keep) \/ (pc = 7 /\ Arg = Remote)
         /\ op = "write" => pc = 3 /\ Arg = Scratch
         /\ op = "untemp" => (pc = 4 /\ Arg = Keep) \/ (pc = 9 /\ Arg = Remote)
         /\ op = "reopen" => pc = 5 /\ Arg = Keep
         /\ op = "download" => pc = 6 /\ Arg = Remote
         /\ op = "counted" => pc = 8
         /\ op = "gc" => pc = 10
<1>1. pc \in 1..10 /\ BlobsStoreScript[pc].op = op /\ outcome = "running"
  BY AtIs, Scripts, BlobsStoreCalls
<1>2. Who = BlobsStoreScript[pc].who /\ Arg = BlobsStoreScript[pc].arg
  BY Scripts DEF Who, Arg
<1> QED
  BY <1>1, <1>2, BlobsStoreOps, BlobsStoreCalls DEF Do

\* Each call of blobs_store finds what the calls before it left.
LEMMA StoredKept ==
  ASSUME Shapes, Stored, [Next]_vars
  PROVE  Stored'
<1> SUFFICES ASSUME prog' = "blobs_store" PROVE Stored'
  BY DEF Stored
<1>1. prog = "blobs_store" /\ "alice" \in Replicas /\ "bob" \in Replicas
  BY MainMoves DEF Replicas
<1> DEFINE d == blobs["alice"].data
           m == blobs["alice"].temp
           t == blobs["alice"].tags
           Is(D, M, T, o, p, k, a) ==
             /\ T \subseteq {Keep, Remote} /\ T \subseteq D
             /\ M = IF o = "running" /\ p \in 2..4 THEN {Keep}
                    ELSE IF o = "running" /\ p \in 7..9 THEN {Remote} ELSE {}
             /\ o = "running" =>
                  /\ p > 1 => Keep \in D
                  /\ p > 2 => Keep \in T
                  /\ p > 6 => Remote \in D
                  /\ p > 7 => Remote \in T
                  /\ k = 1 /\ p <= 6 => Remote \notin D
                  /\ k = 1 /\ p > 6 => a
             /\ o = "ok" \/ (o = "running" /\ p = 11) => D = {Keep, Remote} /\ T = {Keep, Remote}
<1>2. Is(d, m, t, outcome, pc, runs, asked) /\ blobs["bob"].tags = {}
  BY <1>1 DEF Stored
<1>3. SUFFICES Is(d', m', t', outcome', pc', runs', asked') /\ blobs'["bob"].tags = {}
  BY DEF Stored
<1>4. Keep # Scratch /\ Keep # Remote /\ Remote # Scratch
  BY DEF Keep, Scratch, Remote
<1>5. \A op : At(op) => pc \in 1..10 /\ outcome = "running" /\ Who = "alice"
  BY <1>1, BlobsStoreAt
<1>6. CASE StoreCalls \/ StoreFails
  <2>1. Who = "alice" /\ outcome = "running" /\ pc \in 1..10
    BY <1>5, <1>6 DEF StoreCalls, WriteBlob, NewBlob, Commit, SetTag, CloseTempTag, Reopen, Download, Counted,
       Delete, GCReturns, StoreFails
  <2>2. blobs'["bob"].tags = {}
    BY <1>1, <1>2, <1>6, <2>1, CallsOnStores
  <2>3. CASE Commit
    <3>1. pc = 1 /\ Arg = Keep
      BY <1>1, <2>3, BlobsStoreAt DEF Commit
    <3>2. d' = d \cup {Keep} /\ m' = m \cup {Keep} /\ t' = t
      BY <1>6, <2>1, <2>3, <3>1, CallsOnStores
    <3>3. pc' = 2 /\ outcome' = "running" /\ runs' = runs
      BY <2>1, <2>3, <3>1 DEF Commit
    <3> QED
      BY <1>2, <1>4, <2>1, <2>2, <3>1, <3>2, <3>3
  <2>4. CASE SetTag
    <3>1. (pc = 2 /\ Arg = Keep) \/ (pc = 7 /\ Arg = Remote)
      BY <1>1, <2>4, BlobsStoreAt DEF SetTag
    <3>2. d' = d /\ m' = m /\ t' = t \cup {Arg}
      BY <1>6, <2>1, <2>4, CallsOnStores
    <3>3. pc' = pc + 1 /\ outcome' = "running" /\ runs' = runs /\ asked' = asked
      BY <2>1, <2>4 DEF SetTag
    <3> QED
      BY <1>2, <1>4, <2>1, <2>2, <3>1, <3>2, <3>3
  <2>5. CASE WriteBlob
    <3>1. pc = 3 /\ Arg = Scratch
      BY <1>1, <2>5, BlobsStoreAt DEF WriteBlob
    <3>2. d' = d \cup {Scratch} /\ m' = m /\ t' = t
      BY <1>6, <2>1, <2>5, <3>1, CallsOnStores
    <3>3. pc' = 4 /\ outcome' = "running" /\ runs' = runs
      BY <2>1, <2>5, <3>1 DEF WriteBlob
    <3> QED
      BY <1>2, <1>4, <2>1, <2>2, <3>1, <3>2, <3>3
  <2>6. CASE CloseTempTag
    <3>1. (pc = 4 /\ Arg = Keep) \/ (pc = 9 /\ Arg = Remote)
      BY <1>1, <2>6, BlobsStoreAt DEF CloseTempTag
    <3>2. d' = d /\ m' = m \ {Arg} /\ t' = t
      BY <1>6, <2>1, <2>6, CallsOnStores
    <3>3. pc' = pc + 1 /\ outcome' = "running" /\ runs' = runs /\ asked' = asked
      BY <2>1, <2>6 DEF CloseTempTag
    <3> QED
      BY <1>2, <1>4, <2>1, <2>2, <3>1, <3>2, <3>3
  <2>7. CASE Reopen
    <3>1. pc = 5
      BY <1>1, <2>7, BlobsStoreAt DEF Reopen
    <3>2. d' = d /\ m' = m /\ t' = t
      BY <1>6, <2>7, CallsOnStores
    <3>3. /\ (pc' = 6 /\ outcome' = "running") \/ (pc' = 5 /\ outcome' = "failed")
          /\ runs' = runs /\ asked' = asked
      BY <2>1, <2>7, <3>1 DEF Reopen, blobVars
    <3> QED
      BY <1>2, <1>4, <2>1, <2>2, <3>1, <3>2, <3>3
  <2>8. CASE Download
    <3>1. pc = 6 /\ Arg = Remote
      BY <1>1, <2>8, BlobsStoreAt DEF Download
    <3>2. d' = d \cup {Remote} /\ m' = m \cup {Remote} /\ t' = t
      BY <1>6, <2>1, <2>8, <3>1, CallsOnStores
    <3>3. pc' = 7 /\ outcome' = "running" /\ runs' = runs
      BY <2>1, <2>8, <3>1 DEF Download
    <3>4. Remote \notin d => asked' = TRUE
      <4>1. asked' \in IF Remote \in d THEN BOOLEAN ELSE {TRUE}
        BY <2>1, <2>8, <3>1 DEF Download
      <4> QED
        BY <4>1
    <3> QED
      BY <1>2, <1>4, <2>1, <2>2, <3>1, <3>2, <3>3, <3>4
  <2>9. CASE Counted
    <3>1. pc = 8
      BY <1>1, <2>9, BlobsStoreAt DEF Counted
    <3>2. d' = d /\ m' = (IF asked THEN m ELSE {}) /\ t' = t
      BY <1>6, <2>1, <2>9, CallsOnStores
    <3>3. /\ runs' = runs /\ asked' = asked
          /\ IF asked THEN pc' = 9 /\ outcome' = "running" ELSE pc' = 8 /\ outcome' = "failed"
      BY <2>1, <2>9, <3>1 DEF Counted
    <3> QED
      BY <1>2, <1>4, <2>1, <2>2, <3>1, <3>2, <3>3
  <2>10. CASE Delete
    <3>1. pc = 10
      BY <1>1, <2>10, BlobsStoreAt DEF Delete
    <3>2. m' = m /\ t' = t /\ \E h \in d \ (m \cup t) : d' = d \ {h}
      BY <1>6, <2>1, <2>10, CallsOnStores DEF Unnamed
    <3>3. pc' = 10 /\ outcome' = "running" /\ runs' = runs /\ asked' = asked
      BY <2>1, <2>10, <3>1 DEF Delete
    <3> QED
      BY <1>2, <1>4, <2>1, <2>2, <3>1, <3>2, <3>3
  <2>11. CASE GCReturns
    <3>1. pc = 10
      BY <1>1, <2>11, BlobsStoreAt DEF GCReturns
    <3>2. d' = d /\ m' = m /\ t' = t /\ d \ (m \cup t) = {}
      BY <1>6, <2>1, <2>11, CallsOnStores DEF Unnamed, GCReturns
    <3>3. pc' = 11 /\ outcome' = "running" /\ runs' = runs /\ asked' = asked
      BY <2>1, <2>11, <3>1 DEF GCReturns, blobVars
    <3> QED
      BY <1>2, <1>4, <2>1, <2>2, <3>1, <3>2, <3>3
  <2>12. CASE StoreFails
    <3>1. d' = d /\ m' = {} /\ t' = t /\ outcome' = "failed"
      BY <1>6, <2>1, <2>12, CallsOnStores DEF StoreFails
    <3> QED
      BY <1>2, <2>2, <3>1
  <2>13. CASE NewBlob
    <3>1. d' = d /\ m' = m /\ t' = t
      BY <1>6, <2>13, CallsOnStores
    <3>2. UNCHANGED <<outcome, pc, runs, asked>>
      BY <2>13 DEF NewBlob
    <3> QED
      BY <1>2, <2>2, <3>1, <3>2
  <2> QED
    BY <1>6, <2>3, <2>4, <2>5, <2>6, <2>7, <2>8, <2>9, <2>10, <2>11, <2>12, <2>13 DEF StoreCalls
<1>7. CASE Kill
  <2>1. d' = d /\ m' = {} /\ t' = t /\ blobs'["bob"].tags = {}
    BY <1>1, <1>2, <1>7, TempTagsDie
  <2>2. outcome' = "killed"
    BY <1>7 DEF Kill
  <2> QED
    BY <1>2, <2>1, <2>2
<1>8. CASE Rerun
  <2>1. blobs' = blobs /\ outcome # "running" /\ outcome' = "running" /\ pc' = 1 /\ runs' = runs + 1
    BY <1>8 DEF Rerun
  <2>2. runs' # 1
    BY <2>1, DocumentsAssumption DEF Shapes
  <2> QED
    BY <1>2, <2>1, <2>2
<1>9. CASE Finish
  <2>1. blobs' = blobs /\ outcome = "running" /\ outcome' = "ok"
    BY <1>9 DEF Finish, blobVars
  <2>2. Len(Script(prog)) = 10 /\ pc > Len(Script(prog))
    BY <1>1, <1>9, Scripts, BlobsStoreCalls DEF Finish
  <2>3. pc = 11
    BY <2>2 DEF Shapes
  <2> QED
    BY <1>2, <2>1, <2>3
<1>11. ~StartLiveSyncFails
  BY <1>1, BlobsStoreAt, AtIs, Scripts, BlobsStoreCalls, BlobsStoreOps DEF StartLiveSyncFails
<1>10. CASE Expire \/ (\E r \in Replicas : Close(r)) \/ UNCHANGED vars
  <2>1. UNCHANGED <<blobs, outcome, pc, runs, asked>>
    BY <1>10 DEF Expire, Close, blobVars, vars
  <2> QED
    BY <1>2, <2>1
<1> QED
  BY <1>1, <1>6, <1>7, <1>8, <1>9, <1>10, <1>11, Kinds, NoDocuments DEF Rest

\* Commit, a failure that closes the BlobWriter or a kill ends what NewBlob began.
LEMMA PartsKept ==
  ASSUME Shapes, Parts, [Next]_vars
  PROVE  Parts'
<1> SUFFICES ASSUME runs' \in parts' PROVE outcome' = "killed" \/ At("commit")'
  BY DEF Parts
<1>0. Len(Script(prog)) \in 10..14
  BY Scripts DEF Shapes
<1>1. ASSUME NEW op, At(op), op # "commit", UNCHANGED <<parts, runs>> PROVE FALSE
  BY <1>1 DEF At, AtCall, Parts
<1>2. CASE Put \/ MainDocs
  BY <1>1, <1>2 DEF Put, MainDocs, AllowSync, StartLiveSync, Await, AwaitTimesOut, SyncOnce, SyncOnceReturns,
     Check, Find, blobVars
<1>3. CASE StoreCalls /\ ~NewBlob /\ ~Commit
  BY <1>1, <1>3 DEF StoreCalls, WriteBlob, SetTag, CloseTempTag, Reopen, Download, Counted, Delete, GCReturns,
     blobVars
<1>4. CASE NewBlob
  BY <1>4 DEF NewBlob, At, AtCall
<1>5. ~Commit /\ ~StoreFails
  BY DEF Commit, StoreFails
<1>6. CASE Live \/ Expire \/ (\E r \in Replicas : Close(r)) \/ UNCHANGED vars
  <2>1. UNCHANGED <<parts, runs, prog, pc, outcome>>
    BY <1>6 DEF Live, NeighborUp, Ask, Answer, Apply, Break, Receive, Expire, Close, vars, blobVars
  <2> QED
    BY <2>1 DEF Parts, At, AtCall
<1>7. CASE Kill
  BY <1>7 DEF Kill
<1>8. ~StartLiveSyncFails
  BY <1>1 DEF StartLiveSyncFails, blobVars
<1>9. ~Finish
  BY <1>0 DEF Finish, blobVars, Parts, At, AtCall, Shapes
<1>10. ~Rerun
  BY DEF Rerun, Shapes
<1> QED
  BY <1>2, <1>3, <1>4, <1>5, <1>6, <1>7, <1>8, <1>9, <1>10, Kinds DEF Rest

\* At the end of docs_live_sync both replicas hold the three entries, and the
\* file loads to them.
LEMMA AllReceived ==
  ASSUME Shapes, OnlyWritten, WritesSurvive, Awaited, prog = "docs_live_sync", pc = 14
  PROVE  store["alice"] = store["bob"] /\ Merge({}, file) = store["bob"]
<1>1. Written = WrittenBy("docs_live_sync", 14) /\ "alice" \in Replicas /\ "bob" \in Replicas
  BY DEF Written, WrittenBy, Replicas
<1>2. \A e : e \in Written <=> e \in {Before, After, Reply}
  BY <1>1, LiveSyncWrites
<1>3. /\ store["alice"] \subseteq {Before, After, Reply} /\ store["bob"] \subseteq {Before, After, Reply}
      /\ {Before, After, Reply} \subseteq store["alice"] /\ {Before, After} \subseteq store["bob"]
      /\ file = store["bob"]
  BY <1>1, <1>2 DEF OnlyWritten, Awaited
<1>4. Reply \in store["bob"]
  <2>1. PICK f \in store["bob"] : f = Reply \/ Newer(f, Reply)
    BY <1>2, EntryFacts DEF WritesSurvive
  <2>2. f \in Entries /\ Reply \in Entries /\ Reply # Coffee
    BY <1>3, <2>1, EntryFacts
  <2> QED
    BY <2>1, <2>2, EntryFacts
<1>5. store["alice"] = {Before, After, Reply} /\ store["bob"] = {Before, After, Reply}
  BY <1>3, <1>4
<1>6. {} \in SUBSET Entries /\ file \in SUBSET Entries /\ ColdBrew \notin {} \cup file
  BY <1>3, <1>5, EntryFacts
<1>7. Merge({}, file) = {} \cup file
  BY <1>6, MergeKeeps
<1> QED
  BY <1>3, <1>5, <1>7

\* Each check of run that fails has a cause on record.
LEMMA NoFalseAlarmKept ==
  ASSUME Shapes, OnlyWritten, WritesSurvive, Awaited, Synced, Stored, NoFalseAlarm, [Next]_vars
  PROVE  NoFalseAlarm'
<1> SUFFICES ASSUME outcome' = "failed"
             PROVE  expired' \/ broken' \/ (AtCall("counted")' /\ runs' > 1)
  BY DEF NoFalseAlarm
<1>1. ~Rerun /\ ~Advance /\ prog' = prog /\ pc' = pc
  BY MainMoves DEF Rerun, Advance
<1>2. (broken => broken') /\ (expired => expired') /\ runs' = runs /\ AtCall("counted")' = AtCall("counted")
  BY <1>1, RecordsStay DEF AtCall
<1>3. CASE outcome = "failed"
  BY <1>2, <1>3 DEF NoFalseAlarm
<1>4. CASE outcome # "failed" /\ Put
  <2>1. pc \in 1..Len(Script(prog)) /\ Script(prog)[pc].op = "put"
    BY <1>4, AtIs DEF Put
  <2>2. Written = WrittenBy(prog, pc)
    BY DEF Written, WrittenBy
  <2>3. Who \in Replicas /\ \A f \in Written : f # Arg /\ ~Newer(f, Arg)
    BY <2>1, <2>2, PutsAreNew DEF Who, Arg, Shapes
  <2>4. \A f \in store[Who] : f # Arg /\ ~Newer(f, Arg)
    BY <2>3 DEF OnlyWritten
  <2>5. outcome' = outcome
    BY <1>4, <2>4 DEF Put
  <2> QED
    BY <1>4, <2>5
<1>5. CASE outcome # "failed" /\ MainDocs
  <2>0. \A op : At(op) => /\ pc \in 1..Len(Script(prog)) /\ prog \in Programs /\ Script(prog)[pc].op = op
                          /\ outcome = "running"
    BY AtIs
  <2>1. ~AllowSync /\ ~StartLiveSync /\ ~Await /\ ~SyncOnce
    BY <1>5 DEF AllowSync, StartLiveSync, Await, SyncOnce
  <2>2. CASE AwaitTimesOut
    BY <1>2, <2>2 DEF AwaitTimesOut
  <2>3. CASE SyncOnceReturns
    BY <1>2, <1>5, <2>3 DEF SyncOnceReturns
  <2>4. CASE Check
    <3>1. pc \in 1..Len(Script(prog)) /\ Script(prog)[pc].op = "check"
      BY <2>0, <2>4 DEF Check
    <3>2. prog = "docs_live_sync"
      <4>1. prog # "docs_sync"
        <5> SUFFICES ASSUME prog = "docs_sync" PROVE FALSE
          OBVIOUS
        <5>1. pc \in 1..14 /\ SyncScript[pc].op = Script(prog)[pc].op
          BY <3>1, Scripts, SyncCalls
        <5> QED
          BY <3>1, <5>1, SyncOps
      <4>2. prog # "blobs_store"
        BY <3>1, Scripts, BlobsStoreCalls, BlobsStoreOps
      <4> QED
        BY <4>1, <4>2 DEF Shapes, Programs
    <3>3. pc = 14
      BY <3>1, <3>2, Scripts, LiveSyncCalls, LiveSyncOps
    <3> QED
      BY <1>5, <2>4, <3>2, <3>3, AllReceived DEF Check
  <2>5. CASE Find
    <3>1. pc \in 1..Len(Script(prog)) /\ Script(prog)[pc].op = "find" /\ outcome = "running"
      BY <2>0, <2>5 DEF Find
    <3>2. prog = "docs_sync"
      <4>1. prog # "docs_live_sync"
        <5> SUFFICES ASSUME prog = "docs_live_sync" PROVE FALSE
          OBVIOUS
        <5>1. pc \in 1..14 /\ LiveSyncScript[pc].op = Script(prog)[pc].op
          BY <3>1, Scripts, LiveSyncCalls
        <5> QED
          BY <3>1, <5>1, LiveSyncOps
      <4>2. prog # "blobs_store"
        BY <3>1, Scripts, BlobsStoreCalls, BlobsStoreOps
      <4> QED
        BY <4>1, <4>2 DEF Shapes, Programs
    <3>3. pc = 14
      BY <3>1, <3>2, Scripts, SyncCalls, SyncOps
    <3>4. Who = "bob" /\ Arg.author = "alice" /\ Arg.key = "menu/coffee"
      BY <3>2, <3>3, Scripts, SyncCalls, EntryFacts DEF Who, Arg, Do
    <3>5. CASE ~broken
      <4>1. HasCoffee(store["bob"])
        BY <3>1, <3>2, <3>3, <3>5 DEF Synced
      <4> QED
        BY <1>5, <2>5, <3>4, <4>1 DEF Find, HasCoffee
    <3> QED
      BY <1>2, <3>5
  <2> QED
    BY <1>5, <2>1, <2>2, <2>3, <2>4, <2>5 DEF MainDocs
<1>6. CASE outcome # "failed" /\ StoreCalls
  <2>1. ~WriteBlob /\ ~NewBlob /\ ~Commit /\ ~SetTag /\ ~CloseTempTag /\ ~Download /\ ~Delete /\ ~GCReturns
    BY <1>6 DEF WriteBlob, NewBlob, Commit, SetTag, CloseTempTag, Download, Delete, GCReturns
  <2>2. ASSUME NEW op \in {"reopen", "counted"}, At(op) PROVE prog = "blobs_store"
    <3>1. pc \in 1..Len(Script(prog)) /\ Script(prog)[pc].op = op
      BY <2>2, AtIs
    <3>2. prog \notin Docs
      BY <3>1, DocCalls
    <3> QED
      BY <3>2 DEF Docs, Shapes, Programs
  <2>3. CASE Reopen
    <3>1. prog = "blobs_store" /\ At("reopen")
      BY <2>2, <2>3 DEF Reopen
    <3>2. pc = 5 /\ Arg = Keep /\ Who = "alice" /\ outcome = "running"
      BY <3>1, BlobsStoreAt
    <3>3. Arg \in blobs[Who].tags \cap blobs[Who].data
      BY <3>1, <3>2 DEF Stored
    <3> QED
      BY <1>6, <2>3, <3>3 DEF Reopen
  <2>4. CASE Counted
    <3>1. prog = "blobs_store" /\ At("counted") /\ AtCall("counted")
      BY <2>2, <2>4 DEF Counted, At
    <3>2. pc = 8 /\ outcome = "running"
      BY <3>1, BlobsStoreAt
    <3>3. ~asked
      BY <1>6, <2>4 DEF Counted
    <3>4. runs # 1
      BY <3>1, <3>2, <3>3 DEF Stored
    <3>5. runs > 1
      BY <3>4, DocumentsAssumption DEF Shapes
    <3> QED
      BY <1>2, <3>1, <3>5
  <2> QED
    BY <1>6, <2>1, <2>3, <2>4 DEF StoreCalls
<1>7. CASE outcome # "failed" /\ (Live \/ Rest \/ UNCHANGED vars)
  <2>1. StoreFails \/ StartLiveSyncFails
    BY <1>7 DEF Live, NeighborUp, Ask, Answer, Apply, Break, Receive, Rest, Expire, Kill, Finish, Close, vars
  <2> QED
    BY <2>1 DEF StoreFails, StartLiveSyncFails
<1> QED
  BY <1>1, <1>3, <1>4, <1>5, <1>6, <1>7, Kinds

-----------------------------------------------------------------------------
(* The theorems.                                                           *)

\* The invariant holds when a program starts,
LEMMA InitInv == Init => Inv
<1> SUFFICES ASSUME Init PROVE Inv
  OBVIOUS
<1>0. prog \in Programs /\ pc = 1 /\ Len(Script(prog)) \in 10..14
  BY Scripts DEF Init
<1>1. Written = {}
  BY <1>0 DEF Written
<1>2. Shapes
  <2>1. blobs = [r \in Replicas |->
                  [data |-> blobs[r].data, temp |-> blobs[r].temp, tags |-> blobs[r].tags]]
    BY DEF Init
  <2>2. pc \in 1..(Len(Script(prog)) + 1) /\ runs \in 1..MaxRuns
    BY <1>0, DocumentsAssumption DEF Init
  <2>3. sync \in [Replicas -> {Idle} \cup [phase : {"asked", "answered"}, sent : SUBSET Entries]]
    BY DEF Init
  <2>4. prog = "blobs_store" =>
          \A r \in Replicas : /\ store[r] = {} /\ sync[r] = Idle /\ gossip = {}
                              /\ ~live[r] /\ ~todo[r]
    BY DEF Init
  <2>5. /\ outcome \in {"running", "ok", "failed", "killed"}
        /\ store \in [Replicas -> SUBSET Entries] /\ file \in SUBSET Entries
        /\ allowed \in [Replicas -> BOOLEAN] /\ live \in [Replicas -> BOOLEAN]
        /\ neighbor \in [Replicas -> BOOLEAN] /\ todo \in [Replicas -> BOOLEAN]
        /\ gossip \subseteq (Replicas \X Entries)
        /\ expired \in BOOLEAN /\ broken \in BOOLEAN /\ refused \in BOOLEAN /\ asked \in BOOLEAN
        /\ parts \subseteq 1..runs
    BY DEF Init
  <2> QED
    BY <1>0, <2>1, <2>2, <2>3, <2>4, <2>5 DEF Shapes
<1>3. OnlyWritten /\ OneEach /\ WritesSurvive
  BY <1>1 DEF Init, OnlyWritten, OneEach, WritesSurvive, Idle
<1>4. Content
  BY <1>0 DEF Init, Content
<1>5. Admitted
  BY <1>0 DEF Init, Admitted
<1>6. Awaited /\ Synced /\ NoFalseAlarm
  BY <1>0, OtherReplica DEF Init, Awaited, Synced, NoFalseAlarm
<1>7. Stored /\ Parts
  BY <1>0, OtherReplica DEF Init, Stored, Parts
<1> QED
  BY <1>2, <1>3, <1>4, <1>5, <1>6, <1>7 DEF Inv

\* every step keeps it,
LEMMA InvKept == Inv /\ [Next]_vars => Inv'
BY ShapesKept, OnlyWrittenKept, OneEachKept, WritesSurviveKept, ContentKept, AdmittedKept,
   AwaitedKept, SyncedKept, StoredKept, PartsKept, NoFalseAlarmKept DEF Inv

\* and so it holds always.
LEMMA InvHolds == Spec => []Inv
BY InitInv, InvKept, PTL DEF Spec

\* Types, for any number of runs over one directory: whatever the order of
\* puts, broadcasts and reconciliations, stores, file and messages hold only
\* what replica.put has written, and a store one entry per author and key.
THEOREM DocumentsTypes == Spec => []TypeOK
<1>1. Inv => TypeOK
  <2> SUFFICES ASSUME Inv PROVE TypeOK
    OBVIOUS
  <2>1. Shapes /\ OnlyWritten /\ OneEach
    BY DEF Inv
  <2>2. \A r \in Replicas : sync[r].phase \in {"none", "asked", "answered"}
    BY <2>1 DEF Shapes, Idle
  <2>3. gossip \subseteq (Replicas \X Written)
    BY <2>1 DEF Shapes, OnlyWritten
  <2>4. ASSUME NEW r \in Replicas PROVE DOMAIN blobs[r] = {"data", "temp", "tags"}
    <3>1. blobs[r] = [data |-> blobs[r].data, temp |-> blobs[r].temp, tags |-> blobs[r].tags]
      BY <2>1 DEF Shapes
    <3>2. PICK d, m, t : blobs[r] = [data |-> d, temp |-> m, tags |-> t]
      BY <3>1
    <3> QED
      BY <3>2
  <2> QED
    BY <2>1, <2>2, <2>3, <2>4 DEF TypeOK, Shapes, OnlyWritten, OneEach
<1> QED
  BY <1>1, InvHolds, PTL

\* replica.await counts entries: when it returns, the replica holds each one
\* that main has put by then.
THEOREM AwaitReceivesAll == Spec => []AwaitedMeansReceived
<1>1. Inv => AwaitedMeansReceived
  <2> SUFFICES ASSUME Inv, NEW i \in 1..(pc - 1), Script(prog)[i].op = "await",
                      NEW j \in 1..i, Script(prog)[j].op = "put"
               PROVE  Script(prog)[j].arg \in store[Script(prog)[i].who]
    BY DEF AwaitedMeansReceived
  <2>0. Shapes /\ Awaited
    BY DEF Inv
  <2>1. Len(Script(prog)) \in 10..14
    BY <2>0, Scripts DEF Shapes
  <2>2. i \in 1..Len(Script(prog)) /\ j \in 1..Len(Script(prog)) /\ pc > i /\ i >= j
    BY <2>0, <2>1 DEF Shapes
  <2>3. prog = "docs_live_sync"
    <3>1. CASE prog = "docs_sync"
      <4>1. i \in 1..14 /\ SyncScript[i].op = "await"
        BY <2>2, <3>1, Scripts, SyncCalls
      <4> QED
        BY <4>1, SyncOps
    <3>2. CASE prog = "blobs_store"
      <4>1. i \in 1..10 /\ BlobsStoreScript[i].op = "await"
        BY <2>2, <3>2, Scripts, BlobsStoreCalls
      <4> QED
        BY <4>1, BlobsStoreOps
    <3> QED
      BY <2>0, <3>1, <3>2 DEF Shapes, Programs
  <2>4. i \in 1..14 /\ j \in 1..14 /\ Script(prog) = LiveSyncScript
    BY <2>2, <2>3, Scripts, LiveSyncCalls
  <2>5. i \in {7, 10, 13} /\ j \in {2, 9, 12}
    BY <2>4, LiveSyncOps
  <2>6. \/ i = 7 /\ j = 2
        \/ i = 10 /\ j \in {2, 9}
        \/ i = 13
    BY <2>2, <2>5
  <2>7. /\ i = 7 => LiveSyncScript[i].who = "bob"
        /\ i = 10 => LiveSyncScript[i].who = "bob"
        /\ i = 13 => LiveSyncScript[i].who = "alice"
        /\ j = 2 => LiveSyncScript[j].arg = Before
        /\ j = 9 => LiveSyncScript[j].arg = After
        /\ j = 12 => LiveSyncScript[j].arg = Reply
    BY LiveSyncCalls DEF Do
  <2>8. /\ pc > 7 => Before \in store["bob"]
        /\ pc > 10 => Before \in store["bob"] /\ After \in store["bob"]
        /\ pc > 13 => {Before, After, Reply} \subseteq store["alice"]
    BY <2>0, <2>3 DEF Awaited, Shapes
  <2> QED
    BY <2>2, <2>4, <2>5, <2>6, <2>7, <2>8
<1> QED
  BY <1>1, InvHolds, PTL

\* run of the three programs fails only when its deadline passed, the network
\* or the disk failed it, or a rerun of blobs_store downloads nothing new: no
\* check of run (fingerprints, the loaded file, the found update, the reopened
\* store) raises a false alarm, however often blobs_store was run before.
THEOREM ChecksAreRight == Spec => []NoFalseAlarm
<1>1. Inv => NoFalseAlarm
  BY DEF Inv
<1> QED
  BY <1>1, InvHolds, PTL

\* startLiveSync publishes to allowSync before it joins: no reconciliation is
\* refused while run is under way.
THEOREM NobodyIsRefused == Spec => []NoNeighborRefused
<1>1. Inv => NoNeighborRefused
  BY DEF Inv, Admitted, NoNeighborRefused
<1> QED
  BY <1>1, InvHolds, PTL

\* A persistent tag names a blob of its store over any number of kills, reruns
\* and collections, and an entry in any store names content its author has.
THEOREM NamesAreHeld == Spec => []NamedIsHeld
<1>1. Inv => NamedIsHeld
  <2> SUFFICES ASSUME Inv PROVE NamedIsHeld
    OBVIOUS
  <2>0. Shapes /\ OnlyWritten /\ Content /\ Stored
    BY DEF Inv
  <2>1. CASE prog = "blobs_store"
    <3>1. \A r \in Replicas : store[r] = {}
      BY <2>0, <2>1 DEF Shapes
    <3>2. blobs["alice"].tags \subseteq blobs["alice"].data /\ blobs["bob"].tags = {}
      BY <2>0, <2>1 DEF Stored
    <3> QED
      BY <3>1, <3>2, OtherReplica DEF NamedIsHeld
  <2>2. CASE prog \in Docs
    <3>1. \A r \in Replicas : blobs[r].tags = {}
      BY <2>0, <2>2 DEF Content
    <3>2. ASSUME NEW r \in Replicas, NEW e \in store[r] PROVE e \in blobs[e.author].data
      <4>1. e \in Written
        BY <2>0, <3>2 DEF OnlyWritten
      <4>2. PICK i \in 1..(pc - 1) : Script(prog)[i].op = "put" /\ e = Script(prog)[i].arg
        BY <4>1 DEF Written
      <4>3. Len(Script(prog)) \in 10..14 /\ prog \in Programs
        BY <2>0, Scripts DEF Shapes
      <4>4. i \in 1..Len(Script(prog))
        BY <2>0, <4>3 DEF Shapes
      <4>5. /\ i > 1 /\ e.author = Script(prog)[i].who
            /\ Script(prog)[i - 1].op = "write" /\ Script(prog)[i - 1].who = Script(prog)[i].who
            /\ Script(prog)[i - 1].arg = e
        BY <4>2, <4>3, <4>4, PutsAreNew
      <4>6. i - 1 \in 1..(pc - 1)
        BY <2>0, <4>5 DEF Shapes
      <4> QED
        BY <2>0, <2>2, <4>5, <4>6 DEF Content
    <3> QED
      BY <3>1, <3>2 DEF NamedIsHeld
  <2> QED
    BY <2>0, <2>1, <2>2 DEF Shapes, Programs, Docs
<1> QED
  BY <1>1, InvHolds, PTL

\* A run of blobs_store that succeeds leaves keepData and remoteData and nothing
\* else, whatever any number of killed and failed runs before it left behind.
THEOREM CollectedIsClean == Spec => []OnlyNamedStay
<1>1. Inv => OnlyNamedStay
  <2> SUFFICES ASSUME Inv, prog = "blobs_store", outcome = "ok"
               PROVE  blobs["alice"] = [data |-> {Keep, Remote}, temp |-> {}, tags |-> {Keep, Remote}]
    BY DEF OnlyNamedStay
  <2>1. Shapes /\ Stored
    BY DEF Inv
  <2>2. blobs["alice"] = [data |-> blobs["alice"].data, temp |-> blobs["alice"].temp,
                          tags |-> blobs["alice"].tags]
    BY <2>1, OtherReplica DEF Shapes
  <2>3. blobs["alice"].data = {Keep, Remote} /\ blobs["alice"].temp = {} /\ blobs["alice"].tags = {Keep, Remote}
    BY <2>1 DEF Stored
  <2> QED
    BY <2>2, <2>3
<1> QED
  BY <1>1, InvHolds, PTL

\* write of blobs_store, wherever it fails, closes the BlobWriter it opened: a run
\* that returned left no temporary file, whatever killed runs left before it.
THEOREM TempFilesGo == Spec => []NoTempFileLeft
<1>1. Inv => NoTempFileLeft
  BY DEF Inv, Parts, At, NoTempFileLeft
<1> QED
  BY <1>1, InvHolds, PTL

-----------------------------------------------------------------------------
(* The gateway: when the links of its index do lead to the entries they     *)
(* stand for, namely whenever the names of a collection are plain and all   *)
(* different.                                                              *)

CONSTANTS Hash, Space, Mark, Percent, Decoded, Name, Collections
VARIABLES entries, index, followed, reply

G == INSTANCE Gateway

\* What every request leaves true: the links read are the names as they are,
\* and a link that was followed was answered with its entry.
LinksAreNames ==
  /\ entries \in Collections
  /\ \A k \in DOMAIN index : k \in DOMAIN entries /\ index[k] = entries[k].name
  /\ G!LinksLeadToEntries

\* A name without a character of S is not cut off.
LEMMA NothingCut ==
  ASSUME NEW n, NEW S, \A i \in DOMAIN n : n[i] \notin S
  PROVE  G!before(n, S) = n
BY DEF G!before

\* A name without an escape is not decoded to another.
LEMMA NothingDecoded ==
  ASSUME NEW n, NEW m \in Nat, n = [i \in 1..m |-> n[i]], \A i \in DOMAIN n : n[i] \notin DOMAIN Decoded
  PROVE  G!unescape(n) = n
BY DEF G!unescape

\* serveEntry finds the entry of a name that only one entry has.
LEMMA OneOfThatName ==
  ASSUME NEW k \in DOMAIN entries, NEW n \in Nat, DOMAIN entries = 1..n, G!Linkable(entries)
  PROVE  G!serveEntry("root", entries[k].name) = {G!BadGateway, G!Body(<<"entry", entries[k].hash>>)}
<1> DEFINE First(i) == /\ entries[i].name = entries[k].name
                       /\ \A j \in 1..(i - 1) : entries[j].name # entries[k].name
<1>1. First(k)
  BY DEF G!Linkable
<1>2. \A i \in DOMAIN entries : First(i) => i = k
  BY DEF G!Linkable
<1>3. (CHOOSE i \in DOMAIN entries : First(i)) = k
  <2> HIDE DEF First
  <2> QED  BY <1>1, <1>2
<1> QED
  BY <1>3 DEF G!serveEntry

\* "linking each to the ticket route that serves it": from any collection whose
\* entries have plain names, all different, every link of the index that the
\* gateway serves is answered with the blob of the entry it stands for.
THEOREM PlainNamesAreLinked ==
  ASSUME NEW Char, Name \subseteq Seq(Char),
         Collections \subseteq Seq([name : Name, hash : Hash]),
         \A c \in Collections : G!Linkable(c)
  PROVE  G!Spec => []G!LinksLeadToEntries
<1>1. G!Init => LinksAreNames
  BY DEF G!Init, LinksAreNames, G!LinksLeadToEntries
<1>2. LinksAreNames /\ [G!Next]_(G!vars) => LinksAreNames'
  <2> SUFFICES ASSUME LinksAreNames, [G!Next]_(G!vars) PROVE LinksAreNames'
    OBVIOUS
  <2> USE DEF LinksAreNames
  <2>1. PICK n \in Nat : DOMAIN entries = 1..n
    OBVIOUS
  <2>2. G!Linkable(entries)
    OBVIOUS
  <2>3. CASE G!GetIndex
    <3>1. entries' = entries /\ G!LinksLeadToEntries'
      BY <2>3 DEF G!GetIndex, G!LinksLeadToEntries
    <3>2. \A k \in DOMAIN entries : G!before(G!lines[k], Space) = entries[k].name
      BY <2>2, NothingCut DEF G!lines, G!Linkable
    <3> QED
      BY <2>3, <3>1, <3>2 DEF G!GetIndex, G!lines
  <2>4. CASE \E k \in DOMAIN index : G!FollowLink(k)
    <3>1. PICK k \in DOMAIN index : G!FollowLink(k)
      BY <2>4
    <3> DEFINE path == G!before(index[k], Mark)
    <3>2. k \in DOMAIN entries /\ index[k] = entries[k].name
      OBVIOUS
    <3>3. path = entries[k].name
      BY <2>2, <3>2, NothingCut DEF G!Linkable
    <3>7. path \in Seq(Char) /\ \A i \in DOMAIN path : path[i] \notin DOMAIN Decoded
      <4> DEFINE E == [name : Name, hash : Hash]
      <4>1. entries \in Seq(E) /\ k \in DOMAIN entries
        BY <3>2
      <4>2. entries[k] \in E
        <5> HIDE DEF E
        <5> QED  BY <4>1
      <4> QED
        BY <2>2, <3>2, <3>3, <4>2 DEF G!Linkable
    <3>8. G!unescape(path) = path
      <4>1. path = [i \in 1..Len(path) |-> path[i]] /\ Len(path) \in Nat
        BY <3>7
      <4> QED
        BY <3>7, <4>1, NothingDecoded
    <3>4. path # <<>> /\ ~(\E i \in DOMAIN path : path[i] \in Percent)
      BY <2>2, <3>2, <3>3 DEF G!Linkable
    <3>5. G!ServeHTTP(G!GetRequest("ticket", "root", "seq", TRUE, path)) = G!serveEntry("root", path)
      BY <3>4 DEF G!ServeHTTP, G!GetRequest, G!serveTicket
    <3>6. reply' \in {G!BadGateway, G!Body(<<"entry", entries[k].hash>>)}
      BY <2>1, <2>2, <3>1, <3>2, <3>3, <3>4, <3>5, <3>8, OneOfThatName DEF G!FollowLink
    <3> QED
      BY <3>1, <3>6 DEF G!FollowLink, G!LinksLeadToEntries
  <2>5. CASE \E r \in G!Request : G!Get(r)
    BY <2>5 DEF G!Get, G!LinksLeadToEntries
  <2>6. CASE UNCHANGED G!vars
    BY <2>6 DEF G!vars, G!LinksLeadToEntries
  <2> QED
    BY <2>3, <2>4, <2>5, <2>6 DEF G!Next
<1>3. LinksAreNames => G!LinksLeadToEntries
  BY DEF LinksAreNames
<1> QED
  BY <1>1, <1>2, <1>3, PTL DEF G!Spec
=============================================================================
