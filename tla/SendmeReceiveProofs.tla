------------------------ MODULE SendmeReceiveProofs -------------------------
(***************************************************************************)
(* What receive guarantees about the files it writes: for any collection,   *)
(* any number of jobs, and however often it is killed and started again.    *)
(* Types hold for any number of receivers in one directory; the rest for a  *)
(* receive that has the directory for itself.                               *)
(***************************************************************************)
EXTENDS SendmeReceive, FiniteSetTheorems, TLAPS

-----------------------------------------------------------------------------
(* Any number of receivers.                                                *)

Ranges ==
  /\ target \in Targets
  /\ pc \in [Receiver -> {"idle", "connect", "download", "export", "rename", "return", "exited"}]
  /\ runs \in [Receiver -> 0..MaxRuns]
  /\ result \in [Receiver -> {"none", "nil", "err"}]
  /\ job \in [Receiver -> [Entries -> {"none", "wait", "fetch", "ok", "err"}]]
  /\ offset \in [Receiver -> [Entries -> 0..Chunks]]
  /\ fd \in [Receiver -> [Entries -> Inode \cup {NoFile}]]
  /\ next \in [Receiver -> 1..(NFiles + 1)]
  /\ tmp \in [Entries -> Inode \cup {NoFile}]
  /\ dst \in [Path -> Inode \cup {NoFile}]
  /\ content \in [Inode -> SUBSET Whole]

\* Where the call of r is: its downloads run only while download waits for
\* them, and the export never counts past the collection.
Stages(r) ==
  /\ pc[r] # "idle" => runs[r] \in 1..MaxRuns
  /\ \A i \in Entries : job[r][i] \in {"wait", "fetch"} => pc[r] = "download"
  /\ pc[r] \in {"connect", "download"} => next[r] = 1
  /\ pc[r] \in {"export", "rename"} => next[r] <= NFiles

-----------------------------------------------------------------------------
(* One receiver.                                                           *)

\* A file of the temporary directory is the inode of its entry.
TmpIsPerEntry ==
  \A i \in Entries : tmp[i] # NoFile => tmpDir /\ tmp[i][3] = i

\* While r downloads no target exists.  A running download writes the file of
\* its entry and has written what its offset says; a finished one has left it
\* whole.
Downloading(r) ==
  pc[r] = "download" =>
    /\ tmpDir
    /\ \A p \in Path : dst[p] = NoFile
    /\ \A i \in Entries :
         /\ job[r][i] = "wait" => offset[r][i] = 0
         /\ job[r][i] = "fetch" => /\ fd[r][i] = tmp[i] /\ tmp[i] # NoFile
                                   /\ content[tmp[i]] = 1..offset[r][i]
         /\ job[r][i] = "ok" => tmp[i] # NoFile /\ content[tmp[i]] = Whole

\* The export has moved the entries before next, and the others wait whole in
\* the temporary directory.
Exporting(r) ==
  pc[r] \in {"export", "rename"} =>
    /\ \A i \in Entries :
         /\ i < next[r] => dst[target[i]] # NoFile
         /\ i >= next[r] => tmp[i] # NoFile /\ content[tmp[i]] = Whole
    /\ pc[r] = "rename" => dst[target[next[r]]] = NoFile

\* What a receive that returned, or is about to, has left.
Returned(r) ==
  /\ pc[r] \in {"return", "exited"} /\ result[r] = "nil" =>
       \A i \in Entries : dst[target[i]] # NoFile
  /\ pc[r] \in {"idle", "connect", "exited"} /\ (\E i \in Entries : job[r][i] # "none") => ~tmpDir

OneReceiver == \A r, s \in Receiver : r = s

AloneInv ==
  /\ TmpIsPerEntry
  /\ ExportedIsWhole
  /\ \A r \in Receiver : Downloading(r) /\ Exporting(r) /\ Returned(r)

-----------------------------------------------------------------------------
(* Types, and the places in sem.                                           *)

LEMMA TargetsArePaths ==
  ASSUME target \in Targets, NEW i \in Entries
  PROVE  target[i] \in Path
BY ConstantsAssumption DEF Path

\* A receiver's file is the one it finds in the temporary directory or an
\* inode of its own.
LEMMA CreatedFile ==
  ASSUME Ranges, NEW r \in Receiver, Stages(r), NEW i \in Entries, Create(r, i)
  PROVE  \E f \in Inode :
           /\ f = IF tmp[i] = NoFile THEN <<r, runs[r], i>> ELSE tmp[i]
           /\ tmp[i] # NoFile \/ f[3] = i
           /\ job[r][i] = "wait" /\ SlotFree(r) /\ tmpDir
           /\ tmp' = [tmp EXCEPT ![i] = f]
           /\ content' = [content EXCEPT ![f] = {}]
           /\ fd' = [fd EXCEPT ![r][i] = f]
           /\ job' = [job EXCEPT ![r][i] = "fetch"]
           /\ UNCHANGED <<target, pc, runs, result, offset, canceled, next, tmpDir, dst>>
<1> DEFINE f == IF tmp[i] = NoFile THEN <<r, runs[r], i>> ELSE tmp[i]
<1>1. job[r][i] = "wait" /\ runs[r] \in 1..MaxRuns
  BY DEF Create, Stages, Ranges
<1>2. <<r, runs[r], i>> \in Inode
  BY <1>1 DEF Inode
<1>3. f \in Inode /\ (tmp[i] # NoFile \/ f[3] = i)
  BY <1>2 DEF Ranges
<1> QED
  BY <1>3 DEF Create

LEMMA RangesAreKept ==
  ASSUME Ranges, \A r \in Receiver : Stages(r), [Next]_vars
  PROVE  Ranges'
<1> USE ConstantsAssumption DEF Ranges
<1>1. ASSUME NEW r \in Receiver, Start(r)
      PROVE  Ranges'
  BY <1>1 DEF Start, goto, downloads, files
<1>2. ASSUME NEW r \in Receiver, ConnectFails(r)
      PROVE  Ranges'
  BY <1>2 DEF ConnectFails, goto, downloads, files
<1>3. ASSUME NEW r \in Receiver, CheckTargets(r)
      PROVE  Ranges'
  BY <1>3 DEF CheckTargets, goto
<1>4. ASSUME NEW r \in Receiver, downloadReturns(r)
      PROVE  Ranges'
  BY <1>4 DEF downloadReturns, goto, return, downloads, files
<1>5. ASSUME NEW r \in Receiver, Lstat(r)
      PROVE  Ranges'
  BY <1>5 DEF Lstat, goto, return, downloads, files
<1>6. ASSUME NEW r \in Receiver, Rename(r)
      PROVE  Ranges'
  <2>1. next[r] \in Entries /\ tmp[next[r]] \in Inode
    BY <1>6 DEF Rename, Stages, Entries
  <2>2. dst' \in [Path -> Inode \cup {NoFile}]
    BY <1>6, <2>1, TargetsArePaths DEF Rename
  <2>3. tmp' \in [Entries -> Inode \cup {NoFile}]
    BY <1>6, <2>1 DEF Rename
  <2>4. next' \in [Receiver -> 1..(NFiles + 1)]
    BY <1>6, <2>1 DEF Rename, Entries
  <2>5. goto(r, "return") \/ goto(r, "export")
    BY <1>6 DEF Rename, return
  <2>6. pc' \in [Receiver -> {"idle", "connect", "download", "export", "rename", "return", "exited"}]
    BY <2>5 DEF goto
  <2>7. result' \in [Receiver -> {"none", "nil", "err"}]
    BY <1>6 DEF Rename, return
  <2> QED
    BY <1>6, <2>2, <2>3, <2>4, <2>6, <2>7 DEF Rename, downloads
<1>7. ASSUME NEW r \in Receiver, RenameFails(r)
      PROVE  Ranges'
  BY <1>7 DEF RenameFails, goto, return, downloads, files
<1>8. ASSUME NEW r \in Receiver, RemoveAll(r)
      PROVE  Ranges'
  BY <1>8 DEF RemoveAll, goto, downloads, files
<1>9. ASSUME NEW r \in Receiver, Kill(r)
      PROVE  Ranges'
  BY <1>9 DEF Kill, goto, downloads, files
<1>10. ASSUME NEW r \in Receiver, NEW i \in Entries, Create(r, i)
      PROVE  Ranges'
  <2>1. PICK f \in Inode :
           /\ tmp' = [tmp EXCEPT ![i] = f]
           /\ content' = [content EXCEPT ![f] = {}]
           /\ fd' = [fd EXCEPT ![r][i] = f]
           /\ job' = [job EXCEPT ![r][i] = "fetch"]
           /\ UNCHANGED <<target, pc, runs, result, offset, canceled, next, tmpDir, dst>>
    BY <1>10, CreatedFile
  <2> QED
    BY <2>1
<1>11. ASSUME NEW r \in Receiver, NEW i \in Entries, CreateFails(r, i)
      PROVE  Ranges'
  BY <1>11 DEF CreateFails, fail, files
<1>12. ASSUME NEW r \in Receiver, NEW i \in Entries, Write(r, i)
      PROVE  Ranges'
  <2>1. offset' \in [Receiver -> [Entries -> 0..Chunks]]
    BY <1>12 DEF Write
  <2>2. offset[r][i] + 1 \in Whole
    BY <1>12 DEF Write, Whole
  <2>3. content' \in [Inode -> SUBSET Whole]
    BY <1>12, <2>2 DEF Write
  <2> QED
    BY <1>12, <2>1, <2>3 DEF Write
<1>13. ASSUME NEW r \in Receiver, NEW i \in Entries, Fetched(r, i)
      PROVE  Ranges'
  BY <1>13 DEF Fetched, files
<1>14. ASSUME NEW r \in Receiver, NEW i \in Entries, FetchFails(r, i)
      PROVE  Ranges'
  BY <1>14 DEF FetchFails, fail, files
<1>15. CASE UNCHANGED vars
  BY <1>15 DEF vars
<1> QED
  BY <1>1, <1>2, <1>3, <1>4, <1>5, <1>6, <1>7, <1>8, <1>9, <1>10, <1>11, <1>12, <1>13, <1>14, <1>15
     DEF Next, Step, Work

\* A step of r leaves every other receiver where it was.
LEMMA StagesAreKept ==
  ASSUME Ranges, \A r \in Receiver : Stages(r), [Next]_vars, NEW r \in Receiver
  PROVE  Stages(r)'
<1> USE ConstantsAssumption DEF Ranges, Stages
<1>1. ASSUME NEW s \in Receiver, Start(s)
      PROVE  Stages(r)'
  BY <1>1 DEF Start, goto, downloads
<1>2. ASSUME NEW s \in Receiver, ConnectFails(s)
      PROVE  Stages(r)'
  BY <1>2 DEF ConnectFails, goto, downloads
<1>3. ASSUME NEW s \in Receiver, CheckTargets(s)
      PROVE  Stages(r)'
  BY <1>3 DEF CheckTargets, goto
<1>4. ASSUME NEW s \in Receiver, downloadReturns(s)
      PROVE  Stages(r)'
  <2>1. /\ \A i \in Entries : job[s][i] \notin {"wait", "fetch"}
        /\ pc[s] = "download" /\ next[s] = 1
    BY <1>4 DEF downloadReturns
  <2>2. PICK where \in {"return", "export"} : goto(s, where) /\ (where = "export" => NFiles # 0)
    BY <1>4 DEF downloadReturns, return
  <2>3. UNCHANGED <<runs, next, job>>
    BY <1>4 DEF downloadReturns, downloads
  <2>4. CASE r = s
    <3>1. NFiles # 0 => 1 <= NFiles
      OBVIOUS
    <3>2. pc'[r] = where /\ next'[r] = 1 /\ UNCHANGED <<runs, job>>
      BY <2>1, <2>2, <2>3, <2>4 DEF goto
    <3> QED
      BY <2>1, <2>2, <2>4, <3>1, <3>2
  <2>5. CASE r # s
    BY <2>2, <2>3, <2>5 DEF goto
  <2> QED
    BY <2>4, <2>5
<1>5. ASSUME NEW s \in Receiver, Lstat(s)
      PROVE  Stages(r)'
  BY <1>5 DEF Lstat, goto, return, downloads
<1>6. ASSUME NEW s \in Receiver, Rename(s)
      PROVE  Stages(r)'
  <2>1. PICK where \in {"return", "export"} : goto(s, where) /\ (where = "export" => next[s] # NFiles)
    BY <1>6 DEF Rename, return
  <2>2. pc[s] = "rename" /\ next' = [next EXCEPT ![s] = @ + 1] /\ UNCHANGED <<runs, job>>
    BY <1>6 DEF Rename, downloads
  <2>3. CASE r = s
    <3>1. ASSUME NEW n \in Nat, n <= NFiles, n # NFiles PROVE n + 1 <= NFiles
      BY <3>1
    <3>2. next[r] \in Nat /\ next[r] <= NFiles
      BY <2>2, <2>3
    <3>3. where = "export" => next[r] + 1 <= NFiles
      BY <2>1, <2>3, <3>1, <3>2
    <3>4. pc'[r] = where /\ next'[r] = next[r] + 1 /\ UNCHANGED <<runs, job>>
      BY <2>1, <2>2, <2>3 DEF goto
    <3> QED
      BY <2>2, <2>3, <3>3, <3>4
  <2>4. CASE r # s
    BY <2>1, <2>2, <2>4 DEF goto
  <2> QED
    BY <2>3, <2>4
<1>7. ASSUME NEW s \in Receiver, RenameFails(s) \/ RemoveAll(s)
      PROVE  Stages(r)'
  BY <1>7 DEF RenameFails, RemoveAll, goto, return, downloads
<1>8. ASSUME NEW s \in Receiver, Kill(s)
      PROVE  Stages(r)'
  BY <1>8 DEF Kill, goto
<1>9. ASSUME NEW s \in Receiver, NEW i \in Entries, Create(s, i)
      PROVE  Stages(r)'
  BY <1>9 DEF Create
<1>10. ASSUME NEW s \in Receiver, NEW i \in Entries, Write(s, i)
      PROVE  Stages(r)'
  BY <1>10 DEF Write
<1>11. ASSUME NEW s \in Receiver, NEW i \in Entries, CreateFails(s, i) \/ Fetched(s, i) \/ FetchFails(s, i)
      PROVE  Stages(r)'
  BY <1>11 DEF CreateFails, Fetched, FetchFails, fail
<1>12. CASE UNCHANGED vars
  BY <1>12 DEF vars
<1> QED
  BY <1>1, <1>2, <1>3, <1>4, <1>5, <1>6, <1>7, <1>8, <1>9, <1>10, <1>11, <1>12 DEF Next, Step, Work

\* A goroutine takes a place in sem only while one is free, and no other step
\* makes r hold more places.
LEMMA PlacesAreBounded ==
  ASSUME Ranges, \A r \in Receiver : Stages(r), [Next]_vars,
         NEW r \in Receiver, Cardinality(Holders(r)) <= Jobs
  PROVE  Cardinality(Holders(r)') <= Jobs
<1>1. IsFiniteSet(Holders(r)) /\ Cardinality(Holders(r)) \in Nat
  <2>1. IsFiniteSet(Entries)
    BY FS_Interval, ConstantsAssumption DEF Entries
  <2>2. Holders(r) \in SUBSET Entries
    BY DEF Holders
  <2> QED
    BY <2>1, <2>2, FS_Subset, FS_CardinalityType
<1>2. CASE \E i \in Entries : Create(r, i)
  <2>1. PICK i \in Entries : Create(r, i)
    BY <1>2
  <2>2. Holders(r)' = Holders(r) \cup {i} /\ i \notin Holders(r) /\ Cardinality(Holders(r)) < Jobs
    BY <2>1 DEF Create, Holders, SlotFree, Ranges
  <2>3. Cardinality(Holders(r) \cup {i}) = Cardinality(Holders(r)) + 1
    BY <1>1, <2>2, FS_AddElement
  <2> QED
    BY <1>1, <2>2, <2>3, ConstantsAssumption
<1>3. CASE ~\E i \in Entries : Create(r, i)
  <2>1. Holders(r)' \in SUBSET Holders(r)
    <3> USE DEF Holders, Ranges
    <3>1. ASSUME NEW s \in Receiver, CheckTargets(s)
          PROVE  Holders(r)' \in SUBSET Holders(r)
      BY <3>1 DEF CheckTargets
    <3>2. ASSUME NEW s \in Receiver, Kill(s)
          PROVE  Holders(r)' \in SUBSET Holders(r)
      BY <3>2 DEF Kill
    <3>3. ASSUME NEW s \in Receiver, NEW i \in Entries, Create(s, i)
          PROVE  Holders(r)' \in SUBSET Holders(r)
      <4>1. s # r
        BY <1>3, <3>3
      <4> QED
        BY <3>3, <4>1 DEF Create
    <3>4. ASSUME NEW s \in Receiver, NEW i \in Entries, CreateFails(s, i) \/ FetchFails(s, i)
          PROVE  Holders(r)' \in SUBSET Holders(r)
      <4>1. job' = [job EXCEPT ![s][i] = "err"]
        BY <3>4 DEF CreateFails, FetchFails, fail
      <4> QED
        BY <4>1
    <3>5. ASSUME NEW s \in Receiver, NEW i \in Entries, Fetched(s, i)
          PROVE  Holders(r)' \in SUBSET Holders(r)
      <4>1. job' = [job EXCEPT ![s][i] = "ok"]
        BY <3>5 DEF Fetched
      <4> QED
        BY <4>1
    <3>6. CASE UNCHANGED job
      BY <3>6
    <3>7. ASSUME NEW s \in Receiver,
                 \/ Start(s) \/ ConnectFails(s) \/ downloadReturns(s) \/ Lstat(s) \/ Rename(s)
                 \/ RemoveAll(s) \/ RenameFails(s) \/ \E i \in Entries : Write(s, i)
          PROVE  UNCHANGED job
      BY <3>7 DEF Start, ConnectFails, downloadReturns, Lstat, Rename, RemoveAll, RenameFails, Write, downloads
    <3>8. UNCHANGED vars => UNCHANGED job
      BY DEF vars
    <3> QED
      BY <3>1, <3>2, <3>3, <3>4, <3>5, <3>6, <3>7, <3>8 DEF Next, Step, Work
  <2> QED
    BY <1>1, <2>1, FS_Subset, FS_CardinalityType, ConstantsAssumption
<1> QED
  BY <1>2, <1>3

Typed ==
  /\ Ranges
  /\ canceled \in [Receiver -> BOOLEAN] /\ tmpDir \in BOOLEAN
  /\ \A r \in Receiver : Stages(r) /\ Cardinality(Holders(r)) <= Jobs

LEMMA TypedIsInvariant == Spec => []Typed
<1>1. Init => Typed
  <2> SUFFICES ASSUME Init PROVE Typed
    OBVIOUS
  <2>1. Ranges
    BY ConstantsAssumption DEF Init, Ranges, Path
  <2>2. canceled \in [Receiver -> BOOLEAN] /\ tmpDir \in BOOLEAN
    BY DEF Init
  <2>3. ASSUME NEW r \in Receiver PROVE Stages(r)
    BY DEF Init, Stages
  <2>4. ASSUME NEW r \in Receiver PROVE Cardinality(Holders(r)) <= Jobs
    <3>1. Holders(r) = {}
      BY DEF Init, Holders
    <3> QED
      BY <3>1, FS_EmptySet, ConstantsAssumption
  <2> QED
    BY <2>1, <2>2, <2>3, <2>4 DEF Typed
<1>2. Typed /\ [Next]_vars => Typed'
  <2> SUFFICES ASSUME Typed, [Next]_vars PROVE Typed'
    OBVIOUS
  <2>1. canceled' \in [Receiver -> BOOLEAN]
    <3>0. canceled \in [Receiver -> BOOLEAN]
      BY DEF Typed
    <3>1. ASSUME NEW s \in Receiver,
                 \/ Start(s) \/ ConnectFails(s) \/ downloadReturns(s) \/ Lstat(s) \/ Rename(s)
                 \/ RemoveAll(s) \/ RenameFails(s) \/ Kill(s)
                 \/ \E i \in Entries : Create(s, i) \/ Write(s, i) \/ Fetched(s, i)
          PROVE  canceled' = canceled
      BY <3>1 DEF Start, ConnectFails, downloadReturns, Lstat, Rename, RemoveAll, RenameFails, Kill, Create,
                  Write, Fetched, downloads
    <3>2. ASSUME NEW s \in Receiver, CheckTargets(s) \/ \E i \in Entries : CreateFails(s, i) \/ FetchFails(s, i)
          PROVE  canceled' = [canceled EXCEPT ![s] = FALSE] \/ canceled' = [canceled EXCEPT ![s] = TRUE]
      BY <3>2 DEF CheckTargets, CreateFails, FetchFails, fail
    <3>3. UNCHANGED vars => canceled' = canceled
      BY DEF vars
    <3>4. \/ canceled' = canceled
          \/ \E s \in Receiver : \/ canceled' = [canceled EXCEPT ![s] = FALSE]
                                \/ canceled' = [canceled EXCEPT ![s] = TRUE]
      BY <3>1, <3>2, <3>3 DEF Next, Step, Work
    <3> QED
      BY <3>0, <3>4
  <2>2. tmpDir' \in BOOLEAN
    <3>0. tmpDir \in BOOLEAN
      BY DEF Typed
    <3>1. ASSUME NEW s \in Receiver,
                 \/ Start(s) \/ ConnectFails(s) \/ downloadReturns(s) \/ Lstat(s) \/ Rename(s)
                 \/ RenameFails(s) \/ Kill(s)
                 \/ \E i \in Entries : \/ Create(s, i) \/ CreateFails(s, i) \/ Write(s, i)
                                      \/ Fetched(s, i) \/ FetchFails(s, i)
          PROVE  tmpDir' = tmpDir
      BY <3>1 DEF Start, ConnectFails, downloadReturns, Lstat, Rename, RenameFails, Kill, Create, CreateFails,
                  Write, Fetched, FetchFails, files
    <3>2. ASSUME NEW s \in Receiver, CheckTargets(s) \/ RemoveAll(s)
          PROVE  tmpDir' = TRUE \/ tmpDir' = FALSE
      BY <3>2 DEF CheckTargets, RemoveAll
    <3>3. UNCHANGED vars => tmpDir' = tmpDir
      BY DEF vars
    <3>4. tmpDir' = tmpDir \/ tmpDir' = TRUE \/ tmpDir' = FALSE
      BY <3>1, <3>2, <3>3 DEF Next, Step, Work
    <3> QED
      BY <3>0, <3>4
  <2> QED
    BY <2>1, <2>2, RangesAreKept, StagesAreKept, PlacesAreBounded DEF Typed
<1> QED
  BY <1>1, <1>2, PTL DEF Spec

\* Every variable stays in its range for any number of receivers: at most -jobs
\* downloads of each run at once, and no export counts past the collection.
THEOREM TypeCorrect == Spec => []TypeOK
<1>1. Typed => TypeOK
  BY DEF Typed, Ranges, TypeOK
<1> QED
  BY <1>1, TypedIsInvariant, PTL

-----------------------------------------------------------------------------
(* A receive that has the directory for itself.                            *)

Alone(r) == TmpIsPerEntry /\ ExportedIsWhole /\ Downloading(r) /\ Exporting(r) /\ Returned(r)

\* The calls that touch no file.
LEMMA FilesLeftAlone ==
  ASSUME Ranges, NEW r \in Receiver, Stages(r), Alone(r),
         \/ Start(r) \/ ConnectFails(r) \/ downloadReturns(r) \/ Lstat(r) \/ RenameFails(r) \/ Kill(r)
  PROVE  Alone(r)'
<1> USE DEF Ranges, goto, return, downloads, files
<1>1. UNCHANGED <<target, files>>
  BY DEF Start, ConnectFails, downloadReturns, Lstat, RenameFails, Kill
<1>2. TmpIsPerEntry' /\ ExportedIsWhole'
  BY <1>1 DEF Alone, TmpIsPerEntry, ExportedIsWhole
<1>3. CASE Start(r)
  BY <1>1, <1>2, <1>3 DEF Alone, Start, Downloading, Exporting, Returned
<1>4. CASE ConnectFails(r)
  BY <1>1, <1>2, <1>4 DEF Alone, ConnectFails, Downloading, Exporting, Returned
<1>5. CASE downloadReturns(r)
  <2>1. CASE pc'[r] = "return" /\ result'[r] = "err"
    BY <1>1, <1>2, <1>5, <2>1 DEF Alone, downloadReturns, Downloading, Exporting, Returned
  <2>2. CASE NFiles = 0
    <3>1. Entries = {}
      BY <2>2 DEF Entries
    <3> QED
      BY <1>1, <1>2, <1>5, <2>2, <3>1 DEF Alone, downloadReturns, Downloading, Exporting, Returned
  <2>3. CASE NFiles # 0 /\ ~\E i \in Entries : job[r][i] = "err"
    <3>1. pc[r] = "download" /\ pc'[r] = "export" /\ \A i \in Entries : job[r][i] = "ok"
      BY <1>5, <2>3 DEF downloadReturns
    <3>2. \A i \in Entries : ~(i < next[r])
      BY <3>1 DEF Stages, Entries
    <3> QED
      BY <1>1, <1>2, <1>5, <3>1, <3>2 DEF Alone, downloadReturns, Downloading, Exporting, Returned
  <2> QED
    BY <1>5, <2>1, <2>2, <2>3 DEF downloadReturns
<1>6. CASE Lstat(r)
  BY <1>1, <1>2, <1>6 DEF Alone, Lstat, Downloading, Exporting, Returned
<1>7. CASE RenameFails(r)
  BY <1>1, <1>2, <1>7 DEF Alone, RenameFails, Downloading, Exporting, Returned
<1>8. CASE Kill(r)
  BY <1>1, <1>2, <1>8 DEF Alone, Kill, Downloading, Exporting, Returned
<1> QED
  BY <1>3, <1>4, <1>5, <1>6, <1>7, <1>8

\* No target exists when the downloads start: a file at a target path would be
\* that of an entry with this target.
LEMMA DownloadsStart ==
  ASSUME Ranges, NEW r \in Receiver, Stages(r), Alone(r), CheckTargets(r)
  PROVE  Alone(r)'
<1> USE DEF Ranges, goto
<1>1. \A p \in Path : dst[p] = NoFile
  <2> SUFFICES ASSUME NEW p \in Path, dst[p] # NoFile PROVE FALSE
    OBVIOUS
  <2>1. dst[p] \in Inode /\ target[dst[p][3]] = p
    BY DEF Alone, ExportedIsWhole
  <2>2. dst[p][3] \in Entries
    BY <2>1 DEF Inode
  <2> QED
    BY <2>1, <2>2 DEF CheckTargets
<1>2. TmpIsPerEntry' /\ ExportedIsWhole'
  BY DEF CheckTargets, Alone, TmpIsPerEntry, ExportedIsWhole
<1>3. pc'[r] = "download"
  BY DEF CheckTargets
<1>4. Downloading(r)'
  BY <1>1 DEF CheckTargets, Downloading
<1> QED
  BY <1>2, <1>3, <1>4 DEF Alone, Exporting, Returned

\* Every error path and every success removes the temporary directory.
LEMMA DirectoryIsRemoved ==
  ASSUME Ranges, NEW r \in Receiver, Stages(r), Alone(r), RemoveAll(r)
  PROVE  Alone(r)'
<1> USE DEF Ranges, goto
<1>1. TmpIsPerEntry' /\ ExportedIsWhole'
  BY DEF RemoveAll, Alone, TmpIsPerEntry, ExportedIsWhole
<1> QED
  BY <1>1 DEF RemoveAll, Alone, Downloading, Exporting, Returned

\* os.Rename moves a whole file to a path that Lstat found free.
LEMMA EntryIsExported ==
  ASSUME Ranges, NEW r \in Receiver, Stages(r), Alone(r), Rename(r)
  PROVE  Alone(r)'
<1> DEFINE i == next[r]
<1> USE DEF Ranges, goto, return, downloads
<1>1. i \in Entries /\ target[i] \in Path
  BY TargetsArePaths DEF Rename, Stages, Entries
<1>2. tmp[i] \in Inode /\ tmp[i][3] = i /\ content[tmp[i]] = Whole /\ dst[target[i]] = NoFile
  BY <1>1 DEF Rename, Alone, TmpIsPerEntry, Exporting
<1>3. /\ dst' = [dst EXCEPT ![target[i]] = tmp[i]]
      /\ tmp' = [tmp EXCEPT ![i] = NoFile]
      /\ next' = [next EXCEPT ![r] = i + 1]
      /\ UNCHANGED <<target, tmpDir, content, job>>
      /\ pc[r] = "rename"
      /\ \/ i = NFiles /\ pc'[r] = "return" /\ result'[r] = "nil"
         \/ i # NFiles /\ pc'[r] = "export"
  BY DEF Rename
<1>4. TmpIsPerEntry'
  BY <1>1, <1>3 DEF Alone, TmpIsPerEntry
<1>5. ExportedIsWhole'
  BY <1>1, <1>2, <1>3 DEF Alone, ExportedIsWhole
<1>6. \A k \in Entries : k < i + 1 => dst'[target[k]] # NoFile
  <2> SUFFICES ASSUME NEW k \in Entries, k < i + 1 PROVE dst'[target[k]] # NoFile
    OBVIOUS
  <2>1. k = i \/ k < i
    BY <1>1 DEF Entries
  <2>2. target[k] \in Path /\ NoFile \notin Inode
    BY TargetsArePaths, ConstantsAssumption
  <2>3. dst'[target[k]] = IF target[k] = target[i] THEN tmp[i] ELSE dst[target[k]]
    BY <1>1, <1>3, <2>2
  <2> QED
    BY <1>2, <1>3, <2>1, <2>2, <2>3 DEF Alone, Exporting
<1>7. \A k \in Entries : k >= i + 1 => tmp'[k] # NoFile /\ content[tmp'[k]] = Whole
  <2> SUFFICES ASSUME NEW k \in Entries, k >= i + 1 PROVE tmp'[k] # NoFile /\ content[tmp'[k]] = Whole
    OBVIOUS
  <2>1. k # i /\ k >= i
    BY <1>1 DEF Entries
  <2> QED
    BY <1>1, <1>3, <2>1 DEF Alone, Exporting
<1>8. next'[r] = i + 1
  BY <1>3
<1>9. Exporting(r)'
  BY <1>3, <1>6, <1>7, <1>8 DEF Exporting
<1>10. Returned(r)'
  <2>1. i = NFiles => \A k \in Entries : k < i + 1
    BY <1>1 DEF Entries
  <2> QED
    BY <1>3, <1>6, <2>1 DEF Returned
<1> QED
  BY <1>3, <1>4, <1>5, <1>9, <1>10 DEF Alone, Downloading

\* A file that is truncated or written is at no target path, since none exists,
\* and is of no other entry, since TmpIsPerEntry.
LEMMA FileIsCreated ==
  ASSUME Ranges, NEW r \in Receiver, Stages(r), Alone(r), NEW i \in Entries, Create(r, i)
  PROVE  Alone(r)'
<1> USE DEF Ranges
<1>1. PICK f \in Inode :
           /\ f = IF tmp[i] = NoFile THEN <<r, runs[r], i>> ELSE tmp[i]
           /\ tmp[i] # NoFile \/ f[3] = i
           /\ job[r][i] = "wait" /\ SlotFree(r) /\ tmpDir
           /\ tmp' = [tmp EXCEPT ![i] = f]
           /\ content' = [content EXCEPT ![f] = {}]
           /\ fd' = [fd EXCEPT ![r][i] = f]
           /\ job' = [job EXCEPT ![r][i] = "fetch"]
           /\ UNCHANGED <<target, pc, runs, result, offset, canceled, next, tmpDir, dst>>
  BY CreatedFile
<1>2. pc[r] = "download" /\ f[3] = i /\ f # NoFile
  BY <1>1, ConstantsAssumption DEF Stages, Alone, TmpIsPerEntry
<1>3. Downloading(r)
  BY DEF Alone
<1>4. TmpIsPerEntry' /\ ExportedIsWhole'
  BY <1>1, <1>2, <1>3 DEF Alone, TmpIsPerEntry, ExportedIsWhole, Downloading
<1>5. offset[r][i] = 0 /\ 1..0 = {}
  BY <1>1, <1>2, <1>3 DEF Downloading
<1>6. ASSUME NEW k \in Entries
      PROVE  /\ job'[r][k] = "wait" => offset[r][k] = 0
             /\ job'[r][k] = "fetch" => /\ fd'[r][k] = tmp'[k] /\ tmp'[k] # NoFile
                                        /\ content'[tmp'[k]] = 1..offset[r][k]
             /\ job'[r][k] = "ok" => tmp'[k] # NoFile /\ content'[tmp'[k]] = Whole
  <2>1. CASE k = i
    BY <1>1, <1>2, <1>5, <2>1
  <2>2. CASE k # i
    <3>1. tmp'[k] = tmp[k] /\ fd'[r][k] = fd[r][k] /\ job'[r][k] = job[r][k]
      BY <1>1, <2>2
    <3>2. tmp[k] # NoFile => tmp[k] # f
      BY <1>2, <2>2 DEF Alone, TmpIsPerEntry
    <3>3. tmp[k] # NoFile => content'[tmp[k]] = content[tmp[k]]
      BY <1>1, <3>2
    <3> QED
      BY <1>2, <1>3, <3>1, <3>3 DEF Downloading
  <2> QED
    BY <2>1, <2>2
<1>7. Downloading(r)'
  BY <1>1, <1>2, <1>3, <1>6 DEF Downloading
<1> QED
  BY <1>1, <1>2, <1>4, <1>7 DEF Alone, Exporting, Returned

LEMMA ChunkIsWritten ==
  ASSUME Ranges, NEW r \in Receiver, Stages(r), Alone(r), NEW i \in Entries, Write(r, i)
  PROVE  Alone(r)'
<1> USE DEF Ranges
<1>1. /\ job[r][i] = "fetch" /\ offset[r][i] \in 0..Chunks /\ offset[r][i] < Chunks
      /\ offset' = [offset EXCEPT ![r][i] = @ + 1]
      /\ content' = [content EXCEPT ![fd[r][i]] = @ \cup {offset[r][i] + 1}]
      /\ UNCHANGED <<target, pc, runs, result, job, fd, canceled, next, tmpDir, tmp, dst>>
  BY DEF Write
<1>2. pc[r] = "download" /\ Downloading(r)
  BY <1>1 DEF Stages, Alone
<1>3. fd[r][i] = tmp[i] /\ tmp[i] \in Inode /\ tmp[i][3] = i /\ content[tmp[i]] = 1..offset[r][i]
  BY <1>1, <1>2 DEF Downloading, Alone, TmpIsPerEntry
<1>4. content'[tmp[i]] = 1..(offset[r][i] + 1)
  <2>1. content'[tmp[i]] = (1..offset[r][i]) \cup {offset[r][i] + 1}
    BY <1>1, <1>3
  <2>2. ASSUME NEW n \in Nat PROVE (1..n) \cup {n + 1} = 1..(n + 1)
    OBVIOUS
  <2>3. offset[r][i] \in Nat
    BY <1>1, ConstantsAssumption
  <2>4. (1..offset[r][i]) \cup {offset[r][i] + 1} = 1..(offset[r][i] + 1)
    BY <2>2, <2>3
  <2> QED
    BY <2>1, <2>4
<1>5. TmpIsPerEntry' /\ ExportedIsWhole'
  BY <1>1, <1>2 DEF Alone, TmpIsPerEntry, ExportedIsWhole, Downloading
<1>6. ASSUME NEW k \in Entries
      PROVE  /\ job[r][k] = "wait" => offset'[r][k] = 0
             /\ job[r][k] = "fetch" => /\ fd[r][k] = tmp[k] /\ tmp[k] # NoFile
                                       /\ content'[tmp[k]] = 1..offset'[r][k]
             /\ job[r][k] = "ok" => tmp[k] # NoFile /\ content'[tmp[k]] = Whole
  <2>1. CASE k = i
    <3>1. offset'[r][i] = offset[r][i] + 1
      BY <1>1
    <3> QED
      BY <1>1, <1>3, <1>4, <2>1, <3>1, ConstantsAssumption
  <2>2. CASE k # i
    <3>1. offset'[r][k] = offset[r][k]
      BY <1>1, <2>2
    <3>2. tmp[k] # NoFile => tmp[k] \in Inode /\ tmp[k] # tmp[i]
      BY <1>3, <2>2 DEF Alone, TmpIsPerEntry
    <3>3. tmp[k] # NoFile => content'[tmp[k]] = content[tmp[k]]
      BY <1>1, <1>3, <3>2
    <3> QED
      BY <1>2, <3>1, <3>3 DEF Downloading
  <2> QED
    BY <2>1, <2>2
<1>7. Downloading(r)'
  BY <1>1, <1>2, <1>6 DEF Downloading
<1> QED
  BY <1>1, <1>2, <1>5, <1>7 DEF Alone, Exporting, Returned

\* A download that ended with nil has written every chunk.
LEMMA DownloadEnded ==
  ASSUME Ranges, NEW r \in Receiver, Stages(r), Alone(r), NEW i \in Entries,
         CreateFails(r, i) \/ Fetched(r, i) \/ FetchFails(r, i)
  PROVE  Alone(r)'
<1> USE DEF Ranges
<1>1. /\ job[r][i] \in {"wait", "fetch"}
      /\ \/ job' = [job EXCEPT ![r][i] = "err"]
         \/ /\ job' = [job EXCEPT ![r][i] = "ok"]
            /\ job[r][i] = "fetch" /\ offset[r][i] = Chunks
      /\ fd' = [fd EXCEPT ![r][i] = NoFile]
      /\ UNCHANGED <<target, pc, runs, result, offset, next, files>>
  BY DEF CreateFails, Fetched, FetchFails, fail
<1>2. pc[r] = "download" /\ Downloading(r)
  BY <1>1 DEF Stages, Alone
<1>3. TmpIsPerEntry' /\ ExportedIsWhole'
  BY <1>1 DEF Alone, TmpIsPerEntry, ExportedIsWhole, files
<1>4. Downloading(r)'
  BY <1>1, <1>2 DEF Downloading, files, Whole
<1> QED
  BY <1>1, <1>2, <1>3, <1>4 DEF Alone, Exporting, Returned

LEMMA AloneIsInvariant ==
  ASSUME OneReceiver PROVE Spec => []AloneInv
<1>1. Init => AloneInv
  <2> SUFFICES ASSUME Init PROVE AloneInv
    OBVIOUS
  <2>1. TmpIsPerEntry /\ ExportedIsWhole
    BY DEF Init, TmpIsPerEntry, ExportedIsWhole
  <2>2. ASSUME NEW r \in Receiver PROVE Downloading(r) /\ Exporting(r) /\ Returned(r)
    BY DEF Init, Downloading, Exporting, Returned
  <2> QED
    BY <2>1, <2>2 DEF AloneInv
<1>2. Typed /\ AloneInv /\ [Next]_vars => AloneInv'
  <2> SUFFICES ASSUME Typed, AloneInv, [Next]_vars PROVE AloneInv'
    OBVIOUS
  <2>1. ASSUME NEW r \in Receiver, Alone(r)' PROVE AloneInv'
    <3>1. \A s \in Receiver : s = r
      BY OneReceiver DEF OneReceiver
    <3> QED
      BY <2>1, <3>1 DEF Alone, AloneInv
  <2>2. ASSUME NEW r \in Receiver, Start(r) \/ Step(r) \/ RenameFails(r) \/ Kill(r)
        PROVE  Alone(r)'
    BY <2>2, FilesLeftAlone, DownloadsStart, DirectoryIsRemoved, EntryIsExported DEF Typed, AloneInv, Alone, Step
  <2>3. ASSUME NEW r \in Receiver, NEW i \in Entries, Work(r, i) \/ FetchFails(r, i)
        PROVE  Alone(r)'
    BY <2>3, FileIsCreated, ChunkIsWritten, DownloadEnded DEF Typed, AloneInv, Alone, Work
  <2>4. CASE UNCHANGED vars
    BY <2>4 DEF AloneInv, TmpIsPerEntry, ExportedIsWhole, Downloading, Exporting, Returned, vars
  <2> QED
    BY <2>1, <2>2, <2>3, <2>4 DEF Next
<1> QED
  BY <1>1, <1>2, TypedIsInvariant, PTL DEF Spec

\* "writes the files": over any history of kills and retries, a target path
\* holds nothing or the complete file of an entry with this target.
THEOREM TargetsAreWhole ==
  ASSUME OneReceiver PROVE Spec => []ExportedIsWhole
<1>1. AloneInv => ExportedIsWhole
  BY DEF AloneInv
<1> QED
  BY <1>1, AloneIsInvariant, PTL

\* A receive that returned nil has put every file of the collection in its
\* place, complete.
THEOREM NilMeansComplete ==
  ASSUME OneReceiver PROVE Spec => []SuccessIsComplete
<1>1. Typed /\ AloneInv => SuccessIsComplete
  <2> SUFFICES ASSUME Typed, AloneInv, NEW r \in Receiver, pc[r] = "exited", result[r] = "nil",
                      NEW i \in Entries
               PROVE  dst[target[i]] # NoFile /\ content[dst[target[i]]] = Whole
    BY DEF SuccessIsComplete
  <2>1. target[i] \in Path
    BY TargetsArePaths DEF Typed, Ranges
  <2> QED
    BY <2>1 DEF AloneInv, Returned, ExportedIsWhole
<1> QED
  BY <1>1, TypedIsInvariant, AloneIsInvariant, PTL

\* A receive that had started its downloads leaves neither the temporary
\* directory nor a running download when it returns.
THEOREM TidyExit ==
  ASSUME OneReceiver PROVE Spec => []NothingLeftBehind
<1>1. Typed /\ AloneInv => NothingLeftBehind
  BY DEF NothingLeftBehind, Typed, Stages, AloneInv, Returned
<1> QED
  BY <1>1, TypedIsInvariant, AloneIsInvariant, PTL

\* No step of receive replaces or removes a file at a target path: Lstat found
\* the target of the entry that Rename moves free, and a receive that is alone
\* cannot lose the race between the two.
THEOREM ExportsAreFinal ==
  ASSUME OneReceiver PROVE Spec => NeverReplaced
<1>1. ASSUME Typed, AloneInv, [Next]_vars, NEW p \in Path, dst[p] # NoFile
      PROVE  dst'[p] = dst[p]
  <2>1. ASSUME NEW r \in Receiver, Rename(r) PROVE dst'[p] = dst[p]
    <3>1. dst' = [dst EXCEPT ![target[next[r]]] = tmp[next[r]]] /\ pc[r] = "rename"
      BY <2>1 DEF Rename
    <3>2. dst[target[next[r]]] = NoFile
      BY <1>1, <3>1 DEF AloneInv, Exporting
    <3> QED
      BY <1>1, <3>1, <3>2 DEF Typed, Ranges
  <2>2. ASSUME NEW r \in Receiver,
               \/ Start(r) \/ CheckTargets(r) \/ ConnectFails(r) \/ downloadReturns(r) \/ Lstat(r)
               \/ RemoveAll(r) \/ RenameFails(r) \/ Kill(r)
               \/ \E i \in Entries : Work(r, i) \/ FetchFails(r, i)
        PROVE  UNCHANGED dst
    BY <2>2 DEF Start, CheckTargets, ConnectFails, downloadReturns, Lstat, RemoveAll, RenameFails, Kill,
                Work, Create, CreateFails, Write, Fetched, FetchFails, files
  <2>3. UNCHANGED vars => UNCHANGED dst
    BY DEF vars
  <2> QED
    BY <1>1, <2>1, <2>2, <2>3 DEF Next, Step
<1>2. Typed /\ AloneInv /\ [Next]_vars => [\A p \in Path : dst[p] # NoFile => dst'[p] = dst[p]]_vars
  BY <1>1
<1> QED
  BY <1>2, TypedIsInvariant, AloneIsInvariant, PTL DEF Spec, NeverReplaced
=============================================================================
