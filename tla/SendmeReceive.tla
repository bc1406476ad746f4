--------------------------- MODULE SendmeReceive ----------------------------
(***************************************************************************)
(* "receive" of cmd/go-iroh-sendme: fetch a collection, download its files *)
(* side by side into a temporary directory named after the root hash, then *)
(* rename each file to its target.  The receivers modelled here run the    *)
(* same ticket in the same directory, so they share the temporary          *)
(* directory; each may be killed at any point and started again.           *)
(*                                                                         *)
(* Files are inodes: os.Create truncates the inode it finds under a name   *)
(* and an open file keeps writing to its inode after a rename.  The        *)
(* content of an inode is the set of verified chunks written to it.        *)
(***************************************************************************)
EXTENDS Integers, FiniteSets

CONSTANTS
  Receiver,   \* the receive commands run in one directory
  NFiles,     \* entries of the collection
  Chunks,     \* chunks of every file
  Jobs,       \* -jobs
  Targets,    \* the maps from entries to paths that exportPath may give
  MaxRuns,    \* bound on how often each command is started
  NoFile

Entries == 1..NFiles
Inode == Receiver \X (1..MaxRuns) \X Entries
Path == UNION {{t[i] : i \in Entries} : t \in Targets}
Whole == 1..Chunks

ASSUME ConstantsAssumption ==
  /\ NFiles \in Nat /\ Chunks \in Nat \ {0} /\ MaxRuns \in Nat \ {0}
  /\ Jobs \in Nat \ {0}
  /\ \A t \in Targets : DOMAIN t = Entries
  /\ NoFile \notin Inode

VARIABLES
  target,    \* target[i]: the path of entry i of this collection
  pc,        \* pc[r]: where receive is
  runs,      \* runs[r]: how often r was started
  result,    \* result[r]: what receive returns, "none", "nil" or "err"
  job,       \* job[r][i]: downloadFile of entry i, "none", "wait", "fetch", "ok" or "err"
  offset,    \* offset[r][i]: chunks r has written for entry i
  fd,        \* fd[r][i]: the inode r has open for entry i
  canceled,  \* canceled[r]: download's context
  next,      \* next[r]: the entry to export next
  tmpDir,    \* does .sendme-recv-<root> exist?
  tmp,       \* tmp[i]: the inode at .sendme-recv-<root>/i
  dst,       \* dst[p]: the inode at target path p
  content    \* content[f]: the chunks inode f holds

vars == <<target, pc, runs, result, job, offset, fd, canceled, next, tmpDir, tmp, dst, content>>
files == <<tmpDir, tmp, dst, content>>
downloads == <<job, offset, fd, canceled>>

Init ==
  /\ target \in Targets
  /\ pc = [r \in Receiver |-> "idle"]
  /\ runs = [r \in Receiver |-> 0]
  /\ result = [r \in Receiver |-> "none"]
  /\ job = [r \in Receiver |-> [i \in Entries |-> "none"]]
  /\ offset = [r \in Receiver |-> [i \in Entries |-> 0]]
  /\ fd = [r \in Receiver |-> [i \in Entries |-> NoFile]]
  /\ canceled = [r \in Receiver |-> FALSE]
  /\ next = [r \in Receiver |-> 1]
  /\ tmpDir = FALSE
  /\ tmp = [i \in Entries |-> NoFile]
  /\ dst = [p \in Path |-> NoFile]
  /\ content = [f \in Inode |-> {}]

goto(r, where) == pc' = [pc EXCEPT ![r] = where]
return(r, res) ==
  /\ goto(r, "return")
  /\ result' = [result EXCEPT ![r] = res]

-----------------------------------------------------------------------------
(* receive, up to the download.                                            *)

\* The command is started, for the first time or again.
Start(r) ==
  /\ pc[r] \in {"idle", "exited"}
  /\ runs[r] < MaxRuns
  /\ goto(r, "connect")
  /\ runs' = [runs EXCEPT ![r] = @ + 1]
  /\ result' = [result EXCEPT ![r] = "none"]
  /\ next' = [next EXCEPT ![r] = 1]
  /\ UNCHANGED <<target, downloads, files>>

\* Parsing the ticket, binding, dialling, fetching the root and the names, a
\* name that exportPath refuses, or a target that exists: receive returns an
\* error before it made anything.
ConnectFails(r) ==
  /\ pc[r] = "connect"
  /\ goto(r, "exited")
  /\ result' = [result EXCEPT ![r] = "err"]
  /\ UNCHANGED <<target, runs, next, downloads, files>>

\* No target exists yet: make the temporary directory, start the downloads.
CheckTargets(r) ==
  /\ pc[r] = "connect"
  /\ \A i \in Entries : dst[target[i]] = NoFile
  /\ tmpDir' = TRUE
  /\ job' = [job EXCEPT ![r] = [i \in Entries |-> "wait"]]
  /\ offset' = [offset EXCEPT ![r] = [i \in Entries |-> 0]]
  /\ canceled' = [canceled EXCEPT ![r] = FALSE]
  /\ goto(r, "download")
  /\ UNCHANGED <<target, runs, result, fd, next, tmp, dst, content>>

-----------------------------------------------------------------------------
(* download and downloadFile.                                              *)

\* A downloadFile that returned an error reports it; the first one cancels.
fail(r, i) ==
  /\ job' = [job EXCEPT ![r][i] = "err"]
  /\ fd' = [fd EXCEPT ![r][i] = NoFile]
  /\ canceled' = [canceled EXCEPT ![r] = TRUE]

\* A download that keeps its place when it fails.
HoldersLeaky(r) == {i \in Entries : job[r][i] \in {"fetch", "err"}}

\* The entries whose goroutine holds a place in sem.
Holders(r) == {i \in Entries : job[r][i] = "fetch"}

SlotFree(r) == Cardinality(Holders(r)) < Jobs

\* A goroutine gets a place in sem and os.Create opens its file: the inode it
\* finds is truncated, otherwise a new one is made.
Create(r, i) ==
  LET f == IF tmp[i] = NoFile THEN <<r, runs[r], i>> ELSE tmp[i] IN
  /\ job[r][i] = "wait"
  /\ SlotFree(r)
  /\ tmpDir
  /\ tmp' = [tmp EXCEPT ![i] = f]
  /\ content' = [content EXCEPT ![f] = {}]
  /\ fd' = [fd EXCEPT ![r][i] = f]
  /\ job' = [job EXCEPT ![r][i] = "fetch"]
  /\ UNCHANGED <<target, pc, runs, result, offset, canceled, next, tmpDir, dst>>

\* os.Create fails, as it does when the temporary directory is gone.
CreateFails(r, i) ==
  /\ job[r][i] = "wait"
  /\ SlotFree(r)
  /\ fail(r, i)
  /\ UNCHANGED <<target, pc, runs, result, offset, next, files>>

\* fetch writes the next chunk, verified.  Opening the stream for the first
\* one fails once download's context is canceled.
Write(r, i) ==
  /\ job[r][i] = "fetch"
  /\ offset[r][i] < Chunks
  /\ offset[r][i] = 0 => ~canceled[r]
  /\ offset' = [offset EXCEPT ![r][i] = @ + 1]
  /\ content' = [content EXCEPT ![fd[r][i]] = @ \cup {offset[r][i] + 1}]
  /\ UNCHANGED <<target, pc, runs, result, job, fd, canceled, next, tmpDir, tmp, dst>>

\* downloadFile returns with the whole blob written.
Fetched(r, i) ==
  /\ job[r][i] = "fetch"
  /\ offset[r][i] = Chunks
  /\ job' = [job EXCEPT ![r][i] = "ok"]
  /\ fd' = [fd EXCEPT ![r][i] = NoFile]
  /\ UNCHANGED <<target, pc, runs, result, offset, canceled, next, files>>

\* The sender went away, a chunk did not verify, a write or the final Close
\* failed, or ctx is done.
FetchFails(r, i) ==
  /\ job[r][i] = "fetch"
  /\ fail(r, i)
  /\ UNCHANGED <<target, pc, runs, result, offset, next, files>>

\* A download that returns at the first error, its other jobs still running.
downloadAtFirstError(r) ==
  /\ pc[r] = "download"
  /\ \/ \E i \in Entries : job[r][i] = "err"
     \/ \A i \in Entries : job[r][i] = "ok"
  /\ IF \E i \in Entries : job[r][i] = "err"
       THEN return(r, "err")
       ELSE goto(r, IF NFiles = 0 THEN "return" ELSE "export") /\ UNCHANGED result
  /\ UNCHANGED <<target, runs, next, downloads, files>>

\* A download whose error is dropped.
downloadErrorDropped(r) ==
  /\ pc[r] = "download"
  /\ \A i \in Entries : job[r][i] \in {"ok", "err"}
  /\ goto(r, "export")
  /\ UNCHANGED <<target, runs, result, next, downloads, files>>

\* download returns once every job has: the first error, or success.
downloadReturns(r) ==
  /\ pc[r] = "download"
  /\ \A i \in Entries : job[r][i] \in {"ok", "err"}
  /\ IF \E i \in Entries : job[r][i] = "err"
       THEN return(r, "err")
       ELSE /\ goto(r, IF NFiles = 0 THEN "return" ELSE "export")
            /\ result' = [result EXCEPT ![r] = IF NFiles = 0 THEN "nil" ELSE @]
  /\ UNCHANGED <<target, runs, next, downloads, files>>

-----------------------------------------------------------------------------
(* receive, the export.                                                    *)

\* An export that trusts the check made before the download.
LstatSkipped(r) ==
  /\ pc[r] = "export"
  /\ goto(r, "rename")
  /\ UNCHANGED <<target, result, runs, next, downloads, files>>

\* os.Lstat of the next target: go on, or give up with what is exported.
Lstat(r) ==
  /\ pc[r] = "export"
  /\ IF dst[target[next[r]]] = NoFile
       THEN goto(r, "rename") /\ UNCHANGED result
       ELSE return(r, "err")
  /\ UNCHANGED <<target, runs, next, downloads, files>>

\* os.Rename moves the file of the next entry over its target.
Rename(r) ==
  LET i == next[r] IN
  /\ pc[r] = "rename"
  /\ tmp[i] # NoFile
  /\ dst' = [dst EXCEPT ![target[i]] = tmp[i]]
  /\ tmp' = [tmp EXCEPT ![i] = NoFile]
  /\ next' = [next EXCEPT ![r] = @ + 1]
  /\ IF i = NFiles
       THEN return(r, "nil")
       ELSE goto(r, "export") /\ UNCHANGED result
  /\ UNCHANGED <<target, runs, downloads, tmpDir, content>>

\* A rename whose error is not looked at.
RenameUnchecked(r) ==
  /\ pc[r] = "rename"
  /\ return(r, "nil")
  /\ UNCHANGED <<target, runs, next, downloads, files>>

\* os.MkdirAll or os.Rename fails: what is exported stays.
RenameFails(r) ==
  /\ pc[r] = "rename"
  /\ return(r, "err")
  /\ UNCHANGED <<target, runs, next, downloads, files>>

\* The deferred os.RemoveAll of an error return that is forgotten.
RemoveAllOnSuccess(r) ==
  /\ pc[r] = "return"
  /\ goto(r, "exited")
  /\ IF result[r] = "nil"
       THEN tmpDir' = FALSE /\ tmp' = [i \in Entries |-> NoFile]
       ELSE UNCHANGED <<tmpDir, tmp>>
  /\ UNCHANGED <<target, runs, result, next, downloads, dst, content>>

\* receive returns: its deferred os.RemoveAll deletes the temporary directory
\* and whatever is left in it.
RemoveAll(r) ==
  /\ pc[r] = "return"
  /\ goto(r, "exited")
  /\ tmpDir' = FALSE
  /\ tmp' = [i \in Entries |-> NoFile]
  /\ UNCHANGED <<target, runs, result, next, downloads, dst, content>>

\* The process is killed: its files are closed, the directories stay.
Kill(r) ==
  /\ pc[r] \notin {"idle", "exited"}
  /\ goto(r, "idle")
  /\ result' = [result EXCEPT ![r] = "none"]
  /\ job' = [job EXCEPT ![r] = [i \in Entries |-> "none"]]
  /\ fd' = [fd EXCEPT ![r] = [i \in Entries |-> NoFile]]
  /\ UNCHANGED <<target, runs, offset, canceled, next, files>>

Work(r, i) == Create(r, i) \/ CreateFails(r, i) \/ Write(r, i) \/ Fetched(r, i)
Step(r) == CheckTargets(r) \/ ConnectFails(r) \/ downloadReturns(r) \/ Lstat(r) \/ Rename(r)
           \/ RemoveAll(r)

Next ==
  \E r \in Receiver :
    \/ Start(r) \/ Step(r) \/ RenameFails(r) \/ Kill(r)
    \/ \E i \in Entries : Work(r, i) \/ FetchFails(r, i)

Spec == Init /\ [][Next]_vars

\* Every goroutine that can run does, and a canceled fetch returns.
Fairness ==
  \A r \in Receiver :
    /\ WF_vars(Step(r) \/ RenameFails(r))
    /\ \A i \in Entries :
         /\ WF_vars(Work(r, i))
         /\ WF_vars(canceled[r] /\ FetchFails(r, i))

FairSpec == Spec /\ Fairness

-----------------------------------------------------------------------------

TypeOK ==
  /\ target \in Targets
  /\ pc \in [Receiver -> {"idle", "connect", "download", "export", "rename", "return", "exited"}]
  /\ runs \in [Receiver -> 0..MaxRuns]
  /\ result \in [Receiver -> {"none", "nil", "err"}]
  /\ job \in [Receiver -> [Entries -> {"none", "wait", "fetch", "ok", "err"}]]
  /\ offset \in [Receiver -> [Entries -> 0..Chunks]]
  /\ fd \in [Receiver -> [Entries -> Inode \cup {NoFile}]]
  /\ canceled \in [Receiver -> BOOLEAN]
  /\ next \in [Receiver -> 1..(NFiles + 1)]
  /\ tmpDir \in BOOLEAN
  /\ tmp \in [Entries -> Inode \cup {NoFile}]
  /\ dst \in [Path -> Inode \cup {NoFile}]
  /\ content \in [Inode -> SUBSET Whole]
  /\ \A r \in Receiver : Cardinality(Holders(r)) <= Jobs

\* A target path never holds a file that is partial or belongs to another
\* entry, even after kills and retries over a temporary directory left behind.
ExportedIsWhole ==
  \A p \in Path : dst[p] # NoFile => content[dst[p]] = Whole /\ target[dst[p][3]] = p

\* When receive returns nil, every file of the collection is at its target,
\* complete: "verifies every byte against the BLAKE3 hash tree as it arrives,
\* and writes the files".
SuccessIsComplete ==
  \A r \in Receiver : pc[r] = "exited" /\ result[r] = "nil" =>
    \A i \in Entries : /\ dst[target[i]] # NoFile
                       /\ content[dst[target[i]]] = Whole

\* A receive that started its downloads leaves nothing behind when it returns,
\* with or without an error: the temporary directory, one left by a killed run
\* included, is gone and no download goroutine is still running.
NothingLeftBehind ==
  \A r \in Receiver : pc[r] = "exited" /\ (\E i \in Entries : job[r][i] # "none") =>
    /\ ~tmpDir
    /\ \A i \in Entries : job[r][i] \notin {"wait", "fetch"}

\* A file at a target path is never replaced, also when a collection names the
\* same path twice.
NeverReplaced ==
  [][\A p \in Path : dst[p] # NoFile => dst'[p] = dst[p]]_vars

\* A started download ends: no job waits for ever for a place in sem, and
\* receive returns (unless the process is killed).
DownloadEnds ==
  \A r \in Receiver : pc[r] = "download" ~> pc[r] \in {"exited", "idle"}
=============================================================================
