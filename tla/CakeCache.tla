------------------------------ MODULE CakeCache ------------------------------
(* The process-shared local cache of the CAKE catalogue database:             *)
(* ensure_local_cake_db of src/toksearch_d3d/signal/_cake_cache.py, called by  *)
(* any thread of any process of one user on one machine.                      *)
(*                                                                            *)
(* Shared by every process: the remote objects, and in the cache directory    *)
(* one file, one sidecar (name.meta.json), one lock file and one temporary    *)
(* file per process for each local path.  Private to a process: the memo      *)
(* _validated, lost when the process dies and inherited when it forks.        *)
(* A database is abstracted to the source it came from and its version; a     *)
(* sidecar that is missing or does not parse is None, which is all that       *)
(* _read_meta tells its caller.                                               *)
EXTENDS Integers

CONSTANTS Source,        \* locations a caller may ask for
          RemoteSource,  \* those whose scheme is in _REMOTE_SCHEMES
          LocalPath,     \* the cache file of each remote source: its basename, which
                         \* several sources may share
          Process,       \* process identifiers
          Thread,        \* threads, each belonging to one process
          ProcOf,
          SizeOf,        \* size in bytes of each version of a database
          MaxVersion,    \* bound: versions published by the remote
          MaxCalls,      \* bound: calls made, over all threads
          MaxFaults,     \* bound: crashes, interrupts, files that cannot be
                         \* removed or opened for writing
          None           \* Python's None, a missing file, a free lock

Version == 0..MaxVersion

ASSUME RemoteAssumption == RemoteSource \subseteq Source
ASSUME ProcOfAssumption == ProcOf \in [Thread -> Process]
ASSUME BoundAssumption ==
    MaxVersion \in Nat /\ MaxCalls \in Nat /\ MaxFaults \in Nat
ASSUME SizeAssumption == SizeOf \in [Version -> Nat]
ASSUME NoneAssumption ==
    None \notin Source /\ None \notin Thread /\ None \notin Nat

Path == {LocalPath[s] : s \in RemoteSource}

VARIABLES remote,   \* the version each remote source has now
          file,     \* what is at each local path
          sidecar,  \* what _read_meta returns for each local path
          tmp,      \* tmp[p][l], the file l.tmp.p
          holder,   \* the thread that holds the lock file of each path
          live,     \* processes that are running
          memo,     \* _validated of each process
          pc,       \* where each thread is
          call,     \* arguments and locals of each thread's latest call
          result,   \* how its latest finished call ended
          calls, faults

shared == <<remote, file, sidecar, tmp>>
vars == <<remote, file, sidecar, tmp, holder, live, memo, pc, call, result,
          calls, faults>>

(* A database file: whole is FALSE while a transfer is still writing it.      *)
Database == [src : RemoteSource, version : Version, whole : BOOLEAN]
(* The sidecar's fields that _staleness_key reads; a stat that reported no    *)
(* size leaves size out, and meta.get gives None.                             *)
Meta == [size : Nat \cup {None}, url : RemoteSource]
(* floor is a history value: the version the source had when the call began.  *)
Call == [src : Source \cup {None}, force : BOOLEAN, size : Nat \cup {None},
         floor : Version]

ASSUME NoneRecordAssumption == None \notin Database /\ None \notin Meta

LockedPC == {"stat", "check", "fetch", "transfer", "publish", "cleanup",
             "record", "recording"}
PC == {"idle", "lock", "remember"} \cup LockedPC
(* "current": validated against the remote; "stale": the remote could not be  *)
(* reached and the cached file is served; "memo": validated earlier in this   *)
(* process; "asis": a local path; "error": an exception.                      *)
Result == {"none", "current", "stale", "memo", "asis", "error"}

PathOf(t) == LocalPath[call[t].src]
MyTmp(t) == tmp[ProcOf[t]][PathOf(t)]
(* Faulty variant: the sidecar keeps the stat reply without the source url.   *)
MetaWithoutUrl(t) == [size |-> call[t].size, url |-> None]
MetaOf(t) == [size |-> call[t].size, url |-> call[t].src]

(* Faulty variants: staleness is decided by the url alone, or the size alone. *)
UrlOnlyKey(m) == IF m = None THEN <<None, None>> ELSE <<None, m.url>>
SizeOnlyKey(m) == IF m = None THEN <<None, None>> ELSE <<m.size, None>>
StalenessKey(m) == IF m = None THEN <<None, None>> ELSE <<m.size, m.url>>

Init ==
    /\ remote = [s \in RemoteSource |-> 0]
    /\ file = [l \in Path |-> None]
    /\ sidecar = [l \in Path |-> None]
    /\ tmp = [p \in Process |-> [l \in Path |-> None]]
    /\ holder = [l \in Path |-> None]
    /\ live = {}
    /\ memo = [p \in Process |-> {}]
    /\ pc = [t \in Thread |-> "idle"]
    /\ call = [t \in Thread |->
                 [src |-> None, force |-> FALSE, size |-> None, floor |-> 0]]
    /\ result = [t \in Thread |-> "none"]
    /\ calls = 0
    /\ faults = 0

Fault == faults < MaxFaults /\ faults' = faults + 1
Goto(t, label) == pc' = [pc EXCEPT ![t] = label]
Release(t) == holder' = [holder EXCEPT ![PathOf(t)] = None]
Answer(t, r) == Goto(t, "idle") /\ result' = [result EXCEPT ![t] = r]
Validated(t) ==
    memo' = [memo EXCEPT ![ProcOf[t]] = @ \cup {call[t].src}]

(* Faulty variants of the fallback: it does not look whether there is a file, *)
(* or the raising path keeps the lock.                                        *)
ServeUnseen(t) == Release(t) /\ Validated(t) /\ Answer(t, "stale")
ServeOrRaiseLocked(t) ==
    \/ file[PathOf(t)] # None /\ Release(t) /\ Validated(t) /\ Answer(t, "stale")
    \/ file[PathOf(t)] = None /\ Answer(t, "error") /\ UNCHANGED <<holder, memo>>

(* The fallback both failure paths end in: serve the cached file if there is  *)
(* one, and remember it, before the lock is released; raise otherwise.        *)
ServeCachedOrRaise(t) ==
    /\ Release(t)
    /\ \/ file[PathOf(t)] # None /\ Validated(t) /\ Answer(t, "stale")
       \/ file[PathOf(t)] = None /\ Answer(t, "error") /\ UNCHANGED memo

(* A call: local paths pass through, a remembered source is answered without  *)
(* the lock, any other call goes on to the lock.                              *)
Begin(t, s, force) ==
    /\ pc[t] = "idle" /\ ProcOf[t] \in live /\ calls < MaxCalls
    /\ calls' = calls + 1
    /\ call' = [call EXCEPT ![t] =
                  [src |-> s, force |-> force, size |-> None,
                   floor |-> IF s \in RemoteSource THEN remote[s] ELSE 0]]
    /\ \/ s \notin RemoteSource /\ Answer(t, "asis")
       \/ /\ s \in memo[ProcOf[t]] /\ ~force
          /\ Answer(t, "memo")
       \/ /\ s \in RemoteSource /\ (s \notin memo[ProcOf[t]] \/ force)
          /\ Goto(t, "lock") /\ result' = [result EXCEPT ![t] = "none"]
    /\ UNCHANGED <<shared, holder, live, memo, faults>>

(* Faulty variant: the lock file is not waited for.                           *)
EnterUnlocked(t) ==
    /\ pc[t] = "lock"
    /\ holder' = [holder EXCEPT ![PathOf(t)] = t]
    /\ Goto(t, "stat")
    /\ UNCHANGED <<shared, live, memo, call, result, calls, faults>>

Acquire(t) ==
    /\ pc[t] = "lock" /\ holder[PathOf(t)] = None
    /\ holder' = [holder EXCEPT ![PathOf(t)] = t]
    /\ Goto(t, "stat")
    /\ UNCHANGED <<shared, live, memo, call, result, calls, faults>>

(* pelican object stat answered, with the size of the current version or (a   *)
(* reply without a Size line) with no size.                                   *)
Stat(t) ==
    /\ pc[t] = "stat"
    /\ \E size \in {SizeOf[remote[call[t].src]], None} :
         call' = [call EXCEPT ![t].size = size]
    /\ Goto(t, "check")
    /\ UNCHANGED <<shared, holder, live, memo, result, calls, faults>>

StatFails(t) ==
    /\ pc[t] = "stat"
    /\ ServeCachedOrRaise(t)
    /\ UNCHANGED <<shared, live, call, calls, faults>>

NeedsDownload(t) ==
    \/ call[t].force
    \/ file[PathOf(t)] = None
    \/ StalenessKey(sidecar[PathOf(t)]) # StalenessKey(MetaOf(t))

Check(t) ==
    /\ pc[t] = "check"
    /\ \/ NeedsDownload(t) /\ Goto(t, "fetch") /\ UNCHANGED holder
       \/ ~NeedsDownload(t) /\ Goto(t, "remember") /\ Release(t)
    /\ UNCHANGED <<shared, live, memo, call, result, calls, faults>>

(* The transfer opens the temporary file and starts copying the version the   *)
(* remote has then, which may be newer than the one stat reported.            *)
Fetch(t) ==
    /\ pc[t] = "fetch"
    /\ tmp' = [tmp EXCEPT ![ProcOf[t]][PathOf(t)] =
                 [src |-> call[t].src, version |-> remote[call[t].src],
                  whole |-> FALSE]]
    /\ Goto(t, "transfer")
    /\ UNCHANGED <<remote, file, sidecar, holder, live, memo, call, result,
                   calls, faults>>

FinishTransfer(t) ==
    /\ pc[t] = "transfer" /\ MyTmp(t) # None
    /\ tmp' = [tmp EXCEPT ![ProcOf[t]][PathOf(t)].whole = TRUE]
    /\ Goto(t, "publish")
    /\ UNCHANGED <<remote, file, sidecar, holder, live, memo, call, result,
                   calls, faults>>

(* os.replace: atomic, raises when the temporary file is missing, and takes   *)
(* its name away.                                                             *)
Publish(t) ==
    /\ pc[t] = "publish" /\ MyTmp(t) # None
    /\ file' = [file EXCEPT ![PathOf(t)] = MyTmp(t)]
    /\ tmp' = [tmp EXCEPT ![ProcOf[t]][PathOf(t)] = None]
    /\ Goto(t, "record")
    /\ UNCHANGED <<remote, sidecar, holder, live, memo, call, result, calls,
                   faults>>

(* pelican object get fails or times out, before or during the transfer, or   *)
(* os.replace raises.                                                         *)
DownloadFails(t) ==
    /\ pc[t] \in {"fetch", "transfer", "publish"}
    /\ Goto(t, "cleanup")
    /\ UNCHANGED <<shared, holder, live, memo, call, result, calls, faults>>

(* Faulty variant: the failed download's temporary file is left behind.       *)
CleanupNothing(t) ==
    /\ pc[t] = "cleanup"
    /\ ServeCachedOrRaise(t)
    /\ UNCHANGED <<shared, live, call, calls, faults>>

(* os.remove of what the failed download left; when that fails too the error  *)
(* is swallowed, the file stays, and the fallback is the same.                *)
Cleanup(t) ==
    /\ pc[t] = "cleanup"
    /\ \/ tmp' = [tmp EXCEPT ![ProcOf[t]][PathOf(t)] = None] /\ UNCHANGED faults
       \/ Fault /\ UNCHANGED tmp
    /\ ServeCachedOrRaise(t)
    /\ UNCHANGED <<remote, file, sidecar, live, call, calls>>

(* _write_meta opens the sidecar, which truncates it, then writes it.         *)
OpenSidecar(t) ==
    /\ pc[t] = "record"
    /\ sidecar' = [sidecar EXCEPT ![PathOf(t)] = None]
    /\ Goto(t, "recording")
    /\ UNCHANGED <<remote, file, tmp, holder, live, memo, call, result, calls,
                   faults>>

WriteSidecar(t) ==
    /\ pc[t] = "recording"
    /\ sidecar' = [sidecar EXCEPT ![PathOf(t)] = MetaOf(t)]
    /\ Goto(t, "remember")
    /\ Release(t)
    /\ UNCHANGED <<remote, file, tmp, live, memo, call, result, calls, faults>>

(* The sidecar cannot be opened, which leaves the old one beside the new      *)
(* file, or cannot be written: the exception leaves the with block, which     *)
(* releases the lock, and the call.                                           *)
RecordFails(t) ==
    /\ \/ pc[t] = "record" /\ Fault
       \/ pc[t] = "recording" /\ UNCHANGED faults
    /\ Release(t)
    /\ Answer(t, "error")
    /\ UNCHANGED <<shared, live, memo, call, calls>>

(* The memo is written after the lock is released.                            *)
Remember(t) ==
    /\ pc[t] = "remember"
    /\ Validated(t)
    /\ Answer(t, "current")
    /\ UNCHANGED <<shared, holder, live, call, calls, faults>>

(* KeyboardInterrupt is not an Exception: it skips the handler that removes   *)
(* the temporary file, and the with block releases the lock.                  *)
Interrupt(t) ==
    /\ pc[t] # "idle" /\ Fault
    /\ holder' = [l \in Path |-> IF holder[l] = t THEN None ELSE holder[l]]
    /\ Answer(t, "error")
    /\ UNCHANGED <<shared, live, memo, call, calls>>

(* A process dies: the kernel drops its file locks, its memo is gone, and the *)
(* cache directory stays as the last completed step left it.                  *)
Crash(p) ==
    /\ p \in live /\ Fault
    /\ live' = live \ {p}
    /\ memo' = [memo EXCEPT ![p] = {}]
    /\ holder' = [l \in Path |->
                    IF holder[l] # None /\ ProcOf[holder[l]] = p
                    THEN None ELSE holder[l]]
    /\ pc' = [t \in Thread |-> IF ProcOf[t] = p THEN "idle" ELSE pc[t]]
    /\ result' = [t \in Thread |-> IF ProcOf[t] = p THEN "none" ELSE result[t]]
    /\ UNCHANGED <<shared, call, calls>>

Start(p) ==
    /\ p \notin live
    /\ live' = live \cup {p}
    /\ UNCHANGED <<shared, holder, memo, pc, call, result, calls, faults>>

(* os.fork between two calls of the parent: the child has a copy of the memo. *)
Fork(p, q) ==
    /\ p \in live /\ q \notin live
    /\ \A t \in Thread : ProcOf[t] = p => pc[t] = "idle"
    /\ live' = live \cup {q}
    /\ memo' = [memo EXCEPT ![q] = memo[p]]
    /\ UNCHANGED <<shared, holder, pc, call, result, calls, faults>>

(* The owner of a remote database publishes its next version.                 *)
RemoteGrows(s) ==
    /\ remote[s] < MaxVersion
    /\ remote' = [remote EXCEPT ![s] = @ + 1]
    /\ UNCHANGED <<file, sidecar, tmp, holder, live, memo, pc, call, result,
                   calls, faults>>

Step(t) ==
    \/ Acquire(t) \/ Stat(t) \/ StatFails(t) \/ Check(t)
    \/ Fetch(t) \/ FinishTransfer(t) \/ Publish(t) \/ DownloadFails(t)
    \/ Cleanup(t) \/ OpenSidecar(t) \/ WriteSidecar(t) \/ RecordFails(t)
    \/ Remember(t)

Next ==
    \/ \E t \in Thread, s \in Source, force \in BOOLEAN : Begin(t, s, force)
    \/ \E t \in Thread : Step(t)
    \/ \E t \in Thread : Interrupt(t)
    \/ \E p \in Process : Crash(p)
    \/ \E p \in Process : Start(p)
    \/ \E p, q \in Process : Fork(p, q)
    \/ \E s \in RemoteSource : RemoteGrows(s)

Spec == Init /\ [][Next]_vars

(* A thread inside a call keeps running; both pelican commands carry a        *)
(* timeout, so a stat or a transfer ends.  Nothing is assumed of new calls,   *)
(* crashes or the remote, and nothing of the order in which waiting threads   *)
(* get the lock beyond a free lock being taken.                               *)
FairSpec == Spec /\ \A t \in Thread : WF_vars(Step(t))

-----------------------------------------------------------------------------
TypeOK ==
    /\ remote \in [RemoteSource -> Version]
    /\ file \in [Path -> Database \cup {None}]
    /\ sidecar \in [Path -> Meta \cup {None}]
    /\ tmp \in [Process -> [Path -> Database \cup {None}]]
    /\ holder \in [Path -> Thread \cup {None}]
    /\ live \subseteq Process
    /\ memo \in [Process -> SUBSET RemoteSource]
    /\ pc \in [Thread -> PC]
    /\ call \in [Thread -> Call]
    /\ result \in [Thread -> Result]
    /\ calls \in 0..MaxCalls
    /\ faults \in 0..MaxFaults

(* The local path never shows a half-transferred database, to any process at  *)
(* any time: transfers write a temporary file whose name carries only the     *)
(* process id, so this rests on the lock keeping the process's threads apart. *)
NoTornFile == \A l \in Path : file[l] # None => file[l].whole

(* A thread that downloads without force does so because the cached file is   *)
(* not the one its stat described, and that stays so for the whole transfer:  *)
(* of the callers that find a new version, one downloads and the others skip. *)
NoRedundantDownload ==
    \A t \in Thread :
        (pc[t] \in {"fetch", "transfer", "publish"} /\ ~call[t].force) =>
            \/ file[PathOf(t)] = None
            \/ StalenessKey(sidecar[PathOf(t)]) # StalenessKey(MetaOf(t))

(* A remembered source has a file to serve: the lock-free answer from         *)
(* _validated never names a path that does not exist.                         *)
MemoBacked ==
    \A p \in Process : \A s \in memo[p] : file[LocalPath[s]] # None

(* What a call validated against the remote is at least as new as the remote  *)
(* was when the call began, whatever other processes did meanwhile: the path  *)
(* it returned holds no older version of its source (it may hold another      *)
(* source's database once that one has been asked for).                       *)
ServedFresh ==
    \A t \in Thread :
        (result[t] = "current" /\ call[t].size # None) =>
            /\ file[PathOf(t)] # None
            /\ file[PathOf(t)].src = call[t].src =>
                  file[PathOf(t)].version >= call[t].floor

(* Two sources of one basename share a file: a call that found it current, or *)
(* replaced it, lets the lock go over its own source's database, although the *)
(* other source was cached there before.  A fault between the os.replace and  *)
(* the sidecar breaks this: the old sidecar then vouches for the new file.    *)
OwnSource ==
    [][\A t \in Thread :
         (pc[t] \in LockedPC /\ pc'[t] = "remember" /\ faults = 0) =>
            /\ file'[PathOf(t)] # None
            /\ file'[PathOf(t)].src = call[t].src]_vars

(* The published database never goes back to an older version of its source.  *)
NeverRegresses ==
    [][\A l \in Path :
         (file[l] # None /\ file'[l] # None /\ file'[l].src = file[l].src) =>
            file'[l].version >= file[l].version]_vars

(* Without faults (crashes, interrupts, a file that cannot be removed) every  *)
(* download, however it fails, removes its temporary file: one exists only    *)
(* while a thread of its process is downloading.                              *)
NoLeftoverTmp ==
    \A p \in Process, l \in Path :
        (tmp[p][l] # None /\ faults = 0) =>
            \E t \in Thread :
                /\ ProcOf[t] = p /\ pc[t] \in {"transfer", "publish", "cleanup"}
                /\ PathOf(t) = l

(* Every call returns or raises, however stat, transfer and sidecar fail and  *)
(* whichever process dies holding the lock.                                   *)
CallsReturn == \A t \in Thread : pc[t] # "idle" ~> pc[t] = "idle"
-----------------------------------------------------------------------------
(* The promise CakeStore makes, read off this module's state: the held copy   *)
(* of a source is what its local path holds, and an answer from a stat that   *)
(* reported no size promises no more than a cached copy.                      *)
Held == [s \in RemoteSource |->
           IF file[LocalPath[s]] = None THEN None ELSE file[LocalPath[s]].version]
AnswerOf(t) ==
    IF result[t] \in {"stale", "memo"} \/ (result[t] = "current" /\ call[t].size = None)
    THEN "cached" ELSE result[t]

Store == INSTANCE CakeStore WITH
    Client <- Thread,
    held <- Held,
    asked <- {t \in Thread : pc[t] # "idle"},
    want <- [t \in Thread |-> call[t].src],
    floor <- [t \in Thread |-> call[t].floor],
    answer <- [t \in Thread |-> AnswerOf(t)]

(* The cache implements CakeStore: every step of every process is one of the  *)
(* promised ones or changes nothing a client can see.                         *)
StoreSpec == Store!Spec
=============================================================================
