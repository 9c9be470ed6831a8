--------------------------- MODULE CakeFreshProofs ---------------------------
(* What CakeCache serves is fresh: the proof that an answer validated against *)
(* the remote is at least as new as the remote was when the call began, and   *)
(* that the memo and the published file keep their promises, on top of the    *)
(* lock and temporary-file invariants of CakeCacheProofs.                     *)
EXTENDS CakeCacheProofs

(* The sizes of two versions of a database differ: CAKE is append-mostly.     *)
SizesDiffer == \A v, w \in Version : SizeOf[v] = SizeOf[w] => v = w

(* No two remote sources have the same basename.                              *)
PathsDiffer == \A s, r \in RemoteSource : LocalPath[s] = LocalPath[r] => s = r

(* A published database came from a source that belongs at its path, and from *)
(* no later version than that source has.                                     *)
FileInv ==
    \A l \in Path : file[l] # None =>
        LocalPath[file[l].src] = l /\ file[l].version <= remote[file[l].src]

(* If sizes tell versions apart, every version of that size is at most n.     *)
Covers(size, n) == SizesDiffer => \A v \in Version : SizeOf[v] = size => v <= n

(* The file a validated thread names is there and, unless another source's    *)
(* has taken its place, not older than its call.                              *)
Serves(t) ==
    /\ file[PathOf(t)] # None
    /\ (SizesDiffer /\ call[t].size # None /\ file[PathOf(t)].src = call[t].src) =>
          file[PathOf(t)].version >= call[t].floor

(* The size a thread was told is of a version not older than the one its call *)
(* began with.                                                                *)
Told(t) == call[t].size # None =>
             \E v \in Version : SizeOf[v] = call[t].size /\ v >= call[t].floor
                                /\ v <= remote[call[t].src]

(* What a thread transfers is at least what it was told of, what the file of  *)
(* its source that it will replace is, and what the sidecar claims for it.    *)
Transferred(t) ==
    /\ MyTmp(t).version <= remote[call[t].src]
    /\ Covers(call[t].size, MyTmp(t).version)
    /\ (file[PathOf(t)] # None /\ file[PathOf(t)].src = call[t].src) =>
          file[PathOf(t)].version <= MyTmp(t).version
    /\ (sidecar[PathOf(t)] # None /\ sidecar[PathOf(t)].url = call[t].src) =>
          Covers(sidecar[PathOf(t)].size, MyTmp(t).version)

(* What it published it has not lost while it holds the lock.                 *)
Published(t) ==
    /\ file[PathOf(t)] # None /\ file[PathOf(t)].src = call[t].src
    /\ Covers(call[t].size, file[PathOf(t)].version)

Knows(t) ==
    /\ call[t].src \in RemoteSource => call[t].floor <= remote[call[t].src]
    /\ pc[t] \in {"check", "fetch", "transfer", "publish", "record", "recording"}
         => Told(t)
    /\ pc[t] \in {"transfer", "publish"} => Transferred(t)
    /\ pc[t] \in {"record", "recording"} => Published(t)
    /\ pc[t] = "remember" => Serves(t)

ThreadInv == \A t \in Thread : Knows(t)

(* The sidecar claims no version its source has not had, and none newer than  *)
(* the file beside it if that is of its source, also when a crash or an error *)
(* came between the two.                                                      *)
SidecarInv ==
    \A l \in Path : sidecar[l] # None =>
        /\ file[l] # None
        /\ Covers(sidecar[l].size, remote[sidecar[l].url])
        /\ file[l].src = sidecar[l].url => Covers(sidecar[l].size, file[l].version)

(* A validated thread has let the lock go: whoever transfers its source now   *)
(* began after it, and brings nothing older than its call.                    *)
Settled(t) == pc[t] = "remember" \/ result[t] = "current"
AheadInv ==
    \A t, u \in Thread :
        (Settled(t) /\ pc[u] \in {"transfer", "publish"} /\ call[u].src = call[t].src)
            => MyTmp(u).version >= call[t].floor

FreshInv == FileInv /\ ThreadInv /\ SidecarInv /\ AheadInv

LEMMA InitFresh == Init => FreshInv
<1> SUFFICES ASSUME Init PROVE FreshInv
  OBVIOUS
<1>1. FileInv /\ SidecarInv
  BY DEF Init, FileInv, SidecarInv
<1>2. ThreadInv
  BY BoundAssumption, NoneAssumption, RemoteAssumption DEF Init, ThreadInv, Knows
<1>3. AheadInv
  BY DEF Init, AheadInv
<1> QED BY <1>1, <1>2, <1>3 DEF FreshInv

(* With distinct basenames, what is at a thread's path came from its source.  *)
LEMMA OwnFile ==
  ASSUME PathsDiffer, Inv, FileInv, NEW t \in Thread, pc[t] # "idle",
         file[PathOf(t)] # None
  PROVE  file[PathOf(t)] \in Database /\ file[PathOf(t)].src = call[t].src
<1>1. PathOf(t) \in Path /\ call[t].src \in RemoteSource
  BY PathOfType DEF Inv, LockInv
<1>2. file[PathOf(t)] \in Database
  BY <1>1 DEF Inv, TypeOK
<1> QED BY <1>1, <1>2 DEF FileInv, PathsDiffer, Database, PathOf

(* No step loses a published file or replaces it by an older version of the   *)
(* same source, and the remote only grows.                                    *)
Grows ==
    /\ \A s \in RemoteSource : remote'[s] >= remote[s]
    /\ \A l \in Path : file[l] # None =>
         /\ file'[l] # None
         /\ file'[l].src = file[l].src => file'[l].version >= file[l].version

LEMMA NextGrows ==
  ASSUME Inv, FreshInv, [Next]_vars
  PROVE  Grows
<1>1. TypeOK /\ LockInv /\ TmpInv
  BY DEF Inv
<1>2. \A s \in RemoteSource : remote[s] \in Nat
  BY <1>1, BoundAssumption DEF TypeOK, Version
<1>3. \A l \in Path : file[l] # None => file[l].version \in Nat
  BY <1>1, BoundAssumption DEF TypeOK, Database, Version
<1>4. CASE \E t \in Thread : Publish(t)
  <2>1. PICK t \in Thread : Publish(t)
    BY <1>4
  <2>2. PathOf(t) \in Path /\ pc[t] = "publish" /\ MyTmp(t) \in Database
        /\ MyTmp(t).src = call[t].src
    BY <1>1, <2>1, PathOfType DEF Publish, TmpInv
  <2>3. file' = [file EXCEPT ![PathOf(t)] = MyTmp(t)] /\ remote' = remote
    BY <2>1 DEF Publish
  <2>4. (file[PathOf(t)] # None /\ file[PathOf(t)].src = call[t].src) =>
          MyTmp(t).version >= file[PathOf(t)].version
    <3>1. Transferred(t)
      BY <2>2 DEF FreshInv, ThreadInv, Knows
    <3>2. MyTmp(t).version \in Nat
      BY <2>2, BoundAssumption DEF Database, Version
    <3> QED BY <1>3, <2>2, <3>1, <3>2 DEF Transferred
  <2>5. MyTmp(t) # None
    BY <2>2, NoneRecordAssumption
  <2> QED BY <1>1, <1>2, <1>3, <2>2, <2>3, <2>4, <2>5 DEF TypeOK, Grows
<1>5. CASE \E s \in RemoteSource : RemoteGrows(s)
  BY <1>1, <1>2, <1>3, <1>5 DEF TypeOK, RemoteGrows, Grows
<1>6. CASE remote' = remote /\ file' = file
  BY <1>2, <1>3, <1>6 DEF Grows
<1> QED BY <1>4, <1>5, <1>6 DEF Next, Begin, Step, Acquire, Stat, StatFails, Check,
        Fetch, FinishTransfer, DownloadFails, Cleanup, OpenSidecar, WriteSidecar,
        RecordFails, Remember, Interrupt, Crash, Start, Fork, shared, vars

LEMMA NumbersType ==
  ASSUME Inv
  PROVE  /\ \A s \in RemoteSource : remote[s] \in Nat
         /\ \A l \in Path : file[l] # None => file[l].version \in Nat
         /\ \A t \in Thread : call[t].floor \in Nat
         /\ \A v \in Version : v \in Nat
BY BoundAssumption DEF Inv, TypeOK, Database, Call, Version

(* Only os.replace touches the files.                                         *)
LEMMA FileStep ==
  ASSUME [Next]_vars
  PROVE  file' = file \/ \E t \in Thread : Publish(t)
BY DEF Next, Begin, Step, Acquire, Stat, StatFails, Check, Fetch, FinishTransfer,
   DownloadFails, Cleanup, OpenSidecar, WriteSidecar, RecordFails, Remember, Interrupt,
   Crash, Start, Fork, RemoteGrows, shared, vars

(* The file of a validated thread stays as good as its call asked, whoever    *)
(* replaces it.                                                               *)
LEMMA ServesKept ==
  ASSUME Inv, FreshInv, [Next]_vars, NEW t \in Thread, Settled(t), Serves(t),
         call[t].src \in RemoteSource, call'[t] = call[t]
  PROVE  Serves(t)'
<1>1. PathOf(t) \in Path /\ PathOf(t)' = PathOf(t)
  BY DEF Path, PathOf
<1>2. CASE file'[PathOf(t)] = file[PathOf(t)]
  BY <1>1, <1>2 DEF Serves
<1>3. CASE file'[PathOf(t)] # file[PathOf(t)]
  <2>1. PICK u \in Thread : Publish(u)
    BY <1>3, FileStep
  <2>2. /\ pc[u] = "publish" /\ MyTmp(u) \in Database /\ MyTmp(u).src = call[u].src
        /\ file' = [file EXCEPT ![PathOf(u)] = MyTmp(u)]
    BY <2>1 DEF Publish, Inv, TmpInv
  <2>3. file'[PathOf(t)] = MyTmp(u) /\ MyTmp(u) # None
    BY <1>1, <1>3, <2>2, NoneRecordAssumption DEF Inv, TypeOK
  <2>4. MyTmp(u).src = call[t].src => MyTmp(u).version >= call[t].floor
    BY <2>2 DEF FreshInv, AheadInv
  <2> QED BY <1>1, <2>3, <2>4 DEF Serves
<1> QED BY <1>2, <1>3

(* A thread keeps what it knows while others move.                            *)
LEMMA KnowsKept ==
  ASSUME Inv, FreshInv, Grows, [Next]_vars, NEW u \in Thread,
         call'[u] = call[u], pc'[u] \in {pc[u], "idle"},
         pc'[u] \in LockedPC =>
           /\ MyTmp(u)' = MyTmp(u) /\ file'[PathOf(u)] = file[PathOf(u)]
           /\ sidecar'[PathOf(u)] = sidecar[PathOf(u)]
  PROVE  Knows(u)'
<1>1. Inv' /\ Knows(u) /\ PathOf(u)' = PathOf(u)
  BY NextInv DEF FreshInv, ThreadInv, PathOf
<1>2. call[u].src \in RemoteSource =>
        /\ call[u].floor \in Nat /\ remote[call[u].src] \in Nat
        /\ remote'[call[u].src] \in Nat /\ remote'[call[u].src] >= remote[call[u].src]
  BY <1>1, NumbersType, BoundAssumption DEF Grows, Inv, TypeOK, Version
<1>3. call'[u].src \in RemoteSource => call'[u].floor <= remote'[call'[u].src]
  BY <1>1, <1>2 DEF Knows
<1>4. CASE pc'[u] = "idle"
  BY <1>3, <1>4 DEF Knows
<1>5. CASE pc[u] = pc'[u] /\ pc[u] # "idle"
  <2>1. call[u].src \in RemoteSource /\ PathOf(u) \in Path
    BY <1>5, PathOfType DEF Inv, LockInv
  <2>2. Told(u) => Told(u)'
    BY <1>2, <2>1, NumbersType DEF Told
  <2>3. ASSUME pc[u] \in {"transfer", "publish"} PROVE Transferred(u)'
    <3>1. MyTmp(u) \in Database /\ MyTmp(u).version \in Nat
      BY <2>3, BoundAssumption DEF Inv, TmpInv, Database, Version
    <3>2. /\ Transferred(u) /\ MyTmp(u)' = MyTmp(u)
          /\ file'[PathOf(u)] = file[PathOf(u)]
          /\ sidecar'[PathOf(u)] = sidecar[PathOf(u)]
      BY <1>1, <1>5, <2>3 DEF Knows, LockedPC
    <3> QED BY <1>1, <1>2, <2>1, <3>1, <3>2 DEF Transferred
  <2>4. ASSUME pc[u] \in {"record", "recording"} PROVE Published(u)'
    <3>1. Published(u) /\ file'[PathOf(u)] = file[PathOf(u)]
      BY <1>1, <1>5, <2>4 DEF Knows, LockedPC
    <3> QED BY <1>1, <3>1 DEF Published
  <2>5. pc[u] = "remember" => Serves(u)'
    BY <1>1, <2>1, ServesKept DEF Knows, Settled
  <2> QED BY <1>1, <1>3, <1>5, <2>2, <2>3, <2>4, <2>5 DEF Knows
<1> QED BY <1>4, <1>5

(* If sizes tell versions apart, what a thread was told is at most what its   *)
(* source has.                                                                *)
LEMMA ToldCovers ==
  ASSUME Inv, NEW t \in Thread, call[t].src \in RemoteSource, Told(t)
  PROVE  Covers(call[t].size, remote[call[t].src])
BY NoneAssumption, SizeAssumption, NumbersType DEF Covers, Told, SizesDiffer

(* A thread's own step gives it what it then relies on.                       *)
LEMMA KnowsLearned ==
  ASSUME Inv, FreshInv, NEW t \in Thread, Step(t), Grows
  PROVE  Knows(t)'
<1>1. TypeOK /\ LockInv /\ TmpInv /\ Knows(t) /\ ProcOf[t] \in Process
      /\ pc[t] # "idle" /\ call[t] \in Call /\ remote' = remote
  BY ProcOfAssumption DEF Inv, TypeOK, FreshInv, ThreadInv, Step, Acquire, Stat,
     StatFails, Check, Fetch, FinishTransfer, Publish, DownloadFails, Cleanup,
     OpenSidecar, WriteSidecar, RecordFails, Remember, shared
<1>2. /\ call[t].src \in RemoteSource /\ PathOf(t) \in Path
      /\ PathOf(t)' = PathOf(t) /\ call'[t].src = call[t].src
      /\ call'[t].floor = call[t].floor
  BY <1>1, PathOfType, StepArgs DEF LockInv
<1>3. /\ call[t].floor \in Nat /\ remote[call[t].src] \in Nat
      /\ remote[call[t].src] \in Version
      /\ call[t].floor <= remote[call[t].src]
  BY <1>1, <1>2, NumbersType DEF Knows, TypeOK
<1>4. call'[t].src \in RemoteSource => call'[t].floor <= remote'[call'[t].src]
  BY <1>1, <1>2, <1>3
<1>5. CASE Stat(t)
  <2>1. pc'[t] = "check"
    BY <1>1, <1>5 DEF Stat, TypeOK, Goto
  <2>2. call'[t].size \in {SizeOf[remote[call[t].src]], None}
    BY <1>1, <1>5 DEF Stat, TypeOK, Call
  <2>3. Told(t)'
    BY <1>1, <1>2, <1>3, <2>2 DEF Told
  <2> QED BY <1>4, <2>1, <2>3 DEF Knows
<1>6. CASE Check(t)
  <2>1. call' = call /\ file' = file /\ pc'[t] \in {"fetch", "remember"}
    BY <1>1, <1>6 DEF Check, TypeOK, Goto, shared
  <2>2. Told(t)
    BY <1>1, <1>6 DEF Check, Knows
  <2>3. CASE pc'[t] = "fetch"
    BY <1>1, <1>4, <2>1, <2>2, <2>3 DEF Knows, Told
  <2>4. CASE pc'[t] = "remember"
    <3>1. ~NeedsDownload(t)
      BY <1>1, <1>6, <2>4 DEF Check, TypeOK, Goto
    <3>2. file[PathOf(t)] # None
          /\ StalenessKey(sidecar[PathOf(t)]) = StalenessKey(MetaOf(t))
      BY <3>1 DEF NeedsDownload
    <3>3. ASSUME SizesDiffer, call[t].size # None,
                 file[PathOf(t)].src = call[t].src
          PROVE  file[PathOf(t)].version >= call[t].floor
      <4>1. /\ sidecar[PathOf(t)] # None /\ sidecar[PathOf(t)].size = call[t].size
            /\ sidecar[PathOf(t)].url = call[t].src
        <5>1. /\ MetaOf(t) # None /\ MetaOf(t).size = call[t].size
              /\ MetaOf(t).url = call[t].src
          BY <1>1, <1>2, NoneRecordAssumption DEF MetaOf, Meta, Call
        <5> QED BY <3>2, <3>3, <5>1 DEF StalenessKey
      <4>2. Covers(call[t].size, file[PathOf(t)].version)
        BY <1>2, <3>3, <4>1 DEF FreshInv, SidecarInv
      <4>3. PICK v \in Version : SizeOf[v] = call[t].size /\ v >= call[t].floor
        BY <2>2, <3>3 DEF Told
      <4>4. v <= file[PathOf(t)].version /\ v \in Nat
            /\ file[PathOf(t)].version \in Nat
        BY <1>2, <3>2, <3>3, <4>2, <4>3, NumbersType DEF Covers
      <4> QED BY <1>3, <4>3, <4>4
    <3>4. Serves(t)'
      BY <1>2, <2>1, <3>2, <3>3 DEF Serves
    <3> QED BY <1>4, <2>4, <3>4 DEF Knows
  <2> QED BY <2>1, <2>3, <2>4
<1>7. CASE Fetch(t)
  <2>1. call' = call /\ file' = file /\ sidecar' = sidecar /\ pc'[t] = "transfer"
    BY <1>1, <1>7 DEF Fetch, TypeOK, Goto
  <2>2. MyTmp(t)' = [src |-> call[t].src, version |-> remote[call[t].src],
                     whole |-> FALSE]
    BY <1>1, <1>2, <1>7 DEF Fetch, TypeOK, MyTmp
  <2>3. Told(t) /\ Told(t)'
    BY <1>1, <1>7, <2>1 DEF Fetch, Knows, Told
  <2>4. Covers(call[t].size, remote[call[t].src])
    BY <1>2, <2>3, ToldCovers
  <2>5. (file[PathOf(t)] # None /\ file[PathOf(t)].src = call[t].src) =>
          file[PathOf(t)].version <= remote[call[t].src]
    BY <1>2 DEF FreshInv, FileInv
  <2>6. (sidecar[PathOf(t)] # None /\ sidecar[PathOf(t)].url = call[t].src) =>
          Covers(sidecar[PathOf(t)].size, remote[call[t].src])
    BY <1>2 DEF FreshInv, SidecarInv
  <2>7. Transferred(t)'
    BY <1>1, <1>2, <1>3, <2>1, <2>2, <2>4, <2>5, <2>6 DEF Transferred
  <2> QED BY <1>4, <2>1, <2>3, <2>7 DEF Knows
<1>8. CASE FinishTransfer(t)
  <2>1. call' = call /\ file' = file /\ sidecar' = sidecar /\ pc'[t] = "publish"
    BY <1>1, <1>8 DEF FinishTransfer, TypeOK, Goto
  <2>2. MyTmp(t) \in Database
    BY <1>1, <1>8 DEF FinishTransfer, TmpInv
  <2>3. MyTmp(t)' = [MyTmp(t) EXCEPT !.whole = TRUE]
    BY <1>1, <1>2, <1>8 DEF FinishTransfer, TypeOK, MyTmp
  <2>4. MyTmp(t)'.version = MyTmp(t).version
    BY <2>2, <2>3 DEF Database
  <2>5. Told(t)' /\ Transferred(t)
    BY <1>1, <1>8, <2>1 DEF FinishTransfer, Knows, Told
  <2>6. Transferred(t)'
    BY <1>1, <1>2, <2>1, <2>4, <2>5 DEF Transferred
  <2> QED BY <1>4, <2>1, <2>5, <2>6 DEF Knows
<1>9. CASE Publish(t)
  <2>1. call' = call /\ pc'[t] = "record"
    BY <1>1, <1>9 DEF Publish, TypeOK, Goto
  <2>2. /\ file'[PathOf(t)] = MyTmp(t) /\ MyTmp(t) # None
        /\ MyTmp(t).src = call[t].src
    BY <1>1, <1>2, <1>9, NoneRecordAssumption DEF Publish, TypeOK, TmpInv
  <2>3. Told(t)' /\ Transferred(t)
    BY <1>1, <1>9, <2>1 DEF Publish, Knows, Told
  <2>4. Published(t)'
    BY <1>2, <2>1, <2>2, <2>3 DEF Published, Transferred
  <2> QED BY <1>4, <2>1, <2>3, <2>4 DEF Knows
<1>10. CASE OpenSidecar(t)
  <2>1. call' = call /\ file' = file /\ pc'[t] = "recording"
    BY <1>1, <1>10 DEF OpenSidecar, TypeOK, Goto
  <2>2. Told(t)' /\ Published(t)
    BY <1>1, <1>10, <2>1 DEF OpenSidecar, Knows, Told
  <2>3. Published(t)'
    BY <1>2, <2>1, <2>2 DEF Published
  <2> QED BY <1>4, <2>1, <2>2, <2>3 DEF Knows
<1>11. CASE WriteSidecar(t)
  <2>1. call' = call /\ file' = file /\ pc'[t] = "remember"
    BY <1>1, <1>11 DEF WriteSidecar, TypeOK, Goto
  <2>2. Told(t) /\ Published(t)
    BY <1>1, <1>11 DEF WriteSidecar, Knows
  <2>3. (SizesDiffer /\ call[t].size # None) =>
          file[PathOf(t)].version >= call[t].floor
    BY <1>2, <1>3, <2>2, NumbersType DEF Told, Covers, Published
  <2>4. Serves(t)'
    BY <1>2, <2>1, <2>2, <2>3 DEF Serves, Published
  <2> QED BY <1>4, <2>1, <2>4 DEF Knows
<1>12. CASE Acquire(t) \/ DownloadFails(t)
  <2>1. pc'[t] \in {"stat", "cleanup"}
    BY <1>1, <1>12 DEF Acquire, DownloadFails, TypeOK, Goto
  <2> QED BY <1>4, <2>1 DEF Knows
<1>13. CASE StatFails(t) \/ Cleanup(t) \/ RecordFails(t) \/ Remember(t)
  <2>1. pc'[t] = "idle"
    BY <1>1, <1>13 DEF StatFails, Cleanup, RecordFails, Remember,
       ServeCachedOrRaise, Answer, Goto, TypeOK
  <2> QED BY <1>4, <2>1 DEF Knows
<1> QED BY <1>5, <1>6, <1>7, <1>8, <1>9, <1>10, <1>11, <1>12, <1>13 DEF Step

LEMMA KnowsBegin ==
  ASSUME Inv, FreshInv, NEW t \in Thread, NEW s \in Source,
         NEW force \in BOOLEAN, Begin(t, s, force)
  PROVE  Knows(t)'
<1>1. TypeOK /\ call' \in [Thread -> Call] /\ pc'[t] \in {"idle", "lock"}
  BY BeginInv DEF Inv, TypeOK, Begin, Goto, Answer
<1>3. /\ call'[t].src = s /\ remote' = remote
      /\ s \in RemoteSource => call'[t].floor = remote[s]
  BY <1>1 DEF Begin, TypeOK, shared
<1>4. call'[t].src \in RemoteSource => call'[t].floor <= remote'[call'[t].src]
  <2>1. s \in RemoteSource => remote[s] \in Nat
    BY NumbersType
  <2> QED BY <1>3, <2>1
<1> QED BY <1>1, <1>4 DEF Knows

LEMMA NextThread ==
  ASSUME Inv, FreshInv, Grows, [Next]_vars
  PROVE  ThreadInv'
<1>1. Inv'
  BY NextInv
<1> SUFFICES ASSUME NEW u \in Thread PROVE Knows(u)'
  BY DEF ThreadInv
<1>2. ASSUME NEW t \in Thread, Step(t) PROVE Knows(u)'
  <2>1. CASE u = t
    BY <1>2, <2>1, KnowsLearned
  <2>2. CASE u # t
    <3>1. pc'[u] = pc[u] /\ call'[u] = call[u]
      BY <1>2, <2>2, StepFrame
    <3>2. pc[u] \in LockedPC =>
            /\ MyTmp(u)' = MyTmp(u) /\ file'[PathOf(u)] = file[PathOf(u)]
            /\ sidecar'[PathOf(u)] = sidecar[PathOf(u)]
      BY <1>2, <2>2, <3>1, StepFrame DEF MyTmp, PathOf
    <3> QED BY <1>1, <3>1, <3>2, KnowsKept
  <2> QED BY <2>1, <2>2
<1>3. ASSUME NEW t \in Thread, NEW s \in Source, NEW force \in BOOLEAN,
             Begin(t, s, force)
      PROVE  Knows(u)'
  <2>1. CASE u = t
    BY <1>3, <2>1, KnowsBegin
  <2>2. CASE u # t
    <3>1. pc'[u] = pc[u] /\ call'[u] = call[u] /\ file' = file /\ tmp' = tmp
          /\ sidecar' = sidecar
      BY <1>3, <2>2 DEF Inv, TypeOK, Begin, Goto, Answer, shared
    <3> QED BY <1>1, <3>1, KnowsKept DEF MyTmp, PathOf
  <2> QED BY <2>1, <2>2
<1>4. ASSUME \/ UNCHANGED vars
             \/ \E t \in Thread : Interrupt(t)
             \/ \E p \in Process : Crash(p)
             \/ \E p \in Process : Start(p)
             \/ \E p, q \in Process : Fork(p, q)
             \/ \E s \in RemoteSource : RemoteGrows(s)
      PROVE  Knows(u)'
  <2>1. pc'[u] \in {pc[u], "idle"} /\ call' = call /\ file' = file /\ tmp' = tmp
        /\ sidecar' = sidecar
    BY <1>4 DEF Inv, TypeOK, Interrupt, Crash, Start, Fork, RemoteGrows, Goto,
       Answer, shared, vars
  <2> QED BY <1>1, <2>1, KnowsKept DEF MyTmp, PathOf
<1> QED BY <1>2, <1>3, <1>4 DEF Next

LEMMA NextFile ==
  ASSUME Inv, FreshInv, Grows, [Next]_vars
  PROVE  FileInv'
<1>1. Inv' /\ TypeOK /\ TmpInv /\ FileInv
  BY NextInv DEF Inv, FreshInv
<1>2. \A s \in RemoteSource :
        remote[s] \in Nat /\ remote'[s] \in Nat /\ remote'[s] >= remote[s]
  BY <1>1, BoundAssumption DEF Inv, TypeOK, Version, Grows
<1>3. CASE \E t \in Thread : Publish(t)
  <2>1. PICK t \in Thread : Publish(t)
    BY <1>3
  <2>2. PathOf(t) \in Path /\ MyTmp(t) \in Database /\ MyTmp(t).src = call[t].src
        /\ MyTmp(t).version <= remote[call[t].src]
    BY <1>1, <2>1, PathOfType
       DEF Publish, TmpInv, FreshInv, ThreadInv, Knows, Transferred, Inv
  <2>3. file' = [file EXCEPT ![PathOf(t)] = MyTmp(t)] /\ remote' = remote
    BY <2>1 DEF Publish
  <2> QED BY <1>1, <2>2, <2>3 DEF FileInv, TypeOK, PathOf
<1>4. CASE file' = file
  <2> SUFFICES ASSUME NEW l \in Path, file[l] # None
               PROVE  LocalPath[file[l].src] = l
                      /\ file[l].version <= remote'[file[l].src]
    BY <1>4 DEF FileInv
  <2>1. file[l].src \in RemoteSource /\ file[l].version \in Nat
    BY <1>1, BoundAssumption DEF TypeOK, Database, Version
  <2> QED BY <1>1, <1>2, <2>1 DEF FileInv
<1> QED BY <1>3, <1>4 DEF Next, Begin, Step, Acquire, Stat, StatFails, Check,
        Fetch, FinishTransfer, DownloadFails, Cleanup, OpenSidecar, WriteSidecar,
        RecordFails, Remember, Interrupt, Crash, Start, Fork, RemoteGrows, shared,
        vars

LEMMA NextSidecar ==
  ASSUME Inv, FreshInv, Grows, [Next]_vars
  PROVE  SidecarInv'
<1>1. TypeOK /\ SidecarInv /\ ThreadInv
  BY DEF Inv, FreshInv
<1>2. \A s \in RemoteSource :
        remote[s] \in Nat /\ remote'[s] \in Nat /\ remote'[s] >= remote[s]
  BY NextInv, BoundAssumption DEF Inv, TypeOK, Version, Grows
<1>3. \A size : \A s \in RemoteSource :
        Covers(size, remote[s]) => Covers(size, remote'[s])
  BY <1>2, NumbersType DEF Covers
<1>4. \A l \in Path : sidecar[l] # None => sidecar[l].url \in RemoteSource
  BY <1>1 DEF TypeOK, Meta
<1>5. ASSUME NEW l \in Path, sidecar'[l] # None, sidecar'[l] = sidecar[l],
             file'[l] = file[l]
      PROVE  /\ file'[l] # None
             /\ Covers(sidecar'[l].size, remote'[sidecar'[l].url])
             /\ file'[l].src = sidecar'[l].url => Covers(sidecar'[l].size, file'[l].version)
  BY <1>1, <1>3, <1>4, <1>5 DEF SidecarInv
<1>6. CASE \E t \in Thread : WriteSidecar(t)
  <2>1. PICK t \in Thread : WriteSidecar(t)
    BY <1>6
  <2>2. /\ PathOf(t) \in Path /\ call[t].src \in RemoteSource
        /\ Told(t) /\ Published(t)
    BY <1>1, <2>1, PathOfType DEF Inv, LockInv, WriteSidecar, ThreadInv, Knows
  <2>3. sidecar' = [sidecar EXCEPT ![PathOf(t)] = MetaOf(t)] /\ file' = file
    BY <2>1 DEF WriteSidecar
  <2>4. Covers(call[t].size, remote'[call[t].src])
    BY <1>3, <2>2, ToldCovers
  <2>5. MetaOf(t).size = call[t].size /\ MetaOf(t).url = call[t].src
    BY DEF MetaOf
  <2>6. sidecar'[PathOf(t)] = MetaOf(t)
        /\ \A l \in Path : l # PathOf(t) => sidecar'[l] = sidecar[l]
    BY <1>1, <2>2, <2>3 DEF TypeOK
  <2>7. Covers(call[t].size, file'[PathOf(t)].version) /\ file'[PathOf(t)] # None
    BY <2>2, <2>3 DEF Published
  <2> QED BY <1>5, <2>3, <2>4, <2>5, <2>6, <2>7 DEF SidecarInv
<1>7. CASE \E t \in Thread : OpenSidecar(t)
  <2>1. PICK t \in Thread : OpenSidecar(t)
    BY <1>7
  <2>2. file' = file /\ \A l \in Path : sidecar'[l] # None => sidecar'[l] = sidecar[l]
    BY <1>1, <2>1 DEF TypeOK, OpenSidecar
  <2> QED BY <1>5, <2>2 DEF SidecarInv
<1>8. CASE \E t \in Thread : Publish(t)
  <2>1. PICK t \in Thread : Publish(t)
    BY <1>8
  <2>2. /\ PathOf(t) \in Path /\ MyTmp(t) \in Database /\ MyTmp(t) # None
        /\ MyTmp(t).src = call[t].src /\ Transferred(t)
    BY <1>1, <2>1, PathOfType, NoneRecordAssumption
       DEF Publish, TmpInv, ThreadInv, Knows, Inv
  <2>3. /\ file' = [file EXCEPT ![PathOf(t)] = MyTmp(t)] /\ remote' = remote
        /\ sidecar' = sidecar
    BY <2>1 DEF Publish
  <2>4. \A l \in Path : l # PathOf(t) => file'[l] = file[l]
    BY <1>1, <2>2, <2>3 DEF TypeOK
  <2>5. file'[PathOf(t)] = MyTmp(t)
    BY <1>1, <2>2, <2>3 DEF TypeOK
  <2>6. ASSUME sidecar[PathOf(t)] # None
        PROVE  /\ Covers(sidecar[PathOf(t)].size, remote[sidecar[PathOf(t)].url])
               /\ MyTmp(t).src = sidecar[PathOf(t)].url =>
                     Covers(sidecar[PathOf(t)].size, MyTmp(t).version)
    BY <1>1, <2>2, <2>6 DEF SidecarInv, Transferred
  <2> QED BY <1>5, <2>2, <2>3, <2>4, <2>5, <2>6 DEF SidecarInv
<1>9. CASE sidecar' = sidecar /\ file' = file
  BY <1>5, <1>9 DEF SidecarInv
<1> QED BY <1>6, <1>7, <1>8, <1>9 DEF Next, Begin, Step, Acquire, Stat, StatFails, Check,
        Fetch, FinishTransfer, DownloadFails, Cleanup, RecordFails,
        Remember, Interrupt, Crash, Start, Fork, RemoteGrows, shared, vars

(* Nobody transfers a thread's source while it gets its validation under the  *)
(* lock, and who begins a transfer brings what the remote has by then.        *)
LEMMA NextAhead ==
  ASSUME Inv, FreshInv, [Next]_vars
  PROVE  AheadInv'
<1>1. TypeOK /\ LockInv /\ TmpInv /\ ThreadInv /\ AheadInv
  BY DEF Inv, FreshInv
<1> SUFFICES ASSUME NEW t \in Thread, NEW u \in Thread, Settled(t)',
                    pc'[u] \in {"transfer", "publish"}, call'[u].src = call'[t].src
             PROVE  MyTmp(u)'.version >= call'[t].floor
  BY DEF AheadInv
<1>2. ASSUME Settled(t), pc[u] \in {"transfer", "publish"}, call[u].src = call[t].src
      PROVE  MyTmp(u).version >= call[t].floor
  BY <1>1, <1>2 DEF AheadInv
<1>3. ASSUME NEW w \in Thread, Step(w)
      PROVE  MyTmp(u)'.version >= call'[t].floor
  <2>1. \A x \in Thread : /\ call'[x].src = call[x].src
                           /\ call'[x].floor = call[x].floor /\ PathOf(x)' = PathOf(x)
    BY <1>3, StepArgs, StepFrame DEF PathOf
  <2>2. call[u].src = call[t].src /\ PathOf(u) = PathOf(t)
    BY <2>1 DEF PathOf
  <2>3. CASE Fetch(u)
    <3>1. call[u].src \in RemoteSource /\ PathOf(u) \in Path /\ ProcOf[u] \in Process
      BY <1>1, <2>3, PathOfType, ProcOfAssumption DEF Fetch, LockInv
    <3>2. MyTmp(u)'.version = remote[call[u].src]
      BY <1>1, <2>1, <2>3, <3>1 DEF Fetch, TypeOK, MyTmp
    <3>3. call[t].floor <= remote[call[t].src] /\ call[t].floor \in Nat
          /\ remote[call[t].src] \in Nat
      BY <1>1, <2>2, <3>1, NumbersType DEF ThreadInv, Knows
    <3> QED BY <2>1, <2>2, <3>2, <3>3
  <2>4. CASE ~Fetch(u)
    <3>1. /\ pc[u] \in {"transfer", "publish"} /\ MyTmp(u)'.version = MyTmp(u).version
          /\ w = u => pc'[u] = "publish" /\ pc[u] = "transfer" /\ FinishTransfer(u)
      <4>1. CASE w # u
        BY <1>3, <2>1, <4>1, StepFrame DEF MyTmp, LockedPC
      <4>2. CASE w = u
        <5>1. FinishTransfer(u)
          BY <1>1, <1>3, <2>4, <4>2 DEF TypeOK, Step, Acquire, Stat, StatFails, Check,
             Publish, DownloadFails, Cleanup, OpenSidecar, WriteSidecar, RecordFails,
             Remember, ServeCachedOrRaise, Answer, Goto
        <5>2. /\ MyTmp(u) \in Database /\ PathOf(u) \in Path /\ ProcOf[u] \in Process
              /\ pc[u] = "transfer" /\ pc'[u] = "publish"
          BY <1>1, <5>1, PathOfType, ProcOfAssumption
             DEF FinishTransfer, TmpInv, TypeOK, Goto
        <5>3. MyTmp(u)' = [MyTmp(u) EXCEPT !.whole = TRUE]
          BY <1>1, <2>1, <5>1, <5>2 DEF FinishTransfer, TypeOK, MyTmp
        <5> QED BY <5>1, <5>2, <5>3 DEF Database
      <4> QED BY <4>1, <4>2
    <3>2. Settled(t)
      <4>1. CASE w # t
        BY <1>3, <4>1, StepFrame DEF Settled
      <4>2. CASE w = t /\ (Check(t) \/ WriteSidecar(t))
        <5>1. pc[t] \in LockedPC /\ pc[u] \in LockedPC
          BY <3>1, <4>2 DEF Check, WriteSidecar, LockedPC
        <5>2. u = t
          BY <1>1, <2>2, <5>1, OneHolder
        <5> QED BY <3>1, <4>2, <5>2 DEF Check, WriteSidecar
      <4>3. CASE w = t /\ ~Check(t) /\ ~WriteSidecar(t)
        BY <1>1, <1>3, <4>3 DEF TypeOK, Settled, Step, Acquire, Stat, StatFails, Fetch,
           FinishTransfer, Publish, DownloadFails, Cleanup, OpenSidecar, RecordFails,
           Remember, ServeCachedOrRaise, Answer, Goto
      <4> QED BY <4>1, <4>2, <4>3
    <3> QED BY <1>2, <2>1, <2>2, <3>1, <3>2
  <2> QED BY <2>3, <2>4
<1>4. ASSUME ~ \E w \in Thread : Step(w)
      PROVE  MyTmp(u)'.version >= call'[t].floor
  <2>1. /\ pc'[u] = pc[u] /\ call'[u] = call[u] /\ tmp' = tmp
        /\ Settled(t) /\ call'[t] = call[t]
    <3>1. CASE \E w \in Thread, s \in Source, force \in BOOLEAN : Begin(w, s, force)
      BY <1>1, <3>1 DEF Begin, TypeOK, Answer, Goto, Settled, shared
    <3>2. CASE \/ UNCHANGED vars
               \/ \E w \in Thread : Interrupt(w)
               \/ \E p \in Process : Crash(p)
               \/ \E p \in Process : Start(p)
               \/ \E p, q \in Process : Fork(p, q)
               \/ \E s \in RemoteSource : RemoteGrows(s)
      BY <1>1, <3>2 DEF Interrupt, Crash, Start, Fork, RemoteGrows, TypeOK, Answer,
         Goto, Settled, shared, vars
    <3> QED BY <1>4, <3>1, <3>2 DEF Next
  <2> QED BY <1>2, <2>1 DEF MyTmp, PathOf
<1> QED BY <1>3, <1>4

LEMMA NextFresh ==
  ASSUME Inv, FreshInv, [Next]_vars
  PROVE  FreshInv' /\ Grows
BY NextGrows, NextThread, NextFile, NextSidecar, NextAhead DEF FreshInv

(* What a thread's latest answer says of the file it named.                   *)
AnswerTrue(t) ==
    result[t] \in {"current", "stale", "memo"} =>
        /\ pc[t] = "idle" /\ call[t].src \in RemoteSource
        /\ file[PathOf(t)] # None
        /\ result[t] = "current" => Serves(t)

AnswerInv == MemoBacked /\ \A t \in Thread : AnswerTrue(t)

LEMMA InitAnswer == Init => AnswerInv
BY DEF Init, AnswerInv, AnswerTrue, MemoBacked

(* A remembered source keeps its file, and one is remembered only with it.    *)
LEMMA NextMemo ==
  ASSUME Inv, FreshInv, Grows, MemoBacked, [Next]_vars
  PROVE  MemoBacked'
<1>1. TypeOK /\ LockInv /\ ThreadInv
  BY DEF Inv, FreshInv
<1>2. \A s \in RemoteSource : LocalPath[s] \in Path
  BY DEF Path
<1>3. \A s \in RemoteSource :
        file[LocalPath[s]] # None => file'[LocalPath[s]] # None
  BY <1>2 DEF Grows
<1>4. ASSUME NEW t \in Thread, Validated(t), file[PathOf(t)] # None,
             pc[t] # "idle"
      PROVE  MemoBacked'
  <2>1. call[t].src \in RemoteSource /\ PathOf(t) = LocalPath[call[t].src]
    BY <1>1, <1>4 DEF LockInv, PathOf
  <2>2. \A p \in Process : \A s \in memo'[p] : s \in memo[p] \/ s = call[t].src
    BY <1>1, <1>4 DEF TypeOK, Validated
  <2>3. \A p \in Process : \A s \in memo[p] : s \in RemoteSource
    BY <1>1 DEF TypeOK
  <2> QED BY <1>3, <1>4, <2>1, <2>2, <2>3 DEF MemoBacked
<1>5. ASSUME \A p \in Process : \E q \in Process : memo'[p] \subseteq memo[q]
      PROVE  MemoBacked'
  BY <1>1, <1>3, <1>5 DEF MemoBacked, TypeOK
<1>6. CASE memo' = memo
  BY <1>5, <1>6
<1>7. CASE \E t \in Thread : StatFails(t) \/ Cleanup(t) \/ Remember(t)
  BY <1>1, <1>4, <1>6, <1>7
     DEF StatFails, Cleanup, Remember, ServeCachedOrRaise, ThreadInv, Knows, Serves
<1>8. CASE \E p \in Process : Crash(p)
  BY <1>1, <1>5, <1>8 DEF Crash, TypeOK
<1>9. CASE \E p, q \in Process : Fork(p, q)
  BY <1>1, <1>5, <1>9 DEF Fork, TypeOK
<1> QED BY <1>6, <1>7, <1>8, <1>9 DEF Next, Begin, Step, Acquire, Stat, Check,
        Fetch, FinishTransfer, Publish, DownloadFails, OpenSidecar, WriteSidecar,
        RecordFails, Interrupt, Start, RemoteGrows, vars

(* An answer given stays true, whoever replaces the file it named.            *)
LEMMA AnswerKept ==
  ASSUME Inv, FreshInv, Grows, [Next]_vars, NEW u \in Thread, AnswerTrue(u),
         call'[u] = call[u], pc'[u] = pc[u], result'[u] = result[u]
  PROVE  AnswerTrue(u)'
<1> SUFFICES ASSUME result[u] \in {"current", "stale", "memo"}
             PROVE  AnswerTrue(u)'
  BY DEF AnswerTrue
<1>1. /\ pc[u] = "idle" /\ call[u].src \in RemoteSource
      /\ file[PathOf(u)] # None /\ PathOf(u)' = PathOf(u)
  BY DEF AnswerTrue, PathOf
<1>2. file'[PathOf(u)] # None
  BY <1>1 DEF Grows, Path, PathOf
<1>3. result[u] = "current" => Serves(u)'
  BY <1>1, ServesKept DEF AnswerTrue, Settled
<1> QED BY <1>1, <1>2, <1>3 DEF AnswerTrue

(* An answer is true when it is given.                                        *)
LEMMA AnswerGiven ==
  ASSUME Inv, FreshInv, AnswerInv, NEW t \in Thread,
         Step(t) \/ \E s \in Source, force \in BOOLEAN : Begin(t, s, force)
  PROVE  AnswerTrue(t)'
<1>1. TypeOK /\ LockInv /\ Knows(t) /\ AnswerTrue(t) /\ MemoBacked
  BY DEF Inv, FreshInv, AnswerInv, ThreadInv
<1>2. ASSUME NEW s \in Source, NEW force \in BOOLEAN, Begin(t, s, force)
      PROVE  AnswerTrue(t)'
  <2>1. CASE result'[t] = "memo"
    <3>1. s \in memo[ProcOf[t]] /\ pc'[t] = "idle"
      BY <1>1, <1>2, <2>1 DEF Begin, Answer, Goto, TypeOK
    <3>2. s \in RemoteSource /\ file[LocalPath[s]] # None
      BY <1>1, <3>1, ProcOfAssumption DEF TypeOK, MemoBacked
    <3>3. call'[t].src = s /\ file' = file
      BY <1>1, <1>2 DEF Begin, TypeOK, shared
    <3> QED BY <2>1, <3>1, <3>2, <3>3 DEF AnswerTrue, PathOf
  <2>2. CASE result'[t] # "memo"
    <3>1. result'[t] \in {"none", "asis"}
      BY <1>1, <1>2, <2>2 DEF Begin, Answer, TypeOK
    <3> QED BY <3>1 DEF AnswerTrue
  <2> QED BY <2>1, <2>2
<1>3. ASSUME Step(t)
      PROVE  AnswerTrue(t)'
  <2>1. pc[t] # "idle" /\ result[t] \notin {"current", "stale", "memo"}
    BY <1>1, <1>3 DEF AnswerTrue, Step, Acquire, Stat, StatFails, Check, Fetch,
       FinishTransfer, Publish, DownloadFails, Cleanup, OpenSidecar,
       WriteSidecar, RecordFails, Remember
  <2>2. call[t].src \in RemoteSource /\ PathOf(t)' = PathOf(t)
        /\ call'[t].src = call[t].src
    BY <1>1, <1>3, <2>1, StepArgs DEF LockInv
  <2>3. CASE Remember(t)
    <3>1. /\ pc'[t] = "idle" /\ file' = file /\ call' = call /\ Serves(t)
          /\ result'[t] = "current"
      BY <1>1, <2>3 DEF Remember, Answer, Goto, TypeOK, Knows, shared
    <3>2. Serves(t)'
      BY <3>1 DEF Serves, PathOf
    <3> QED BY <2>2, <3>1, <3>2 DEF AnswerTrue, Serves
  <2>4. CASE StatFails(t) \/ Cleanup(t)
    <3>1. /\ pc'[t] = "idle" /\ file' = file
          /\ \/ result'[t] = "stale" /\ file[PathOf(t)] # None
             \/ result'[t] = "error"
      BY <1>1, <2>4 DEF StatFails, Cleanup, ServeCachedOrRaise, Answer, Goto,
         TypeOK, shared
    <3> QED BY <2>2, <3>1 DEF AnswerTrue
  <2>5. CASE ~Remember(t) /\ ~StatFails(t) /\ ~Cleanup(t)
    <3>1. result'[t] \in {result[t], "error"}
      BY <1>1, <1>3, <2>5 DEF Step, Acquire, Stat, Check, Fetch, FinishTransfer,
         Publish, DownloadFails, OpenSidecar, WriteSidecar, RecordFails, Answer,
         TypeOK
    <3> QED BY <2>1, <3>1 DEF AnswerTrue
  <2> QED BY <2>3, <2>4, <2>5
<1> QED BY <1>2, <1>3

LEMMA NextAnswer ==
  ASSUME Inv, FreshInv, AnswerInv, Grows, [Next]_vars
  PROVE  AnswerInv'
<1>1. Inv' /\ TypeOK /\ MemoBacked'
  BY NextInv, NextMemo DEF Inv, AnswerInv
<1> SUFFICES ASSUME NEW u \in Thread PROVE AnswerTrue(u)'
  BY <1>1 DEF AnswerInv
<1>2. AnswerTrue(u)
  BY DEF AnswerInv
<1>3. ASSUME NEW t \in Thread, Step(t) PROVE AnswerTrue(u)'
  BY <1>1, <1>2, <1>3, AnswerGiven, AnswerKept, StepFrame
<1>4. ASSUME NEW t \in Thread,
             \E s \in Source, force \in BOOLEAN : Begin(t, s, force)
      PROVE  AnswerTrue(u)'
  <2>1. CASE u = t
    BY <1>4, <2>1, AnswerGiven
  <2>2. CASE u # t
    <3>1. call'[u] = call[u] /\ pc'[u] = pc[u] /\ result'[u] = result[u]
      BY <1>1, <1>4, <2>2 DEF Begin, Answer, Goto, TypeOK
    <3> QED BY <1>1, <1>2, <3>1, AnswerKept
  <2> QED BY <2>1, <2>2
<1>5. ASSUME \/ UNCHANGED vars
             \/ \E t \in Thread : Interrupt(t)
             \/ \E p \in Process : Crash(p)
             \/ \E p \in Process : Start(p)
             \/ \E p, q \in Process : Fork(p, q)
             \/ \E s \in RemoteSource : RemoteGrows(s)
      PROVE  AnswerTrue(u)'
  <2>1. /\ call'[u] = call[u]
        /\ \/ result'[u] = result[u] /\ pc'[u] = pc[u]
           \/ result'[u] \in {"none", "error"}
    BY <1>1, <1>5 DEF Interrupt, Crash, Start, Fork, RemoteGrows, Answer, Goto,
       TypeOK, vars
  <2> QED BY <1>1, <1>2, <2>1, AnswerKept DEF AnswerTrue
<1> QED BY <1>3, <1>4, <1>5 DEF Next

LEMMA SpecAnswer == Spec => [](Inv /\ FreshInv /\ AnswerInv)
<1>1. Init => Inv /\ FreshInv /\ AnswerInv
  BY InitInv, InitFresh, InitAnswer
<1>2. (Inv /\ FreshInv /\ AnswerInv) /\ [Next]_vars
        => (Inv /\ FreshInv /\ AnswerInv)'
  BY NextInv, NextFresh, NextAnswer
<1> QED BY <1>1, <1>2, PTL DEF Spec

(* If later versions of a database differ in size, the path a validated call  *)
(* returned holds nothing older of its source than the remote had when the    *)
(* call began, for ever after and whatever others do, those who cache another *)
(* source of the same basename included.                                      *)
THEOREM CacheServedFresh ==
  ASSUME SizesDiffer
  PROVE  Spec => []ServedFresh
<1>1. AnswerInv => ServedFresh
  BY DEF AnswerInv, AnswerTrue, Serves, ServedFresh
<1> QED BY <1>1, SpecAnswer, PTL

(* The published database never goes back to an older version of its source,  *)
(* whatever sizes and basenames are.                                          *)
THEOREM CacheNeverRegresses == Spec => NeverRegresses
<1>1. Inv /\ FreshInv /\ [Next]_vars =>
        [\A l \in Path :
           (file[l] # None /\ file'[l] # None /\ file'[l].src = file[l].src) =>
              file'[l].version >= file[l].version]_vars
  BY NextFresh DEF Grows
<1> QED BY <1>1, SpecAnswer, PTL DEF Spec, NeverRegresses

(* The lock-free answer of the memo always names a file that exists.          *)
THEOREM CacheMemoBacked == Spec => []MemoBacked
BY SpecAnswer, PTL DEF AnswerInv

-----------------------------------------------------------------------------
(* Until the first fault a sidecar vouches for the source of the file beside  *)
(* it, but between an os.replace and the sidecar's own replacement.           *)
OwnInv ==
    faults = 0 =>
        \A l \in Path : sidecar[l] # None =>
            \/ file[l] # None /\ file[l].src = sidecar[l].url
            \/ \E t \in Thread : pc[t] = "record" /\ PathOf(t) = l

LEMMA NextOwn ==
  ASSUME Inv, FreshInv, OwnInv, [Next]_vars
  PROVE  OwnInv'
<1>1. TypeOK /\ LockInv /\ TmpInv /\ ThreadInv
  BY DEF Inv, FreshInv
<1> SUFFICES ASSUME faults' = 0, NEW l \in Path, sidecar'[l] # None
             PROVE  \/ file'[l] # None /\ file'[l].src = sidecar'[l].url
                    \/ \E t \in Thread : pc'[t] = "record" /\ PathOf(t)' = l
  BY DEF OwnInv, PathOf
<1>2. faults = 0 /\ ~Fault
  <2>1. faults' = faults \/ Fault
    BY DEF Next, Step, Acquire, Stat, StatFails, Check, Fetch, FinishTransfer, Publish,
       DownloadFails, Cleanup, OpenSidecar, WriteSidecar, RecordFails, Remember, Begin,
       Interrupt, Crash, Start, Fork, RemoteGrows, vars
  <2> QED BY <1>1, <2>1 DEF TypeOK, Fault
<1>3. sidecar[l] # None =>
        \/ file[l] # None /\ file[l].src = sidecar[l].url
        \/ \E t \in Thread : pc[t] = "record" /\ PathOf(t) = l
  BY <1>2 DEF OwnInv
<1>4. ASSUME NEW t \in Thread, Step(t)
      PROVE  \/ file'[l] # None /\ file'[l].src = sidecar'[l].url
             \/ \E u \in Thread : pc'[u] = "record" /\ PathOf(u)' = l
  <2>1. pc[t] # "idle" /\ \A u \in Thread : PathOf(u)' = PathOf(u)
    <3>1. pc[t] # "idle"
      BY <1>4 DEF Step, Acquire, Stat, StatFails, Check, Fetch, FinishTransfer, Publish,
         DownloadFails, Cleanup, OpenSidecar, WriteSidecar, RecordFails, Remember
    <3>2. \A u \in Thread : u # t => call'[u] = call[u]
      BY <1>4, StepFrame
    <3> QED BY <1>4, <3>1, <3>2, StepArgs DEF PathOf
  <2>2. PathOf(t) \in Path
    BY <1>1, <2>1, PathOfType
  <2>3. CASE WriteSidecar(t) /\ l = PathOf(t)
    <3>1. file' = file /\ sidecar'[l] = MetaOf(t) /\ Published(t)
      BY <1>1, <2>3 DEF WriteSidecar, TypeOK, ThreadInv, Knows
    <3> QED BY <2>3, <3>1 DEF Published, MetaOf
  <2>4. CASE Publish(t) /\ l = PathOf(t)
    <3>1. pc'[t] = "record"
      BY <1>1, <2>4 DEF Publish, Goto, TypeOK
    <3> QED BY <2>1, <2>4, <3>1
  <2>5. CASE OpenSidecar(t) /\ l = PathOf(t)
    BY <1>1, <2>5 DEF OpenSidecar, TypeOK
  <2>6. CASE ~(l = PathOf(t) /\ (WriteSidecar(t) \/ Publish(t) \/ OpenSidecar(t)))
    <3>1. file'[l] = file[l] /\ sidecar'[l] = sidecar[l]
      BY <1>1, <1>4, <2>2, <2>6 DEF TypeOK, Step, Acquire, Stat, StatFails, Check, Fetch,
         FinishTransfer, Publish, DownloadFails, Cleanup, OpenSidecar, WriteSidecar,
         RecordFails, Remember, shared
    <3>2. ASSUME NEW u \in Thread, pc[u] = "record", PathOf(u) = l
          PROVE  pc'[u] = "record"
      <4>1. CASE u # t
        BY <1>4, <3>2, <4>1, StepFrame
      <4>2. CASE u = t
        BY <1>2, <1>4, <2>6, <3>2, <4>2 DEF Step, Acquire, Stat, StatFails, Check, Fetch,
           FinishTransfer, Publish, DownloadFails, Cleanup, OpenSidecar, WriteSidecar,
           RecordFails, Remember
      <4> QED BY <4>1, <4>2
    <3> QED BY <1>3, <2>1, <3>1, <3>2
  <2> QED BY <2>3, <2>4, <2>5, <2>6
<1>5. ASSUME ~ \E t \in Thread : Step(t)
      PROVE  \/ file'[l] # None /\ file'[l].src = sidecar'[l].url
             \/ \E u \in Thread : pc'[u] = "record" /\ PathOf(u)' = l
  <2>1. /\ file' = file /\ sidecar' = sidecar
        /\ \A u \in Thread : pc[u] = "record" => pc'[u] = pc[u] /\ call'[u] = call[u]
    <3>1. CASE \E w \in Thread, s \in Source, force \in BOOLEAN : Begin(w, s, force)
      BY <1>1, <3>1 DEF Begin, TypeOK, Answer, Goto, shared
    <3>2. CASE \/ UNCHANGED vars
               \/ \E p \in Process : Start(p)
               \/ \E p, q \in Process : Fork(p, q)
               \/ \E s \in RemoteSource : RemoteGrows(s)
      BY <3>2 DEF Start, Fork, RemoteGrows, shared, vars
    <3>3. CASE (\E w \in Thread : Interrupt(w)) \/ (\E p \in Process : Crash(p))
      BY <1>2, <3>3 DEF Interrupt, Crash
    <3> QED BY <1>5, <3>1, <3>2, <3>3 DEF Next
  <2> QED BY <1>3, <2>1 DEF PathOf
<1> QED BY <1>4, <1>5

(* Without a fault, a call lets the lock go over its own source's database,   *)
(* for any sources that share a basename (_local_path keeps nothing else of   *)
(* the URL) and any sizes: the url in the sidecar tells them apart.           *)
THEOREM CacheOwnSource == Spec => OwnSource
<1>1. Init => OwnInv
  BY DEF Init, OwnInv
<1>2. (Inv /\ FreshInv /\ OwnInv) /\ [Next]_vars => OwnInv'
  BY NextOwn
<1>3. (Inv /\ FreshInv /\ OwnInv) /\ [Next]_vars =>
        [\A t \in Thread :
           (pc[t] \in LockedPC /\ pc'[t] = "remember" /\ faults = 0) =>
              /\ file'[PathOf(t)] # None
              /\ file'[PathOf(t)].src = call[t].src]_vars
  <2> SUFFICES ASSUME Inv, FreshInv, OwnInv, Next, NEW t \in Thread,
                      pc[t] \in LockedPC, pc'[t] = "remember", faults = 0
               PROVE  file'[PathOf(t)] # None /\ file'[PathOf(t)].src = call[t].src
    OBVIOUS
  <2>1. TypeOK /\ LockInv /\ ThreadInv /\ PathOf(t) \in Path
        /\ call[t].src \in RemoteSource /\ call[t] \in Call
    BY PathOfType DEF Inv, FreshInv, LockInv, LockedPC, TypeOK
  <2>2. Step(t)
    <3>1. pc'[t] # pc[t] /\ pc'[t] \notin {"idle", "lock"}
      BY DEF LockedPC
    <3>2. ~ \E u \in Thread : u # t /\ Step(u)
      BY <3>1, StepFrame
    <3> QED BY <2>1, <3>1, <3>2 DEF Next, Begin, Interrupt, Crash, Start, Fork,
            RemoteGrows, Answer, Goto, TypeOK
  <2>3. CASE WriteSidecar(t)
    <3>1. file' = file /\ Published(t)
      BY <2>1, <2>3 DEF WriteSidecar, ThreadInv, Knows
    <3> QED BY <3>1 DEF Published
  <2>4. CASE Check(t)
    <3>1. ~NeedsDownload(t) /\ file' = file /\ pc[t] = "check"
      BY <2>1, <2>4 DEF Check, TypeOK, Goto, shared
    <3>2. sidecar[PathOf(t)] # None /\ sidecar[PathOf(t)].url = call[t].src
      <4>1. MetaOf(t) # None /\ MetaOf(t).url = call[t].src
        BY <2>1, NoneRecordAssumption DEF MetaOf, Meta, Call
      <4>2. StalenessKey(sidecar[PathOf(t)]) = StalenessKey(MetaOf(t))
        BY <3>1 DEF NeedsDownload
      <4>3. call[t].src # None
        BY <2>1, RemoteAssumption, NoneAssumption
      <4> QED BY <4>1, <4>2, <4>3 DEF StalenessKey
    <3>3. ~ \E u \in Thread : pc[u] = "record" /\ PathOf(u) = PathOf(t)
      BY <2>1, <3>1, OneHolder DEF LockedPC
    <3> QED BY <2>1, <3>1, <3>2, <3>3 DEF OwnInv
  <2>5. CASE ~WriteSidecar(t) /\ ~Check(t)
    BY <2>1, <2>2, <2>5 DEF TypeOK, Step, Acquire, Stat, StatFails, Fetch, FinishTransfer,
       Publish, DownloadFails, Cleanup, OpenSidecar, RecordFails, Remember,
       ServeCachedOrRaise, Answer, Goto, LockedPC
  <2> QED BY <2>3, <2>4, <2>5
<1>4. Spec => []OwnInv
  BY <1>1, <1>2, SpecAnswer, PTL DEF Spec
<1> QED BY <1>3, <1>4, SpecAnswer, PTL DEF Spec, OwnSource

-----------------------------------------------------------------------------
(* The refinement.  What a client of CakeStore sees of this module's state.   *)
Asked == {t \in Thread : pc[t] # "idle"}
Want == [t \in Thread |-> call[t].src]
Floor == [t \in Thread |-> call[t].floor]
Answers == [t \in Thread |-> AnswerOf(t)]

(* Two versions of the clients' view are equal when, thread by thread, nothing *)
(* they read has changed.                                                     *)
LEMMA ViewKept ==
  ASSUME \A t \in Thread :
           /\ (pc'[t] = "idle") = (pc[t] = "idle")
           /\ call'[t].src = call[t].src /\ call'[t].floor = call[t].floor
           /\ AnswerOf(t)' = AnswerOf(t)
  PROVE  Asked' = Asked /\ Want' = Want /\ Floor' = Floor /\ Answers' = Answers
BY DEF Asked, Want, Floor, Answers

LEMMA HeldKept == ASSUME file' = file PROVE Held' = Held
BY DEF Held

(* An answer from a stat that reported a size is the only one that is not     *)
(* weakened, and a thread inside a call has none yet.                         *)
LEMMA NoAnswerYet ==
  ASSUME AnswerInv, NEW t \in Thread, pc[t] # "idle"
  PROVE  AnswerOf(t) = result[t]
BY DEF AnswerInv, AnswerTrue, AnswerOf

LEMMA OthersKept ==
  ASSUME Inv, NEW t \in Thread, Step(t) \/ Interrupt(t), NEW u \in Thread, u # t
  PROVE  /\ pc'[u] = pc[u] /\ call'[u].src = call[u].src
         /\ call'[u].floor = call[u].floor /\ AnswerOf(u)' = AnswerOf(u)
<1>1. pc'[u] = pc[u] /\ call'[u] = call[u] /\ result'[u] = result[u]
  BY StepFrame DEF Interrupt, Answer, Goto, Inv, TypeOK
<1> QED BY <1>1 DEF AnswerOf

LEMMA InitStore == Init => Store!Init
BY NoneAssumption DEF Init, Store!Init, Held, AnswerOf, Path

(* Inside a call only os.replace is visible.                                  *)
LEMMA QuietStep ==
  ASSUME Inv, AnswerInv, NEW t \in Thread,
         \/ Acquire(t) \/ Stat(t) \/ Check(t) \/ Fetch(t) \/ FinishTransfer(t)
         \/ DownloadFails(t) \/ OpenSidecar(t) \/ WriteSidecar(t)
  PROVE  UNCHANGED Store!vars
<1>1. TypeOK /\ Step(t) /\ pc[t] # "idle"
  BY DEF Inv, Step, Acquire, Stat, Check, Fetch, FinishTransfer, DownloadFails,
     OpenSidecar, WriteSidecar
<1>2. pc'[t] # "idle" /\ remote' = remote /\ file' = file /\ result' = result
  BY <1>1 DEF TypeOK, Acquire, Stat, Check, Fetch, FinishTransfer, DownloadFails,
     OpenSidecar, WriteSidecar, Goto, shared
<1>3. result[t] \notin {"current", "stale", "memo"}
  BY <1>1 DEF AnswerInv, AnswerTrue
<1>4. AnswerOf(t)' = AnswerOf(t)
  BY <1>2, <1>3 DEF AnswerOf
<1>5. call'[t].src = call[t].src /\ call'[t].floor = call[t].floor
  BY <1>1, StepArgs
<1>6. \A u \in Thread :
        /\ (pc'[u] = "idle") = (pc[u] = "idle")
        /\ call'[u].src = call[u].src /\ call'[u].floor = call[u].floor
        /\ AnswerOf(u)' = AnswerOf(u)
  BY <1>1, <1>2, <1>4, <1>5, OthersKept
<1> QED BY <1>2, <1>6, ViewKept, HeldKept
        DEF Store!vars, Asked, Want, Floor, Answers

(* os.replace puts a version the remote has had in the place of an older one, *)
(* for the one source that has this path.                                     *)
LEMMA PublishReplaces ==
  ASSUME PathsDiffer, Inv, FreshInv, AnswerInv, NEW t \in Thread, Publish(t)
  PROVE  Store!Replace(call[t].src)
<1>1. TypeOK /\ LockInv /\ TmpInv /\ Knows(t) /\ Step(t) /\ pc[t] = "publish"
  BY DEF Inv, FreshInv, ThreadInv, Step, Publish
<1>2. /\ call[t].src \in RemoteSource /\ PathOf(t) \in Path
      /\ MyTmp(t) \in Database /\ MyTmp(t) # None
  BY <1>1, PathOfType, NoneRecordAssumption DEF LockInv, TmpInv
<1>3. /\ MyTmp(t).version \in Nat /\ MyTmp(t).version <= remote[call[t].src]
      /\ remote[call[t].src] \in Nat
  BY <1>1, <1>2, BoundAssumption, NumbersType DEF Database, Version, Knows, Transferred
<1>4. MyTmp(t).version \in 0..remote[call[t].src]
  BY <1>3
<1>5. Held[call[t].src] # None => MyTmp(t).version >= Held[call[t].src]
  <2>1. file[PathOf(t)] # None =>
          file[PathOf(t)].version <= MyTmp(t).version /\ file[PathOf(t)].version \in Nat
    <3>1. file[PathOf(t)] # None => file[PathOf(t)].src = call[t].src
      BY <1>1, OwnFile DEF FreshInv
    <3> QED BY <1>1, <1>2, <3>1, NumbersType DEF Knows, Transferred
  <2>2. Held[call[t].src] = IF file[PathOf(t)] = None THEN None
                            ELSE file[PathOf(t)].version
    BY <1>2 DEF Held, PathOf
  <2> QED BY <1>3, <2>1, <2>2
<1>6. Held' = [Held EXCEPT ![call[t].src] = MyTmp(t).version]
  <2>1. file' = [file EXCEPT ![PathOf(t)] = MyTmp(t)] /\ DOMAIN file = Path
    BY <1>1 DEF Publish, TypeOK
  <2>2. \A s \in RemoteSource :
          LocalPath[s] \in Path /\ (LocalPath[s] = PathOf(t) => s = call[t].src)
    BY <1>2 DEF Path, PathOf, PathsDiffer
  <2>3. \A s \in RemoteSource : s # call[t].src =>
          file'[LocalPath[s]] = file[LocalPath[s]]
    BY <2>1, <2>2
  <2>4. file'[LocalPath[call[t].src]] = MyTmp(t)
    BY <1>2, <2>1 DEF PathOf
  <2> QED BY <1>2, <2>3, <2>4 DEF Held
<1>7. UNCHANGED <<remote, Asked, Want, Floor, Answers>>
  <2>1. pc'[t] # "idle" /\ remote' = remote /\ call' = call /\ result' = result
    BY <1>1 DEF Publish, Goto, TypeOK
  <2>2. AnswerOf(t)' = AnswerOf(t)
    BY <2>1 DEF AnswerOf
  <2>3. \A u \in Thread :
          /\ (pc'[u] = "idle") = (pc[u] = "idle")
          /\ call'[u].src = call[u].src /\ call'[u].floor = call[u].floor
          /\ AnswerOf(u)' = AnswerOf(u)
    BY <1>1, <2>1, <2>2, OthersKept
  <2> QED BY <2>1, <2>3, ViewKept
<1> QED BY <1>4, <1>5, <1>6, <1>7
        DEF Store!Replace, Asked, Want, Floor, Answers

(* A call that ends gives an honest answer.                                   *)
LEMMA EndReplies ==
  ASSUME PathsDiffer, SizesDiffer, Inv, FreshInv, AnswerInv, AnswerInv', NEW t \in Thread,
         \/ StatFails(t) \/ Cleanup(t) \/ RecordFails(t) \/ Remember(t)
         \/ Interrupt(t)
  PROVE  Store!Reply(t)
<1>1. TypeOK /\ (Step(t) \/ Interrupt(t)) /\ pc[t] # "idle"
  BY DEF Inv, Step, StatFails, Cleanup, RecordFails, Remember, Interrupt
<1>2. /\ pc' = [pc EXCEPT ![t] = "idle"] /\ call' = call
      /\ remote' = remote /\ file' = file
      /\ result'[t] \in {"current", "stale", "error"}
  BY <1>1 DEF TypeOK, StatFails, Cleanup, RecordFails, Remember, Interrupt,
     ServeCachedOrRaise, Answer, Goto, shared
<1>3. Held' = Held /\ Want' = Want /\ Floor' = Floor
  BY <1>2, HeldKept DEF Want, Floor
<1>4. Asked' = Asked \ {t} /\ t \in Asked
  BY <1>1, <1>2 DEF Asked, TypeOK
<1>5. Answers' = [Answers EXCEPT ![t] = AnswerOf(t)']
  BY <1>1, OthersKept DEF Answers
<1>6. Store!Honest(t, AnswerOf(t)') /\ AnswerOf(t)' \in {"current", "cached", "error"}
  <2>1. AnswerTrue(t)'
    BY DEF AnswerInv
  <2>2. CASE result'[t] = "error"
    BY <2>2 DEF AnswerOf, Store!Honest
  <2>3. CASE result'[t] \in {"current", "stale"}
    <3>1. /\ call[t].src \in RemoteSource /\ file[PathOf(t)] # None
          /\ (result'[t] = "current" /\ call[t].size # None) =>
               file[PathOf(t)].version >= call[t].floor
      <4>1. /\ call[t].src \in RemoteSource /\ file[PathOf(t)] # None
            /\ result'[t] = "current" => Serves(t)'
        BY <1>2, <2>1, <2>3 DEF AnswerTrue, PathOf
      <4>2. file[PathOf(t)].src = call[t].src
        BY <1>1, <4>1, OwnFile DEF FreshInv
      <4> QED BY <1>2, <4>1, <4>2 DEF Serves, PathOf
    <3>2. Held[call[t].src] = file[PathOf(t)].version /\ Held[call[t].src] # None
      <4>1. PathOf(t) \in Path /\ file[PathOf(t)].version \in Nat
        BY <3>1, NumbersType DEF Path, PathOf
      <4> QED BY <3>1, <4>1, NoneAssumption DEF Held, PathOf
    <3>3. \/ AnswerOf(t)' = "cached"
          \/ AnswerOf(t)' = "current" /\ result'[t] = "current" /\ call[t].size # None
      BY <1>2, <2>3 DEF AnswerOf
    <3> QED BY <3>1, <3>2, <3>3 DEF Store!Honest
  <2> QED BY <1>2, <2>2, <2>3
<1> QED BY <1>2, <1>3, <1>4, <1>5, <1>6
        DEF Store!Reply, Asked, Want, Floor, Answers

(* A call that begins is a question, answered at once from the memo or as is. *)
LEMMA BeginAsks ==
  ASSUME Inv, AnswerInv, NEW t \in Thread, NEW s \in Source, NEW force \in BOOLEAN,
         Begin(t, s, force)
  PROVE  Store!Ask(t, s)
<1>1. TypeOK /\ pc[t] = "idle" /\ ProcOf[t] \in Process /\ MemoBacked
  BY ProcOfAssumption DEF Inv, Begin, AnswerInv
<1>2. remote' = remote /\ file' = file /\ Held' = Held
  BY HeldKept DEF Begin, shared
<1>3. /\ Want' = [Want EXCEPT ![t] = s]
      /\ Floor' = [Floor EXCEPT ![t] = IF s \in RemoteSource THEN remote[s] ELSE 0]
  BY <1>1 DEF Begin, TypeOK, Want, Floor
<1>4. t \notin Asked
  BY <1>1 DEF Asked
<1>5. \A u \in Thread : u # t =>
        pc'[u] = pc[u] /\ AnswerOf(u)' = AnswerOf(u)
  BY <1>1 DEF Begin, TypeOK, Answer, Goto, AnswerOf
<1>6. Answers' = [Answers EXCEPT ![t] = AnswerOf(t)']
  BY <1>5 DEF Answers
<1>7. \/ s \notin RemoteSource /\ pc'[t] = "idle" /\ result'[t] = "asis"
      \/ s \in memo[ProcOf[t]] /\ pc'[t] = "idle" /\ result'[t] = "memo"
      \/ s \in RemoteSource /\ pc'[t] = "lock" /\ result'[t] = "none"
  BY <1>1 DEF Begin, TypeOK, Answer, Goto
<1>8. CASE s \notin RemoteSource /\ pc'[t] = "idle" /\ result'[t] = "asis"
  <2>1. Asked' = Asked /\ AnswerOf(t)' = "asis"
    BY <1>1, <1>5, <1>8 DEF Asked, AnswerOf
  <2> QED BY <1>2, <1>3, <1>4, <1>6, <1>8, <2>1
          DEF Store!Ask, Asked, Want, Floor, Answers
<1>9. CASE s \in memo[ProcOf[t]] /\ pc'[t] = "idle" /\ result'[t] = "memo"
  <2>1. Asked' = Asked /\ AnswerOf(t)' = "cached"
    BY <1>1, <1>5, <1>9 DEF Asked, AnswerOf
  <2>2. s \in RemoteSource /\ file[LocalPath[s]] # None
    BY <1>1, <1>9 DEF TypeOK, MemoBacked
  <2>3. Held[s] # None
    BY <2>2, NumbersType, NoneAssumption DEF Held, Path
  <2> QED BY <1>2, <1>3, <1>4, <1>6, <2>1, <2>2, <2>3
          DEF Store!Ask, Asked, Want, Floor, Answers
<1>10. CASE s \in RemoteSource /\ pc'[t] = "lock" /\ result'[t] = "none"
  <2>1. Asked' = Asked \cup {t} /\ AnswerOf(t)' = "none"
    BY <1>5, <1>10 DEF Asked, AnswerOf
  <2> QED BY <1>2, <1>3, <1>4, <1>6, <1>10, <2>1
          DEF Store!Ask, Asked, Want, Floor, Answers
<1> QED BY <1>7, <1>8, <1>9, <1>10

(* The death of a process takes its clients away and nothing else.            *)
LEMMA CrashVanishes ==
  ASSUME NEW p \in Process, Crash(p)
  PROVE  \E dead \in SUBSET Thread : Store!Vanish(dead)
<1> DEFINE dead == {t \in Thread : ProcOf[t] = p}
<1>1. /\ remote' = remote /\ Held' = Held /\ Want' = Want /\ Floor' = Floor
  BY HeldKept DEF Crash, shared, Want, Floor
<1>2. \A t \in Thread :
        /\ t \in dead => pc'[t] = "idle" /\ AnswerOf(t)' = "none"
        /\ t \notin dead => pc'[t] = pc[t] /\ AnswerOf(t)' = AnswerOf(t)
  BY DEF Crash, AnswerOf
<1>3. Asked' = Asked \ dead
  BY <1>2 DEF Asked
<1>4. Answers' = [t \in Thread |-> IF t \in dead THEN "none" ELSE Answers[t]]
  BY <1>2 DEF Answers
<1>5. Store!Vanish(dead)
  BY <1>1, <1>3, <1>4 DEF Store!Vanish, Asked, Want, Floor, Answers
<1> QED BY <1>5

LEMMA NextStore ==
  ASSUME PathsDiffer, SizesDiffer, Inv, FreshInv, AnswerInv, AnswerInv', [Next]_vars
  PROVE  [Store!Next]_Store!vars
<1>1. CASE \E t \in Thread, s \in Source, force \in BOOLEAN : Begin(t, s, force)
  BY <1>1, BeginAsks DEF Store!Next
<1>2. CASE \E t \in Thread : Publish(t)
  <2>1. PICK t \in Thread : Publish(t)
    BY <1>2
  <2>2. call[t].src \in RemoteSource
    BY <2>1 DEF Inv, LockInv, Publish
  <2> QED BY <2>1, <2>2, PublishReplaces DEF Store!Next
<1>3. CASE \E t \in Thread : \/ StatFails(t) \/ Cleanup(t) \/ RecordFails(t)
                             \/ Remember(t) \/ Interrupt(t)
  BY <1>3, EndReplies DEF Store!Next
<1>4. CASE \E t \in Thread :
             \/ Acquire(t) \/ Stat(t) \/ Check(t) \/ Fetch(t) \/ FinishTransfer(t)
             \/ DownloadFails(t) \/ OpenSidecar(t) \/ WriteSidecar(t)
  BY <1>4, QuietStep
<1>5. CASE \E p \in Process : Crash(p)
  BY <1>5, CrashVanishes DEF Store!Next
<1>6. CASE \E s \in RemoteSource : RemoteGrows(s)
  <2>1. PICK s \in RemoteSource : RemoteGrows(s)
    BY <1>6
  <2>2. file' = file /\ pc' = pc /\ call' = call /\ result' = result
    BY <2>1 DEF RemoteGrows
  <2>3. Held' = Held /\ Asked' = Asked /\ Want' = Want /\ Floor' = Floor
        /\ Answers' = Answers
    BY <2>2, HeldKept DEF Asked, Want, Floor, Answers, AnswerOf
  <2>4. Store!Grow(s)
    BY <2>1, <2>3 DEF RemoteGrows, Store!Grow, Asked, Want, Floor, Answers
  <2> QED BY <2>4 DEF Store!Next
<1>7. CASE \/ UNCHANGED vars
           \/ \E p \in Process : Start(p)
           \/ \E p, q \in Process : Fork(p, q)
  <2>1. remote' = remote /\ file' = file /\ pc' = pc /\ call' = call
        /\ result' = result
    BY <1>7 DEF vars, Start, Fork, shared
  <2>2. Held' = Held /\ Asked' = Asked /\ Want' = Want /\ Floor' = Floor
        /\ Answers' = Answers
    BY <2>1, HeldKept DEF Asked, Want, Floor, Answers, AnswerOf
  <2> QED BY <2>1, <2>2 DEF Store!vars, Asked, Want, Floor, Answers
<1> QED BY <1>1, <1>2, <1>3, <1>4, <1>5, <1>6, <1>7 DEF Next, Step

(* If versions differ in size, and (CakeStore keeps one copy a source) no two  *)
(* sources share a basename, the cache implements CakeStore: every step of    *)
(* ensure_local_cake_db in any thread, every crash, fork and interrupt is a   *)
(* step of the promise or changes nothing a client can see.                   *)
THEOREM CacheImplementsStore ==
  ASSUME PathsDiffer, SizesDiffer
  PROVE  Spec => StoreSpec
<1>1. Init => Store!Init
  BY InitStore
<1>2. (Inv /\ FreshInv /\ AnswerInv) /\ (Inv /\ FreshInv /\ AnswerInv)'
        /\ [Next]_vars => [Store!Next]_Store!vars
  BY NextStore
<1> QED BY <1>1, <1>2, SpecAnswer, PTL DEF Spec, StoreSpec, Store!Spec
=============================================================================
