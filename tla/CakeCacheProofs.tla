--------------------------- MODULE CakeCacheProofs ---------------------------
(* Proofs about CakeCache, for any number of processes, threads, sources,     *)
(* versions, calls and crashes.                                               *)
EXTENDS CakeCache, TLAPS

(* A thread inside a call asked for a remote source, and one inside the with  *)
(* block holds the lock of its path.                                          *)
LockInv ==
    \A t \in Thread :
        /\ pc[t] # "idle" => call[t].src \in RemoteSource
        /\ pc[t] \in LockedPC => holder[PathOf(t)] = t

(* While it transfers and until it publishes, a thread's temporary file is    *)
(* its own: it holds what this call fetched, all of it once the transfer has  *)
(* finished.  A second thread of the process would write the same name.       *)
TmpInv ==
    \A t \in Thread :
        /\ pc[t] \in {"transfer", "publish"} =>
              MyTmp(t) \in Database /\ MyTmp(t).src = call[t].src
        /\ pc[t] = "publish" => MyTmp(t).whole

Inv == TypeOK /\ LockInv /\ TmpInv /\ NoTornFile

(* The path of a thread inside a call is one of the cache's paths.            *)
LEMMA PathOfType ==
  ASSUME LockInv, NEW t \in Thread, pc[t] # "idle"
  PROVE  PathOf(t) \in Path
BY DEF LockInv, PathOf, Path

LEMMA InitInv == Init => Inv
BY BoundAssumption, NoneAssumption
   DEF Init, Inv, TypeOK, LockInv, TmpInv, NoTornFile, PC, LockedPC, Result, Call, Version

(* Type correctness of each step a thread takes inside a call.                *)
LEMMA StepType ==
  ASSUME Inv, NEW t \in Thread, Step(t)
  PROVE  TypeOK'
<1> USE DEF shared
<1>0. TypeOK /\ ProcOf[t] \in Process
  BY ProcOfAssumption DEF Inv
<1>1. PathOf(t) \in Path /\ call[t].src \in RemoteSource /\ pc[t] # "idle"
  <2>1. pc[t] # "idle"
    BY DEF Step, Acquire, Stat, StatFails, Check, Fetch,
     FinishTransfer, Publish, DownloadFails, Cleanup, OpenSidecar, WriteSidecar,
     RecordFails, Remember
  <2> QED BY <2>1, PathOfType DEF Inv, LockInv
<1>2. /\ \A label \in PC : Goto(t, label) => pc' \in [Thread -> PC]
      /\ \A r \in Result : Answer(t, r) =>
            pc' \in [Thread -> PC] /\ result' \in [Thread -> Result]
      /\ Release(t) => holder' \in [Path -> Thread \cup {None}]
      /\ Validated(t) => memo' \in [Process -> SUBSET RemoteSource]
  <2>1. \A label \in PC : Goto(t, label) => pc' \in [Thread -> PC]
    BY <1>0 DEF TypeOK, Goto
  <2>2. "idle" \in PC
    BY DEF PC
  <2>3. \A r \in Result : Answer(t, r) =>
            pc' \in [Thread -> PC] /\ result' \in [Thread -> Result]
    BY <1>0, <2>1, <2>2 DEF TypeOK, Answer
  <2>4. Release(t) => holder' \in [Path -> Thread \cup {None}]
    BY <1>0, <1>1 DEF TypeOK, Release
  <2>5. Validated(t) => memo' \in [Process -> SUBSET RemoteSource]
    BY <1>0, <1>1 DEF TypeOK, Validated
  <2> QED BY <2>1, <2>3, <2>4, <2>5
<1>3. ServeCachedOrRaise(t) =>
        /\ pc' \in [Thread -> PC] /\ result' \in [Thread -> Result]
        /\ holder' \in [Path -> Thread \cup {None}]
        /\ memo' \in [Process -> SUBSET RemoteSource]
  BY <1>0, <1>2 DEF TypeOK, ServeCachedOrRaise, Result
<1>4. \A label \in LockedPC \cup {"remember"} : label \in PC
  BY DEF PC
<1>5. CASE Acquire(t)
  BY <1>0, <1>1, <1>2, <1>4, <1>5 DEF TypeOK, Acquire, LockedPC
<1>6. CASE Stat(t)
  <2>1. SizeOf[remote[call[t].src]] \in Nat
    BY <1>0, <1>1, SizeAssumption DEF TypeOK
  <2>2. call' \in [Thread -> Call]
    BY <1>0, <1>6, <2>1 DEF TypeOK, Stat, Call
  <2> QED BY <1>0, <1>2, <1>4, <1>6, <2>2 DEF TypeOK, Stat, LockedPC
<1>7. CASE StatFails(t)
  BY <1>0, <1>3, <1>7 DEF TypeOK, StatFails
<1>8. CASE Check(t)
  BY <1>0, <1>2, <1>4, <1>8 DEF TypeOK, Check, LockedPC
<1>9. CASE Fetch(t)
  <2> DEFINE d == [src |-> call[t].src, version |-> remote[call[t].src],
                   whole |-> FALSE]
  <2>1. d \in Database
    BY <1>0, <1>1 DEF TypeOK, Database
  <2>2. tmp' \in [Process -> [Path -> Database \cup {None}]]
    BY <1>0, <1>1, <1>9, <2>1 DEF TypeOK, Fetch
  <2> QED BY <1>0, <1>2, <1>4, <1>9, <2>2 DEF TypeOK, Fetch, LockedPC
<1>10. CASE FinishTransfer(t)
  <2>1. MyTmp(t) \in Database
    BY <1>10 DEF Inv, TmpInv, FinishTransfer
  <2>2. [MyTmp(t) EXCEPT !.whole = TRUE] \in Database
    BY <2>1 DEF Database
  <2>3. tmp' \in [Process -> [Path -> Database \cup {None}]]
    BY <1>0, <1>1, <1>10, <2>2 DEF TypeOK, FinishTransfer, MyTmp
  <2> QED BY <1>0, <1>2, <1>4, <1>10, <2>3 DEF TypeOK, FinishTransfer, LockedPC
<1>11. CASE Publish(t)
  BY <1>0, <1>1, <1>2, <1>4, <1>11 DEF TypeOK, Publish, MyTmp, LockedPC
<1>12. CASE DownloadFails(t)
  BY <1>0, <1>2, <1>4, <1>12 DEF TypeOK, DownloadFails, LockedPC
<1>13. CASE Cleanup(t)
  <2>1. faults' \in 0..MaxFaults
    BY <1>0, <1>13, BoundAssumption DEF TypeOK, Cleanup, Fault
  <2>2. tmp' \in [Process -> [Path -> Database \cup {None}]]
    <3>1. \/ tmp' = tmp
          \/ tmp' = [tmp EXCEPT ![ProcOf[t]][PathOf(t)] = None]
      BY <1>13 DEF Cleanup
    <3> DEFINE row == [tmp[ProcOf[t]] EXCEPT ![PathOf(t)] = None]
    <3>2. row \in [Path -> Database \cup {None}]
      BY <1>0, <1>1 DEF TypeOK
    <3>3. tmp' = tmp \/ tmp' = [tmp EXCEPT ![ProcOf[t]] = row]
      BY <3>1
    <3> HIDE DEF row
    <3> QED BY <1>0, <3>2, <3>3 DEF TypeOK
  <2> QED BY <1>0, <1>3, <1>13, <2>1, <2>2 DEF TypeOK, Cleanup
<1>14. CASE OpenSidecar(t)
  BY <1>0, <1>1, <1>2, <1>4, <1>14 DEF TypeOK, OpenSidecar, LockedPC
<1>15. CASE WriteSidecar(t)
  <2>1. MetaOf(t) \in Meta
    BY <1>0, <1>1 DEF TypeOK, MetaOf, Meta, Call
  <2> QED BY <1>0, <1>1, <1>2, <1>4, <1>15, <2>1 DEF TypeOK, WriteSidecar
<1>16. CASE RecordFails(t)
  <2>1. faults' \in 0..MaxFaults
    BY <1>0, <1>16, BoundAssumption DEF TypeOK, RecordFails, Fault
  <2> QED BY <1>0, <1>2, <1>16, <2>1 DEF TypeOK, RecordFails, Result
<1>17. CASE Remember(t)
  BY <1>0, <1>2, <1>17 DEF TypeOK, Remember, Result
<1> QED BY <1>5, <1>6, <1>7, <1>8, <1>9, <1>10, <1>11, <1>12, <1>13, <1>14,
           <1>15, <1>16, <1>17 DEF Step

(* The with block excludes: two threads inside it are at different paths.     *)
LEMMA OneHolder ==
  ASSUME LockInv, NEW t \in Thread, NEW u \in Thread, t # u,
         pc[t] \in LockedPC, pc[u] \in LockedPC
  PROVE  PathOf(t) # PathOf(u)
BY DEF LockInv

(* A step changes nothing of another thread, and if that thread is inside the *)
(* with block, nothing of the files at its path either.                       *)
LEMMA StepFrame ==
  ASSUME Inv, NEW t \in Thread, Step(t), NEW u \in Thread, u # t
  PROVE  /\ pc'[u] = pc[u] /\ call'[u] = call[u] /\ result'[u] = result[u]
         /\ pc[u] \in LockedPC =>
              /\ holder'[PathOf(u)] = holder[PathOf(u)]
              /\ tmp'[ProcOf[u]][PathOf(u)] = MyTmp(u)
              /\ file'[PathOf(u)] = file[PathOf(u)]
              /\ sidecar'[PathOf(u)] = sidecar[PathOf(u)]
<1>1. TypeOK /\ LockInv /\ ProcOf[t] \in Process /\ ProcOf[u] \in Process
  BY ProcOfAssumption DEF Inv
<1>2. /\ pc'[u] = pc[u] /\ call'[u] = call[u] /\ result'[u] = result[u]
  BY <1>1 DEF TypeOK, Step, Acquire, Stat, StatFails, Check, Fetch,
     FinishTransfer, Publish, DownloadFails, Cleanup, OpenSidecar, WriteSidecar,
     RecordFails, Remember, ServeCachedOrRaise, Goto, Answer
<1>3. ASSUME pc[u] \in LockedPC
      PROVE  /\ holder'[PathOf(u)] = holder[PathOf(u)]
             /\ tmp'[ProcOf[u]][PathOf(u)] = MyTmp(u)
             /\ file'[PathOf(u)] = file[PathOf(u)]
             /\ sidecar'[PathOf(u)] = sidecar[PathOf(u)]
  <2>1. holder[PathOf(u)] = u /\ PathOf(u) \in Path
    BY <1>1, <1>3, PathOfType DEF LockInv, LockedPC
  <2>2. CASE Acquire(t)
    <3>1. PathOf(t) # PathOf(u)
      BY <2>1, <2>2, NoneAssumption DEF Acquire
    <3> QED BY <1>1, <2>1, <2>2, <3>1 DEF TypeOK, Acquire, shared, MyTmp
  <2>3. CASE Remember(t)
    BY <2>3 DEF Remember, shared, MyTmp
  <2>4. CASE ~Acquire(t) /\ ~Remember(t)
    <3>1. pc[t] \in LockedPC
      BY <2>4 DEF Step, Stat, StatFails, Check, Fetch, FinishTransfer, Publish,
         DownloadFails, Cleanup, OpenSidecar, WriteSidecar, RecordFails, LockedPC
    <3>2. PathOf(t) # PathOf(u) /\ PathOf(t) \in Path
      BY <1>1, <1>3, <3>1, OneHolder, PathOfType DEF LockedPC
    <3>3. \/ holder' = holder
          \/ Release(t)
      BY <2>4 DEF Step, Stat, StatFails, Check, Fetch, FinishTransfer, Publish,
         DownloadFails, Cleanup, OpenSidecar, WriteSidecar, RecordFails,
         ServeCachedOrRaise
    <3>4. holder'[PathOf(u)] = holder[PathOf(u)]
      BY <1>1, <2>1, <3>2, <3>3 DEF TypeOK, Release
    <3>5. tmp'[ProcOf[u]][PathOf(u)] = MyTmp(u)
      BY <1>1, <2>1, <2>4, <3>2 DEF TypeOK, Step, Stat, StatFails, Check, Fetch,
         FinishTransfer, Publish, DownloadFails, Cleanup, OpenSidecar,
         WriteSidecar, RecordFails, MyTmp, shared
    <3>6. /\ file'[PathOf(u)] = file[PathOf(u)]
          /\ sidecar'[PathOf(u)] = sidecar[PathOf(u)]
      BY <1>1, <2>1, <2>4, <3>2 DEF TypeOK, Step, Stat, StatFails, Check, Fetch,
         FinishTransfer, Publish, DownloadFails, Cleanup, OpenSidecar,
         WriteSidecar, RecordFails, shared
    <3> QED BY <3>4, <3>5, <3>6
  <2> QED BY <2>2, <2>3, <2>4
<1> QED BY <1>2, <1>3

(* A step keeps the arguments of its own call.                                *)
LEMMA StepArgs ==
  ASSUME Inv, NEW t \in Thread, Step(t)
  PROVE  /\ call'[t].src = call[t].src /\ call'[t].force = call[t].force
         /\ call'[t].floor = call[t].floor
         /\ PathOf(t)' = PathOf(t)
<1>1. TypeOK /\ call[t] \in Call
  BY DEF Inv, TypeOK
<1>2. CASE Stat(t)
  BY <1>1, <1>2 DEF TypeOK, Stat, Call, PathOf
<1>3. CASE call' = call
  BY <1>3 DEF PathOf
<1> QED BY <1>2, <1>3 DEF Step, Acquire, StatFails, Check, Fetch, FinishTransfer,
        Publish, DownloadFails, Cleanup, OpenSidecar, WriteSidecar, RecordFails,
        Remember

LEMMA StepLock ==
  ASSUME Inv, NEW t \in Thread, Step(t)
  PROVE  LockInv'
<1>1. TypeOK /\ LockInv
  BY DEF Inv
<1>2. ASSUME NEW u \in Thread, u # t
      PROVE  /\ pc'[u] # "idle" => call'[u].src \in RemoteSource
             /\ pc'[u] \in LockedPC => holder'[PathOf(u)'] = u
  <2>1. PathOf(u)' = PathOf(u)
    BY <1>2, StepFrame DEF PathOf
  <2> QED BY <1>1, <1>2, <2>1, StepFrame DEF LockInv
<1>3. /\ pc'[t] # "idle" => call'[t].src \in RemoteSource
      /\ pc'[t] \in LockedPC => holder'[PathOf(t)'] = t
  <2>1. pc[t] # "idle"
    BY DEF Step, Acquire, Stat, StatFails, Check, Fetch, FinishTransfer, Publish,
       DownloadFails, Cleanup, OpenSidecar, WriteSidecar, RecordFails, Remember
  <2>2. call[t].src \in RemoteSource /\ PathOf(t) \in Path
    BY <1>1, <2>1, PathOfType DEF LockInv
  <2>3. pc[t] \in LockedPC => holder[PathOf(t)] = t
    BY <1>1 DEF LockInv
  <2>4. pc'[t] \in LockedPC => holder'[PathOf(t)] = t
    BY <1>1, <2>2, <2>3 DEF TypeOK, Step, Acquire, Stat, StatFails, Check, Fetch,
       FinishTransfer, Publish, DownloadFails, Cleanup, OpenSidecar,
       WriteSidecar, RecordFails, Remember, ServeCachedOrRaise, Goto, Answer,
       LockedPC
  <2> QED BY <2>2, <2>4, StepArgs
<1> QED BY <1>2, <1>3 DEF LockInv

LEMMA StepTmp ==
  ASSUME Inv, NEW t \in Thread, Step(t)
  PROVE  TmpInv'
<1>1. TypeOK /\ LockInv /\ TmpInv /\ ProcOf[t] \in Process
  BY ProcOfAssumption DEF Inv
<1>2. ASSUME NEW u \in Thread, u # t
      PROVE  /\ pc'[u] \in {"transfer", "publish"} =>
                   MyTmp(u)' \in Database /\ MyTmp(u)'.src = call'[u].src
             /\ pc'[u] = "publish" => MyTmp(u)'.whole
  <2>1. PathOf(u)' = PathOf(u)
    BY <1>2, StepFrame DEF PathOf
  <2>2. pc[u] \in LockedPC => MyTmp(u)' = MyTmp(u)
    BY <1>2, <2>1, StepFrame DEF MyTmp
  <2> QED BY <1>1, <1>2, <2>2, StepFrame DEF TmpInv, LockedPC
<1>3. /\ pc'[t] \in {"transfer", "publish"} =>
            MyTmp(t)' \in Database /\ MyTmp(t)'.src = call'[t].src
      /\ pc'[t] = "publish" => MyTmp(t)'.whole
  <2>1. CASE Fetch(t)
    <3>1. PathOf(t) \in Path /\ call[t].src \in RemoteSource
      BY <1>1, <2>1, PathOfType DEF LockInv, Fetch
    <3> DEFINE d == [src |-> call[t].src, version |-> remote[call[t].src],
                     whole |-> FALSE]
    <3>2. d \in Database
      BY <1>1, <3>1 DEF TypeOK, Database
    <3>3. tmp'[ProcOf[t]][PathOf(t)] = d
      BY <1>1, <2>1, <3>1 DEF TypeOK, Fetch
    <3>4. MyTmp(t)' = d
      BY <2>1, <3>3, StepArgs DEF MyTmp
    <3>5. pc'[t] = "transfer"
      BY <1>1, <2>1 DEF TypeOK, Fetch, Goto
    <3> QED BY <3>2, <3>4, <3>5, StepArgs
  <2>2. CASE FinishTransfer(t)
    <3>1. PathOf(t) \in Path /\ MyTmp(t) \in Database /\ MyTmp(t).src = call[t].src
      BY <1>1, <2>2, PathOfType DEF LockInv, TmpInv, FinishTransfer
    <3>2. tmp'[ProcOf[t]][PathOf(t)] = [MyTmp(t) EXCEPT !.whole = TRUE]
      BY <1>1, <2>2, <3>1 DEF TypeOK, FinishTransfer, MyTmp
    <3>3. MyTmp(t)' = [MyTmp(t) EXCEPT !.whole = TRUE]
      BY <2>2, <3>2, StepArgs DEF MyTmp
    <3> QED BY <3>1, <3>3, StepArgs DEF Database
  <2>3. CASE ~Fetch(t) /\ ~FinishTransfer(t)
    BY <1>1, <2>3 DEF TypeOK, Step, Acquire, Stat, StatFails, Check, Publish,
       DownloadFails, Cleanup, OpenSidecar, WriteSidecar, RecordFails, Remember,
       ServeCachedOrRaise, Goto, Answer
  <2> QED BY <2>1, <2>2, <2>3
<1> QED BY <1>2, <1>3 DEF TmpInv

LEMMA StepNoTorn ==
  ASSUME Inv, NEW t \in Thread, Step(t)
  PROVE  NoTornFile'
<1>1. TypeOK /\ LockInv /\ TmpInv /\ NoTornFile
  BY DEF Inv
<1>2. CASE Publish(t)
  <2>1. PathOf(t) \in Path /\ MyTmp(t).whole
    BY <1>1, <1>2, PathOfType DEF TmpInv, Publish
  <2> QED BY <1>1, <1>2, <2>1 DEF TypeOK, NoTornFile, Publish
<1>3. CASE file' = file
  BY <1>1, <1>3 DEF NoTornFile
<1> QED BY <1>2, <1>3 DEF Step, Acquire, Stat, StatFails, Check, Fetch,
        FinishTransfer, DownloadFails, Cleanup, OpenSidecar, WriteSidecar,
        RecordFails, Remember, shared

LEMMA StepInv ==
  ASSUME Inv, NEW t \in Thread, Step(t)
  PROVE  Inv'
BY StepType, StepLock, StepTmp, StepNoTorn DEF Inv

(* Every other step leaves the files alone, and the threads inside the with   *)
(* block that it does not throw out of it.                                    *)
LEMMA BeginInv ==
  ASSUME Inv, NEW t \in Thread, NEW s \in Source, NEW force \in BOOLEAN,
         Begin(t, s, force)
  PROVE  Inv'
<1>1. TypeOK /\ LockInv /\ TmpInv /\ NoTornFile /\ ProcOf[t] \in Process
  BY ProcOfAssumption DEF Inv
<1>2. call' \in [Thread -> Call] /\ call'[t].src = s
  BY <1>1, BoundAssumption DEF Begin, TypeOK, Call, Version
<1>3. /\ calls' \in 0..MaxCalls
      /\ pc' \in [Thread -> PC] /\ result' \in [Thread -> Result]
  <2>1. calls' \in 0..MaxCalls
    BY <1>1, BoundAssumption DEF Begin, TypeOK
  <2>2. pc' \in [Thread -> PC]
    BY <1>1 DEF Begin, TypeOK, Answer, Goto, PC
  <2>3. result' \in [Thread -> Result]
    BY <1>1 DEF Begin, TypeOK, Answer, Result
  <2> QED BY <2>1, <2>2, <2>3
<1>4. TypeOK'
  BY <1>1, <1>2, <1>3 DEF Begin, TypeOK, shared
<1>5. pc'[t] # "idle" => s \in RemoteSource /\ pc'[t] = "lock"
  BY <1>1 DEF Begin, TypeOK, Answer, Goto
<1>6. \A u \in Thread : u # t => pc'[u] = pc[u] /\ call'[u] = call[u]
  BY <1>1 DEF Begin, TypeOK, Answer, Goto
<1>7. LockInv'
  BY <1>1, <1>2, <1>5, <1>6 DEF Begin, LockInv, PathOf, LockedPC
<1>8. TmpInv' /\ NoTornFile'
  BY <1>1, <1>2, <1>5, <1>6 DEF Begin, TmpInv, NoTornFile, MyTmp, PathOf, shared
<1> QED BY <1>4, <1>7, <1>8 DEF Inv

LEMMA OutsideInv ==
  ASSUME Inv,
         \/ \E t \in Thread : Interrupt(t)
         \/ \E p \in Process : Crash(p)
         \/ \E p \in Process : Start(p)
         \/ \E p, q \in Process : Fork(p, q)
         \/ \E s \in RemoteSource : RemoteGrows(s)
  PROVE  Inv'
<1>1. TypeOK /\ LockInv /\ TmpInv /\ NoTornFile
  BY DEF Inv
<1>2. TypeOK'
  <2> USE <1>1 DEF TypeOK, shared
  <2>1. CASE \E t \in Thread : Interrupt(t)
    BY <2>1, BoundAssumption DEF Interrupt, Fault, Answer, Goto, PC, Result
  <2>2. CASE \E p \in Process : Crash(p)
    BY <2>2, BoundAssumption DEF Crash, Fault, PC, Result
  <2>3. CASE \E p \in Process : Start(p)
    BY <2>3 DEF Start
  <2>4. CASE \E p, q \in Process : Fork(p, q)
    BY <2>4 DEF Fork
  <2>5. CASE \E s \in RemoteSource : RemoteGrows(s)
    BY <2>5, BoundAssumption DEF RemoteGrows, Version
  <2> QED BY <2>1, <2>2, <2>3, <2>4, <2>5
<1>3. /\ call' = call /\ tmp' = tmp /\ file' = file
      /\ \A u \in Thread : pc'[u] # "idle" => pc'[u] = pc[u]
  BY <1>1 DEF TypeOK, Interrupt, Crash, Start, Fork, RemoteGrows, shared, Answer,
     Goto
<1>4. \A u \in Thread : pc'[u] \in LockedPC => holder'[PathOf(u)] = holder[PathOf(u)]
  <2> SUFFICES ASSUME NEW u \in Thread, pc'[u] \in LockedPC
               PROVE  holder'[PathOf(u)] = holder[PathOf(u)]
    OBVIOUS
  <2>1. pc[u] \in LockedPC /\ holder[PathOf(u)] = u /\ PathOf(u) \in Path
    BY <1>1, <1>3, PathOfType DEF LockInv, LockedPC
  <2>2. CASE \E t \in Thread : Interrupt(t)
    BY <1>1, <2>1, <2>2 DEF TypeOK, Interrupt, Answer, Goto, LockedPC
  <2>3. CASE \E p \in Process : Crash(p)
    BY <1>1, <2>1, <2>3 DEF TypeOK, Crash, LockedPC
  <2>4. CASE holder' = holder
    BY <2>4
  <2> QED BY <2>2, <2>3, <2>4 DEF Start, Fork, RemoteGrows
<1>5. LockInv'
  BY <1>1, <1>3, <1>4 DEF LockInv, PathOf, LockedPC
<1>6. TmpInv' /\ NoTornFile'
  BY <1>1, <1>3 DEF TmpInv, NoTornFile, MyTmp, PathOf
<1> QED BY <1>2, <1>5, <1>6 DEF Inv

LEMMA NextInv == Inv /\ [Next]_vars => Inv'
<1> SUFFICES ASSUME Inv, [Next]_vars PROVE Inv'
  OBVIOUS
<1>1. CASE UNCHANGED vars
  BY <1>1 DEF vars, Inv, TypeOK, LockInv, TmpInv, NoTornFile, PathOf, MyTmp
<1>2. CASE Next
  BY <1>2, BeginInv, StepInv, OutsideInv DEF Next
<1> QED BY <1>1, <1>2

LEMMA SpecInv == Spec => []Inv
BY InitInv, NextInv, PTL DEF Spec

(* The cache's state is always well formed.                                   *)
THEOREM CacheTypeOK == Spec => []TypeOK
BY SpecInv, PTL DEF Inv

(* No process ever sees a half-transferred database at a local path: readers  *)
(* take no lock, so this is all that keeps them from opening one.             *)
THEOREM CacheNoTornFile == Spec => []NoTornFile
BY SpecInv, PTL DEF Inv

-----------------------------------------------------------------------------
(* What a downloading thread found missing or outdated stays so: nobody else  *)
(* changes the file or the sidecar at its path while it holds the lock.       *)
LEMMA RedundantKept ==
  ASSUME Inv, NoRedundantDownload, NEW u \in Thread,
         pc'[u] = pc[u], call'[u] = call[u],
         pc[u] \in LockedPC => file'[PathOf(u)] = file[PathOf(u)]
                               /\ sidecar'[PathOf(u)] = sidecar[PathOf(u)]
  PROVE  (pc'[u] \in {"fetch", "transfer", "publish"} /\ ~call'[u].force) =>
            \/ file'[PathOf(u)'] = None
            \/ StalenessKey(sidecar'[PathOf(u)']) # StalenessKey(MetaOf(u)')
<1>1. PathOf(u)' = PathOf(u) /\ MetaOf(u)' = MetaOf(u)
  BY DEF PathOf, MetaOf
<1> QED BY <1>1 DEF NoRedundantDownload, LockedPC

LEMMA NextRedundant ==
  ASSUME Inv, NoRedundantDownload, [Next]_vars
  PROVE  NoRedundantDownload'
<1> SUFFICES ASSUME NEW u \in Thread,
                    pc'[u] \in {"fetch", "transfer", "publish"}, ~call'[u].force
             PROVE  \/ file'[PathOf(u)'] = None
                    \/ StalenessKey(sidecar'[PathOf(u)'])
                         # StalenessKey(MetaOf(u)')
  BY DEF NoRedundantDownload, PathOf, MetaOf, StalenessKey
<1>1. TypeOK
  BY DEF Inv
<1>2. ASSUME NEW t \in Thread, t # u, Step(t) PROVE pc'[u] = pc[u] /\ call'[u] = call[u]
          /\ (pc[u] \in LockedPC => file'[PathOf(u)] = file[PathOf(u)]
                                    /\ sidecar'[PathOf(u)] = sidecar[PathOf(u)])
  BY <1>2, StepFrame
<1>3. CASE Step(u)
  <2>1. CASE Check(u)
    <3>1. NeedsDownload(u) /\ call' = call /\ file' = file /\ sidecar' = sidecar
      BY <1>1, <2>1 DEF Check, TypeOK, Goto, shared
    <3> QED BY <3>1 DEF NeedsDownload, PathOf, MetaOf
  <2>2. CASE Fetch(u) \/ FinishTransfer(u)
    <3>1. /\ pc[u] \in {"fetch", "transfer"} /\ call' = call /\ file' = file
          /\ sidecar' = sidecar
      BY <1>1, <2>2 DEF Fetch, FinishTransfer
    <3> QED BY <3>1 DEF NoRedundantDownload, PathOf, MetaOf
  <2>3. CASE ~Check(u) /\ ~Fetch(u) /\ ~FinishTransfer(u)
    <3>1. pc'[u] \notin {"fetch", "transfer", "publish"}
      BY <1>1, <1>3, <2>3 DEF Step, Acquire, Stat, StatFails, Publish, DownloadFails,
         Cleanup, OpenSidecar, WriteSidecar, RecordFails, Remember,
         ServeCachedOrRaise, Answer, Goto, TypeOK
    <3> QED BY <3>1
  <2> QED BY <2>1, <2>2, <2>3
<1>4. CASE \E t \in Thread : t # u /\ Step(t)
  BY <1>2, <1>4, RedundantKept
<1>5. CASE \E t \in Thread, s \in Source, force \in BOOLEAN : Begin(t, s, force)
  <2>1. PICK t \in Thread, s \in Source, force \in BOOLEAN : Begin(t, s, force)
    BY <1>5
  <2>2. t # u /\ pc'[u] = pc[u] /\ call'[u] = call[u]
        /\ file' = file /\ sidecar' = sidecar
    BY <1>1, <2>1 DEF Begin, Answer, Goto, TypeOK, shared
  <2> QED BY <2>2, RedundantKept
<1>6. CASE \/ UNCHANGED vars
           \/ \E t \in Thread : Interrupt(t)
           \/ \E p \in Process : Crash(p)
           \/ \E p \in Process : Start(p)
           \/ \E p, q \in Process : Fork(p, q)
           \/ \E s \in RemoteSource : RemoteGrows(s)
  <2>1. pc'[u] = pc[u] /\ call'[u] = call[u] /\ file' = file /\ sidecar' = sidecar
    BY <1>1, <1>6 DEF vars, Interrupt, Crash, Start, Fork, RemoteGrows, Answer,
       Goto, TypeOK, shared
  <2> QED BY <2>1, RedundantKept
<1> QED BY <1>3, <1>4, <1>5, <1>6 DEF Next

(* A caller that finds a current file downloads nothing: at any time, of the  *)
(* threads and processes that wait for one new version, only those that asked *)
(* for force, or found the file missing or outdated, transfer it.             *)
THEOREM CacheNoRedundantDownload == Spec => []NoRedundantDownload
<1>1. Init => Inv /\ NoRedundantDownload
  BY InitInv DEF Init, NoRedundantDownload
<1>2. (Inv /\ NoRedundantDownload) /\ [Next]_vars => (Inv /\ NoRedundantDownload)'
  BY NextInv, NextRedundant
<1> QED BY <1>1, <1>2, PTL DEF Spec

(* A thread that may own the temporary file of process p for path l.          *)
Transfers(t, p, l) ==
    ProcOf[t] = p /\ pc[t] \in {"transfer", "publish", "cleanup"} /\ PathOf(t) = l

LEMMA NextLeftover ==
  ASSUME Inv, NoLeftoverTmp, [Next]_vars
  PROVE  NoLeftoverTmp'
<1>1. TypeOK /\ LockInv /\ \A t \in Thread : ProcOf[t] \in Process
  BY ProcOfAssumption DEF Inv
<1> SUFFICES ASSUME NEW p \in Process, NEW l \in Path, tmp'[p][l] # None, faults' = 0
             PROVE  \E t \in Thread : Transfers(t, p, l)'
  BY DEF NoLeftoverTmp, Transfers
<1>2. faults' = faults \/ Fault
  BY DEF Next, Step, Acquire, Stat, StatFails, Check, Fetch, FinishTransfer, Publish,
     DownloadFails, Cleanup, OpenSidecar, WriteSidecar, RecordFails, Remember, Begin,
     Interrupt, Crash, Start, Fork, RemoteGrows, vars
<1>3. faults = 0 /\ ~Fault
  BY <1>1, <1>2 DEF TypeOK, Fault
<1>4. tmp[p][l] # None => \E t \in Thread : Transfers(t, p, l)
  BY <1>3 DEF NoLeftoverTmp, Transfers
<1>5. ASSUME NEW t \in Thread, Step(t)
      PROVE  \E u \in Thread : Transfers(u, p, l)'
  <2>1. CASE Fetch(t)
    <3>1. CASE ProcOf[t] = p /\ PathOf(t) = l
      BY <1>1, <2>1, <3>1 DEF Fetch, Goto, TypeOK, Transfers, PathOf
    <3>2. CASE ~(ProcOf[t] = p /\ PathOf(t) = l)
      <4>1. tmp'[p][l] = tmp[p][l] /\ call' = call
        BY <1>1, <2>1, <3>2 DEF Fetch, TypeOK
      <4>2. PICK u \in Thread : Transfers(u, p, l)
        BY <1>4, <4>1
      <4>3. u # t /\ pc'[u] = pc[u]
        BY <1>1, <2>1, <3>2, <4>2 DEF Transfers, Fetch, Goto, TypeOK
      <4> QED BY <4>1, <4>2, <4>3 DEF Transfers, PathOf
    <3> QED BY <3>1, <3>2
  <2>2. CASE Publish(t) \/ Cleanup(t)
    <3>1. call' = call /\ PathOf(t) \in Path /\ \A u \in Thread : u # t => pc'[u] = pc[u]
      BY <1>1, <2>2, PathOfType DEF Publish, Cleanup, ServeCachedOrRaise, Answer,
         Goto, TypeOK
    <3>2. tmp'[ProcOf[t]][PathOf(t)] = None /\ tmp'[p][l] \in {tmp[p][l], None}
      BY <1>1, <1>3, <2>2, <3>1 DEF Publish, Cleanup, TypeOK
    <3>3. PICK u \in Thread : Transfers(u, p, l)
      BY <1>4, <3>2
    <3>4. u # t
      BY <3>2, <3>3 DEF Transfers
    <3> QED BY <3>1, <3>3, <3>4 DEF Transfers, PathOf
  <2>3. CASE ~Fetch(t) /\ ~Publish(t) /\ ~Cleanup(t)
    <3>1. tmp[p][l] # None
      BY <1>1, <1>5, <2>3 DEF Step, Acquire, Stat, StatFails, Check, FinishTransfer,
         DownloadFails, OpenSidecar, WriteSidecar, RecordFails, Remember, shared,
         TypeOK, MyTmp
    <3>2. PICK u \in Thread : Transfers(u, p, l)
      BY <1>4, <3>1
    <3>3. CASE u # t
      <4>1. pc'[u] = pc[u] /\ call'[u] = call[u]
        BY <1>5, <3>3, StepFrame
      <4> QED BY <3>2, <4>1 DEF Transfers, PathOf
    <3>4. CASE u = t
      <4>1. pc'[t] \in {"publish", "cleanup"} /\ call' = call
        BY <1>1, <1>5, <2>3, <3>2, <3>4 DEF Transfers, Step, Acquire, Stat, StatFails,
           Check, FinishTransfer, DownloadFails, OpenSidecar, WriteSidecar,
           RecordFails, Remember, Goto, TypeOK
      <4> QED BY <3>2, <3>4, <4>1 DEF Transfers, PathOf
    <3> QED BY <3>3, <3>4
  <2> QED BY <2>1, <2>2, <2>3
<1>6. CASE \E t \in Thread, s \in Source, force \in BOOLEAN : Begin(t, s, force)
  <2>1. PICK t \in Thread, s \in Source, force \in BOOLEAN : Begin(t, s, force)
    BY <1>6
  <2>2. tmp' = tmp /\ \A u \in Thread :
          pc[u] # "idle" => pc'[u] = pc[u] /\ call'[u] = call[u]
    BY <1>1, <2>1 DEF Begin, Answer, Goto, TypeOK, shared
  <2>3. PICK u \in Thread : Transfers(u, p, l)
    BY <1>4, <2>2
  <2> QED BY <2>2, <2>3 DEF Transfers, PathOf
<1>7. CASE \/ UNCHANGED vars
           \/ \E q \in Process : Start(q)
           \/ \E q, r \in Process : Fork(q, r)
           \/ \E s \in RemoteSource : RemoteGrows(s)
  <2>1. tmp' = tmp /\ pc' = pc /\ call' = call
    BY <1>7 DEF vars, Start, Fork, RemoteGrows, shared
  <2> QED BY <1>4, <2>1 DEF Transfers, PathOf
<1>8. CASE \/ \E t \in Thread : Interrupt(t)
           \/ \E q \in Process : Crash(q)
  BY <1>1, <1>3, <1>8 DEF Interrupt, Crash
<1> QED BY <1>5, <1>6, <1>7, <1>8 DEF Next

(* Without faults (a crash, an interrupt, an os.remove that fails) no          *)
(* temporary file outlives its download, whether the stat, the transfer, the  *)
(* os.replace or the sidecar of this thread or of the process's others fail.  *)
THEOREM CacheNoLeftoverTmp == Spec => []NoLeftoverTmp
<1>1. Init => Inv /\ NoLeftoverTmp
  BY InitInv DEF Init, NoLeftoverTmp
<1>2. (Inv /\ NoLeftoverTmp) /\ [Next]_vars => (Inv /\ NoLeftoverTmp)'
  BY NextInv, NextLeftover
<1> QED BY <1>1, <1>2, PTL DEF Spec

-----------------------------------------------------------------------------
(* A lock is held from inside the with block of its path, by a thread of a    *)
(* process that runs: no failure, interrupt, crash or fork leaves one behind. *)
LocksHeld ==
    \A l \in Path : holder[l] # None =>
        /\ ProcOf[holder[l]] \in live
        /\ pc[holder[l]] \in LockedPC /\ PathOf(holder[l]) = l

(* The steps a call has left at most.                                         *)
Left == [idle |-> 0, remember |-> 1, cleanup |-> 1, recording |-> 2, record |-> 3,
         publish |-> 4, transfer |-> 5, fetch |-> 6, check |-> 7, stat |-> 8, lock |-> 9]

(* A step of a call, or the end of one, leaves it fewer, and it takes no step *)
(* that leaves it where it was.                                               *)
CallsAdvance ==
    [][\A t \in Thread : pc[t] # "idle" =>
         /\ pc'[t] = pc[t] \/ Left[pc'[t]] < Left[pc[t]]
         /\ Step(t) => pc'[t] # pc[t]]_vars

(* The threads inside a call are those of processes that run.                 *)
RunningInv == \A t \in Thread : pc[t] # "idle" => ProcOf[t] \in live

LEMMA StepHeld ==
  ASSUME Inv, RunningInv, LocksHeld, NEW t \in Thread, Step(t)
  PROVE  RunningInv' /\ LocksHeld'
<1>1. TypeOK /\ LockInv
  BY DEF Inv
<1>2. pc[t] # "idle" /\ live' = live
  BY DEF Step, Acquire, Stat, StatFails, Check, Fetch, FinishTransfer, Publish,
     DownloadFails, Cleanup, OpenSidecar, WriteSidecar, RecordFails, Remember
<1>3. PathOf(t) \in Path /\ PathOf(t)' = PathOf(t)
  BY <1>1, <1>2, PathOfType, StepArgs
<1>4. \A u \in Thread : u # t => pc'[u] = pc[u] /\ PathOf(u)' = PathOf(u)
  BY StepFrame DEF PathOf
<1>5. RunningInv'
  BY <1>2, <1>4 DEF RunningInv
<1>6. \A l \in Path : l # PathOf(t) => holder'[l] = holder[l]
  BY <1>1, <1>3 DEF TypeOK, Step, Acquire, Stat, StatFails, Check, Fetch, FinishTransfer,
     Publish, DownloadFails, Cleanup, OpenSidecar, WriteSidecar, RecordFails, Remember,
     ServeCachedOrRaise, Release
<1>7. \/ holder'[PathOf(t)] = None
      \/ holder'[PathOf(t)] = t /\ pc'[t] \in LockedPC
      \/ holder'[PathOf(t)] = holder[PathOf(t)] /\ pc[t] = "remember"
  <2>1. pc[t] \in LockedPC => holder[PathOf(t)] = t
    BY <1>1 DEF LockInv
  <2> QED BY <1>1, <1>3, <2>1 DEF TypeOK, Step, Acquire, Stat, StatFails, Check, Fetch,
        FinishTransfer, Publish, DownloadFails, Cleanup, OpenSidecar, WriteSidecar,
        RecordFails, Remember, ServeCachedOrRaise, Release, Goto, Answer, LockedPC
<1>8. ASSUME NEW l \in Path, NEW u \in Thread, holder'[l] = u
      PROVE  ProcOf[u] \in live' /\ pc'[u] \in LockedPC /\ PathOf(u)' = l
  <2>1. u # None
    BY NoneAssumption
  <2>2. CASE l = PathOf(t) /\ u = t /\ pc'[t] \in LockedPC
    BY <1>2, <1>3, <2>2 DEF RunningInv
  <2>3. CASE holder'[l] = holder[l] /\ (l = PathOf(t) => pc[t] = "remember")
    <3>1. ProcOf[u] \in live /\ pc[u] \in LockedPC /\ PathOf(u) = l
      BY <1>8, <2>1, <2>3 DEF LocksHeld
    <3>2. u # t
      BY <2>3, <3>1 DEF LockedPC
    <3> QED BY <1>2, <1>4, <3>1, <3>2
  <2> QED BY <1>6, <1>7, <1>8, <2>1, <2>2, <2>3
<1>9. holder' \in [Path -> Thread \cup {None}]
  BY StepType DEF TypeOK
<1>10. \A u \in Thread : PathOf(u)' = LocalPath[call'[u].src]
  BY DEF PathOf
<1>11. LocksHeld'
  BY <1>8, <1>9, <1>10 DEF LocksHeld, PathOf
<1> QED BY <1>5, <1>11

LEMMA BeginHeld ==
  ASSUME Inv, RunningInv, LocksHeld, NEW t \in Thread, NEW s \in Source,
         NEW force \in BOOLEAN, Begin(t, s, force)
  PROVE  RunningInv' /\ LocksHeld'
<1>1. TypeOK
  BY DEF Inv
<1>2. /\ live' = live /\ holder' = holder /\ pc[t] = "idle" /\ ProcOf[t] \in live
      /\ \A u \in Thread : u # t => pc'[u] = pc[u] /\ call'[u] = call[u]
  BY <1>1 DEF Begin, TypeOK, Answer, Goto
<1>3. \A u \in Thread : u # t => PathOf(u)' = PathOf(u)
  BY <1>2 DEF PathOf
<1>4. \A l \in Path : holder[l] # t
  BY <1>2, NoneAssumption DEF LocksHeld, LockedPC
<1> QED BY <1>1, <1>2, <1>3, <1>4 DEF RunningInv, LocksHeld, TypeOK

LEMMA OutsideHeld ==
  ASSUME Inv, RunningInv, LocksHeld,
         \/ \E t \in Thread : Interrupt(t)
         \/ \E p \in Process : Crash(p)
         \/ \E p \in Process : Start(p)
         \/ \E p, q \in Process : Fork(p, q)
         \/ \E s \in RemoteSource : RemoteGrows(s)
  PROVE  RunningInv' /\ LocksHeld'
<1>1. TypeOK
  BY DEF Inv
<1>2. call' = call /\ \A t \in Thread : PathOf(t)' = PathOf(t)
  BY DEF Interrupt, Crash, Start, Fork, RemoteGrows, PathOf
<1>3. CASE \E t \in Thread : Interrupt(t)
  <2>1. PICK t \in Thread : Interrupt(t)
    BY <1>3
  <2>2. /\ live' = live /\ pc'[t] = "idle"
        /\ \A u \in Thread : u # t => pc'[u] = pc[u]
        /\ \A l \in Path : holder'[l] = IF holder[l] = t THEN None ELSE holder[l]
    BY <1>1, <2>1 DEF Interrupt, TypeOK, Answer, Goto
  <2> QED BY <1>1, <1>2, <2>2 DEF RunningInv, LocksHeld, TypeOK
<1>4. CASE \E p \in Process : Crash(p)
  <2>1. PICK p \in Process : Crash(p)
    BY <1>4
  <2>2. /\ live' = live \ {p}
        /\ \A u \in Thread : pc'[u] = IF ProcOf[u] = p THEN "idle" ELSE pc[u]
        /\ \A l \in Path : holder'[l] = IF holder[l] # None /\ ProcOf[holder[l]] = p
                                        THEN None ELSE holder[l]
    BY <1>1, <2>1 DEF Crash, TypeOK
  <2> QED BY <1>1, <1>2, <2>2 DEF RunningInv, LocksHeld, TypeOK
<1>5. CASE \/ \E p \in Process : Start(p)
           \/ \E p, q \in Process : Fork(p, q)
           \/ \E s \in RemoteSource : RemoteGrows(s)
  <2>1. pc' = pc /\ holder' = holder /\ live \subseteq live'
    BY <1>5 DEF Start, Fork, RemoteGrows
  <2> QED BY <1>1, <1>2, <2>1 DEF RunningInv, LocksHeld, TypeOK
<1> QED BY <1>3, <1>4, <1>5

(* Who waits for a lock waits for a call that is under way, in a process that *)
(* runs; a lock is never lost to a failed stat, a download that raised, an    *)
(* interrupt or a process that died (the with block of ensure_local_cake_db). *)
THEOREM CacheLocksHeld == Spec => []LocksHeld
<1>1. Init => Inv /\ RunningInv /\ LocksHeld
  <2>1. Init => RunningInv /\ LocksHeld
    BY DEF Init, RunningInv, LocksHeld
  <2> QED BY <2>1, InitInv
<1>2. Inv /\ RunningInv /\ LocksHeld /\ [Next]_vars => (Inv /\ RunningInv /\ LocksHeld)'
  <2> SUFFICES ASSUME Inv, RunningInv, LocksHeld, [Next]_vars
               PROVE  (Inv /\ RunningInv /\ LocksHeld)'
    OBVIOUS
  <2>1. Inv'
    BY NextInv
  <2>2. CASE UNCHANGED vars
    <3>1. \A t \in Thread : PathOf(t)' = PathOf(t)
      BY <2>2 DEF vars, PathOf
    <3> QED BY <2>1, <2>2, <3>1 DEF vars, RunningInv, LocksHeld, Inv, TypeOK
  <2>3. CASE Next
    BY <2>1, <2>3, StepHeld, BeginHeld, OutsideHeld DEF Next
  <2> QED BY <2>2, <2>3
<1> QED BY <1>1, <1>2, PTL DEF Spec

LEMMA LeftFalls ==
  ASSUME TypeOK, NEW t \in Thread, Step(t)
  PROVE  pc[t] # "idle" /\ pc'[t] # pc[t] /\ Left[pc'[t]] < Left[pc[t]]
<1>1. CASE Acquire(t)
  BY <1>1 DEF TypeOK, Acquire, Goto, Left
<1>2. CASE Stat(t) \/ StatFails(t)
  BY <1>2 DEF TypeOK, Stat, StatFails, ServeCachedOrRaise, Goto, Answer, Left
<1>3. CASE Check(t)
  BY <1>3 DEF TypeOK, Check, Goto, Left
<1>4. CASE Fetch(t) \/ FinishTransfer(t) \/ Publish(t)
  BY <1>4 DEF TypeOK, Fetch, FinishTransfer, Publish, Goto, Left
<1>5. CASE DownloadFails(t) \/ Cleanup(t)
  BY <1>5 DEF TypeOK, DownloadFails, Cleanup, ServeCachedOrRaise, Goto, Answer, Left
<1>6. CASE OpenSidecar(t) \/ WriteSidecar(t)
  BY <1>6 DEF TypeOK, OpenSidecar, WriteSidecar, Goto, Left
<1>7. CASE RecordFails(t) \/ Remember(t)
  BY <1>7 DEF TypeOK, RecordFails, Remember, Goto, Answer, Left
<1> QED BY <1>1, <1>2, <1>3, <1>4, <1>5, <1>6, <1>7 DEF Step

LEMMA NextAdvances ==
  ASSUME Inv, Next, NEW t \in Thread, pc[t] # "idle"
  PROVE  /\ pc'[t] = pc[t] \/ Left[pc'[t]] < Left[pc[t]]
         /\ Step(t) => pc'[t] # pc[t]
<1>1. TypeOK
  BY DEF Inv
<1>2. CASE Step(t)
  BY <1>1, <1>2, LeftFalls
<1>3. Left["idle"] < Left[pc[t]]
  BY <1>1 DEF TypeOK, PC, LockedPC, Left
<1>4. CASE \E u \in Thread : u # t /\ Step(u)
  BY <1>4, StepFrame, <1>1, LeftFalls
<1>5. CASE \E u \in Thread, s \in Source, force \in BOOLEAN : Begin(u, s, force)
  <2>1. pc'[t] = pc[t]
    BY <1>1, <1>5 DEF Begin, Answer, Goto, TypeOK
  <2> QED BY <1>1, <2>1, LeftFalls
<1>6. CASE \/ \E u \in Thread : Interrupt(u)
           \/ \E p \in Process : Crash(p)
  <2>1. pc'[t] \in {pc[t], "idle"}
    BY <1>1, <1>6 DEF Interrupt, Crash, Answer, Goto, TypeOK
  <2> QED BY <1>1, <1>3, <2>1, LeftFalls
<1>7. CASE \/ \E p \in Process : Start(p)
           \/ \E p, q \in Process : Fork(p, q)
           \/ \E s \in RemoteSource : RemoteGrows(s)
  <2>1. pc' = pc
    BY <1>7 DEF Start, Fork, RemoteGrows
  <2> QED BY <1>1, <2>1, LeftFalls
<1> QED BY <1>2, <1>4, <1>5, <1>6, <1>7 DEF Next

(* A call is never sent back: every step that it takes itself, or that ends   *)
(* it, leaves it fewer to take, so that it has at most nine.                  *)
THEOREM CacheCallsAdvance == Spec => CallsAdvance
<1>1. Inv /\ [Next]_vars
        => [\A t \in Thread : pc[t] # "idle" =>
              /\ pc'[t] = pc[t] \/ Left[pc'[t]] < Left[pc[t]]
              /\ Step(t) => pc'[t] # pc[t]]_vars
  BY NextAdvances
<1> QED BY <1>1, SpecInv, PTL DEF Spec, CallsAdvance
=============================================================================
