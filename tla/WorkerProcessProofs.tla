-------------------------- MODULE WorkerProcessProofs --------------------------
(* Proofs about WorkerProcess, for any processes, databases and bounds.       *)
EXTENDS WorkerProcess, TLAPS

(* What is kept in a process, live or not, and how it relates to its chunk;   *)
(* only a pipeline with CAKE signals has a connection, which its end closes.  *)
ReaderKept(p) ==
    /\ registry[p].pid \in alive \cup {None}
    /\ chunk[p].env <= env[p]
    /\ registry[p].pid = p /\ registry[p].reader # None =>
         /\ registry[p].reader.owner = p
         /\ registry[p].reader.env >= chunk[p].env
    /\ call[p].reader # None =>
         /\ call[p].reader.owner = p
         /\ call[p].reader.env >= chunk[p].env
ConnKept(p) ==
    /\ \A d \in Database : chunk[p].files[d] <= file[d]
    /\ conn[p] # None => conn[p].file >= chunk[p].files[conn[p].db]
    /\ chunk[p].seen # None => conn[p] = chunk[p].seen
    /\ call[p].step = "lookup" => conn[p] # None
    /\ call[p].used # None => call[p].used = chunk[p].seen
    /\ conn[p] # None \/ call[p].step = "connect" => "cake" \in chunk[p].signals
CallKept(p) == p \notin alive => call[p] = NoCall
Kept(p) == ReaderKept(p) /\ ConnKept(p) /\ CallKept(p)
KeptInv == \A p \in Proc : Kept(p)

(* The types, and that a lookup has a database to connect to.                 *)
Connecting == \A p \in Proc : call[p].step = "connect" => call[p].db \in Database
TypeInv == TypeOK /\ Connecting

LEMMA TypeInit == Init => TypeInv
<1> SUFFICES ASSUME Init PROVE TypeInv
  OBVIOUS
<1>1. chunk \in [Proc -> Chunk]
  BY ProcAssumption, BoundAssumption DEF Init, Chunk, FirstChunk
<1> QED BY <1>1, ProcAssumption, BoundAssumption
        DEF Init, TypeInv, Connecting, TypeOK, Registry, NoRegistry, Version, Call, NoCall

LEMMA NoCallType == NoCall \in Call
BY DEF NoCall, Call

LEMMA OwnRegistryType ==
  ASSUME TypeOK, NEW p \in Proc
  PROVE  /\ OwnRegistry(p) \in Registry /\ OwnRegistry(p).pid = p
         /\ OwnRegistry(p).reader \in Reader \cup {None}
BY ProcAssumption DEF TypeOK, Registry, OwnRegistry, NoRegistry

LEMMA TypeNext == ASSUME TypeInv, [Next]_vars PROVE TypeInv'
<1> SUFFICES TypeOK' /\ Connecting'
  BY DEF TypeInv
<1>0. TypeOK /\ Connecting
  BY DEF TypeInv
<1> USE <1>0, ProcAssumption, BoundAssumption, NoCallType
<1>1. ASSUME NEW p \in Proc, BeginPtData(p) PROVE TypeOK'
  <2>1. PICK signal \in PtData \cap chunk[p].signals :
          call' = [call EXCEPT ![p] = [NoCall EXCEPT !.step = "reader",
                                          !.signal = signal]]
    BY <1>1 DEF BeginPtData
  <2>2. [NoCall EXCEPT !.step = "reader", !.signal = signal] \in Call
    BY DEF NoCall, Call, Signal, PtData
  <2> QED BY <1>1, <2>1, <2>2 DEF BeginPtData, TypeOK
<1>2. ASSUME NEW p \in Proc, BeginCake(p) PROVE TypeOK'
  <2>1. PICK d \in Database :
          call' = [call EXCEPT ![p] = [NoCall EXCEPT !.step = "connect",
                                          !.signal = "cake", !.db = d]]
    BY <1>2 DEF BeginCake
  <2>2. [NoCall EXCEPT !.step = "connect", !.signal = "cake", !.db = d] \in Call
    BY DEF NoCall, Call, Signal, PtData
  <2> QED BY <1>2, <2>1, <2>2 DEF BeginCake, TypeOK
<1>3. ASSUME NEW p \in Proc, GetReader(p) PROVE TypeOK'
  <2> DEFINE own == OwnRegistry(p)
             reader == IF own.reader # None THEN own.reader
                                            ELSE [owner |-> p, env |-> env[p]]
  <2>1. own \in Registry /\ own.pid = p /\ own.reader \in Reader \cup {None}
    BY OwnRegistryType
  <2>2. reader \in Reader
    BY <2>1 DEF TypeOK, Reader
  <2>3. [own EXCEPT !.reader = reader] \in Registry
    BY <2>1, <2>2 DEF Registry, NoRegistry
  <2>4. registry' = [registry EXCEPT ![p] = [own EXCEPT !.reader = reader]]
        /\ call' = [call EXCEPT ![p].step = "fetch", ![p].reader = reader]
        /\ UNCHANGED <<alive, env, current, conn, file, chunk, pin>>
    BY <1>3 DEF GetReader
  <2> HIDE DEF own, reader
  <2>5. [call[p] EXCEPT !.step = "fetch", !.reader = reader] \in Call
    BY <2>2 DEF TypeOK, Call
  <2>6. call' \in [Proc -> Call]
    BY <2>4, <2>5 DEF TypeOK
  <2> QED BY <2>3, <2>4, <2>6 DEF TypeOK
<1>4. ASSUME NEW p \in Proc, Fetch(p) PROVE TypeOK'
  <2>1. PICK v \in 1..current : call' = [call EXCEPT ![p].data = v,
                ![p].step = IF call[p].signal = "ptdata" THEN "ok" ELSE "header"]
    BY <1>4 DEF Fetch
  <2>2. v \in Version
    BY DEF TypeOK, Version
  <2>3. PICK step \in {"header", "ok"} :
          call' = [call EXCEPT ![p].data = v, ![p].step = step]
    BY <2>1
  <2>4. [call[p] EXCEPT !.data = v, !.step = step] \in Call
    BY <2>2 DEF TypeOK, Call
  <2>5. call' \in [Proc -> Call]
    BY <2>3, <2>4 DEF TypeOK
  <2> QED BY <1>4, <2>5 DEF Fetch, TypeOK
<1>5. ASSUME NEW p \in Proc, ReadHeader(p) PROVE TypeOK'
  BY <1>5 DEF ReadHeader, TypeOK, Call
<1>6. ASSUME NEW p \in Proc, GetDbConn(p) PROVE TypeOK'
  <2>1. PICK c \in Conn \cup {None} : conn' = [conn EXCEPT ![p] = c]
    <3>1. CASE conn[p] # None
      BY <1>6, <3>1 DEF GetDbConn, TypeOK
    <3>2. CASE conn[p] = None
      <4>1. call[p].db \in Database
        BY <1>6 DEF GetDbConn, Connecting
      <4>2. [db |-> call[p].db, file |-> file[call[p].db]] \in Conn
        BY <4>1 DEF Conn, TypeOK
      <4> QED BY <1>6, <3>2, <4>2 DEF GetDbConn, TypeOK
    <3> QED BY <3>1, <3>2
  <2>2. [call[p] EXCEPT !.step = "lookup"] \in Call
    BY DEF TypeOK, Call
  <2>3. call' \in [Proc -> Call]
    BY <1>6, <2>2 DEF GetDbConn, Goto, TypeOK
  <2>4. conn' \in [Proc -> Conn \cup {None}]
    BY <2>1 DEF TypeOK
  <2>5. UNCHANGED <<alive, env, registry, current, file, chunk, pin>>
    BY <1>6 DEF GetDbConn
  <2> QED BY <2>3, <2>4, <2>5 DEF TypeOK
<1>7. ASSUME NEW p \in Proc, Lookup(p) PROVE TypeOK'
  <2>1. call' \in [Proc -> Call]
    BY <1>7 DEF Lookup, TypeOK, Call
  <2>2. chunk' \in [Proc -> Chunk]
    BY <1>7 DEF Lookup, TypeOK, Chunk
  <2> QED BY <1>7, <2>1, <2>2 DEF Lookup, TypeOK
<1>8. ASSUME NEW p \in Proc, Fail(p) PROVE TypeOK'
  <2>1. [NoCall EXCEPT !.step = "error"] \in Call
    BY DEF NoCall, Call
  <2> QED BY <1>8, <2>1 DEF Fail, TypeOK
<1>9. ASSUME NEW p \in Proc, Cleanup(p) PROVE TypeOK'
  <2>1. NewRegistry(p) \in Registry
    BY OwnRegistryType DEF NewRegistry, Registry, NoRegistry, TypeOK
  <2>2. PICK signals \in Pipelines :
          chunk' = [chunk EXCEPT ![p] =
                      [signals |-> signals, files |-> file, seen |-> None,
                       env |-> IF DropsReader(p) THEN env[p] ELSE @.env]]
    BY <1>9 DEF Cleanup, EndChunk
  <2>3. (IF DropsReader(p) THEN env[p] ELSE chunk[p].env) \in 0..MaxEnv
    BY DEF TypeOK, Chunk
  <2>4. chunk' \in [Proc -> Chunk]
    BY <2>2, <2>3 DEF Chunk, TypeOK
  <2>5. conn' \in [Proc -> Conn \cup {None}]
    BY <1>9 DEF Cleanup, TypeOK
  <2> QED BY <1>9, <2>1, <2>4, <2>5 DEF Cleanup, EndChunk, TypeOK
<1>10. ASSUME NEW p \in Proc, Fork(p) PROVE TypeOK'
  <2>1. [chunk[p] EXCEPT !.env = env[p]] \in Chunk
    BY DEF TypeOK, Chunk
  <2> QED BY <1>10, <2>1 DEF Fork, TypeOK
<1>11. ASSUME NEW p \in Proc, ChangeEnv(p) PROVE TypeOK'
  BY <1>11 DEF ChangeEnv, TypeOK
<1>12. StoreVersion => TypeOK'
  BY DEF StoreVersion, TypeOK, Version
<1>13. ASSUME NEW d \in Database, ReplaceFile(d) PROVE TypeOK'
  BY <1>13 DEF ReplaceFile, TypeOK
<1>14. UNCHANGED vars => TypeOK'
  BY DEF vars, TypeOK
<1>15. TypeOK'
  BY <1>1, <1>2, <1>3, <1>4, <1>5, <1>6, <1>7, <1>8, <1>9, <1>10, <1>11,
     <1>12, <1>13, <1>14 DEF Next
<1>16. ASSUME NEW p \in Proc, BeginCake(p) PROVE Connecting'
  BY <1>16 DEF BeginCake, Connecting, TypeOK, NoCall
<1>17. ASSUME NEW p \in Proc,
              \/ BeginPtData(p) \/ GetReader(p) \/ Fetch(p) \/ ReadHeader(p)
              \/ GetDbConn(p) \/ Lookup(p) \/ Fail(p) \/ Cleanup(p) \/ Fork(p)
              \/ ChangeEnv(p)
       PROVE Connecting'
  <2>1. \A q \in Proc : call'[q] = call[q] \/ call'[q].step # "connect"
    <3>1. CASE BeginPtData(p)
      BY <3>1 DEF BeginPtData, TypeOK, NoCall
    <3>2. CASE GetReader(p)
      BY <3>2 DEF GetReader, TypeOK, Call
    <3>3. CASE Fetch(p)
      BY <3>3 DEF Fetch, TypeOK, Call
    <3>4. CASE ReadHeader(p) \/ GetDbConn(p) \/ Lookup(p)
      BY <3>4 DEF ReadHeader, GetDbConn, Lookup, Goto, TypeOK, Call
    <3>5. CASE Fail(p) \/ Cleanup(p) \/ Fork(p) \/ ChangeEnv(p)
      BY <3>5 DEF Fail, Cleanup, EndChunk, Fork, ChangeEnv, TypeOK, NoCall
    <3> QED BY <1>17, <3>1, <3>2, <3>3, <3>4, <3>5
  <2> QED BY <2>1 DEF Connecting
<1>18. StoreVersion \/ (\E d \in Database : ReplaceFile(d)) \/ UNCHANGED vars
         => Connecting'
  BY DEF StoreVersion, ReplaceFile, vars, Connecting
<1> QED BY <1>15, <1>16, <1>17, <1>18 DEF Next

-----------------------------------------------------------------------------
LEMMA KeptInit == Init => KeptInv
<1> SUFFICES ASSUME Init, NEW p \in Proc PROVE Kept(p)
  BY DEF KeptInv
<1>1. registry[p].pid = None /\ env[p] = 0 /\ conn[p] = None /\ call[p] = NoCall
      /\ \A d \in Database : file[d] = 1
  BY DEF Init, NoRegistry
<1>2. chunk[p].env = 0 /\ chunk[p].seen = None
      /\ \A d \in Database : chunk[p].files[d] = 1
  BY DEF Init, FirstChunk
<1>3. ReaderKept(p)
  BY <1>1, <1>2, ProcAssumption DEF ReaderKept, NoCall
<1> QED BY <1>1, <1>2, <1>3 DEF Kept, ConnKept, CallKept, NoCall

(* A step keeps what it does not touch.                                       *)
LEMMA KeptUntouched ==
  ASSUME TypeOK, NEW q \in Proc, Kept(q), alive \subseteq alive', file' = file, pin' = pin,
         registry'[q] = registry[q], env'[q] = env[q], conn'[q] = conn[q],
         call'[q] = call[q], chunk'[q] = chunk[q]
  PROVE  Kept(q)'
BY DEF Kept, ReaderKept, ConnKept, CallKept

LEMMA KeptNext == ASSUME TypeInv, KeptInv, [Next]_vars PROVE KeptInv'
<1> SUFFICES ASSUME NEW q \in Proc PROVE Kept(q)'
  BY DEF KeptInv
<1>0. TypeOK /\ Connecting /\ Kept(q) /\ ReaderKept(q) /\ ConnKept(q) /\ CallKept(q)
  BY DEF TypeInv, KeptInv, Kept
<1> USE <1>0, ProcAssumption, NoneAssumption
<1>1. ASSUME NEW p \in Proc,
             \/ BeginPtData(p) \/ GetReader(p) \/ Fetch(p) \/ ReadHeader(p)
             \/ BeginCake(p) \/ GetDbConn(p) \/ Lookup(p) \/ Fail(p) \/ Cleanup(p)
             \/ ChangeEnv(p),
             p # q
      PROVE  Kept(q)'
  <2>1. alive' = alive /\ file' = file /\ pin' = pin /\ env'[q] = env[q]
    BY <1>1 DEF BeginPtData, GetReader, Fetch, ReadHeader, BeginCake, GetDbConn, Lookup,
                Fail, Cleanup, EndChunk, ChangeEnv, Goto, TypeOK
  <2>2. registry'[q] = registry[q] /\ conn'[q] = conn[q] /\ chunk'[q] = chunk[q]
    BY <1>1 DEF BeginPtData, GetReader, Fetch, ReadHeader, BeginCake, GetDbConn, Lookup,
                Fail, Cleanup, EndChunk, ChangeEnv, Goto, TypeOK
  <2>3. call'[q] = call[q]
    BY <1>1 DEF BeginPtData, GetReader, Fetch, ReadHeader, BeginCake, GetDbConn, Lookup,
                Fail, Cleanup, EndChunk, ChangeEnv, Goto, TypeOK
  <2> QED BY <2>1, <2>2, <2>3, KeptUntouched
<1>2. ASSUME BeginPtData(q) \/ BeginCake(q) PROVE Kept(q)'
  <2>1. UNCHANGED <<alive, env, registry, current, conn, file, chunk, pin>> /\ q \in alive
    BY <1>2 DEF BeginPtData, BeginCake, Idle
  <2>2. /\ call'[q].reader = None /\ call'[q].used = None
        /\ call'[q].step \in {"reader", "connect"}
        /\ call'[q].step = "connect" => "cake" \in chunk[q].signals
    <3>1. CASE BeginPtData(q)
      BY <3>1 DEF BeginPtData, TypeOK, NoCall
    <3>2. CASE BeginCake(q)
      BY <3>2 DEF BeginCake, TypeOK, NoCall
    <3> QED BY <1>2, <3>1, <3>2
  <2> QED BY <2>1, <2>2 DEF Kept, ReaderKept, ConnKept, CallKept
<1>3. ASSUME GetReader(q) PROVE Kept(q)'
  <2> DEFINE own == OwnRegistry(q)
             reader == IF own.reader # None THEN own.reader
                                            ELSE [owner |-> q, env |-> env[q]]
  <2>1. own \in Registry /\ own.pid = q /\ own.reader \in Reader \cup {None}
    BY OwnRegistryType
  <2>2. reader \in Reader /\ reader.owner = q /\ reader.env >= chunk[q].env
    <3>1. CASE own.reader = None
      BY <3>1 DEF ReaderKept, Reader, TypeOK
    <3>2. CASE own.reader # None
      BY <2>1, <3>2 DEF ReaderKept, Reader, OwnRegistry, NoRegistry
    <3> QED BY <3>1, <3>2
  <2>3. registry' = [registry EXCEPT ![q] = [own EXCEPT !.reader = reader]]
        /\ call' = [call EXCEPT ![q].step = "fetch", ![q].reader = reader]
        /\ UNCHANGED <<alive, env, current, conn, file, chunk, pin>>
        /\ call[q].step = "reader"
    BY <1>3 DEF GetReader
  <2> HIDE DEF own, reader
  <2>4. call'[q] = [call[q] EXCEPT !.step = "fetch", !.reader = reader]
    BY <2>3 DEF TypeOK
  <2>5. call'[q].reader = reader /\ call'[q].step = "fetch"
        /\ call'[q].used = call[q].used
    BY <2>4 DEF TypeOK, Call
  <2>6. registry'[q].pid = q /\ registry'[q].reader = reader
    BY <2>1, <2>3 DEF TypeOK, Registry, NoRegistry
  <2>7. q \in alive
    BY <2>3 DEF CallKept, NoCall
  <2> QED BY <2>2, <2>3, <2>5, <2>6, <2>7 DEF Kept, ReaderKept, ConnKept, CallKept
<1>4. ASSUME Fetch(q) PROVE Kept(q)'
  <2>1. PICK v \in 1..current :
          call' = [call EXCEPT ![q].data = v,
                ![q].step = IF call[q].signal = "ptdata" THEN "ok" ELSE "header"]
    BY <1>4 DEF Fetch
  <2>2. /\ call'[q].reader = call[q].reader /\ call'[q].used = call[q].used
        /\ call'[q].step \in {"header", "ok"}
    BY <2>1 DEF TypeOK, Call
  <2>3. UNCHANGED <<alive, env, registry, current, conn, file, chunk, pin>> /\ q \in alive
    BY <1>4 DEF Fetch, CallKept, NoCall
  <2> QED BY <2>1, <2>2, <2>3 DEF Kept, ReaderKept, ConnKept, CallKept
<1>5. ASSUME ReadHeader(q) PROVE Kept(q)'
  <2>1. /\ call'[q].reader = call[q].reader /\ call'[q].used = call[q].used
        /\ call'[q].step = "ok"
    BY <1>5 DEF ReadHeader, TypeOK, Call
  <2>2. UNCHANGED <<alive, env, registry, current, conn, file, chunk, pin>> /\ q \in alive
    BY <1>5 DEF ReadHeader, CallKept, NoCall
  <2> QED BY <2>1, <2>2 DEF Kept, ReaderKept, ConnKept, CallKept
<1>6. ASSUME GetDbConn(q) PROVE Kept(q)'
  <2>1. /\ call'[q].reader = call[q].reader /\ call'[q].used = call[q].used
    BY <1>6 DEF GetDbConn, Goto, TypeOK, Call
  <2>2. UNCHANGED <<alive, env, registry, current, file, chunk, pin>> /\ q \in alive
        /\ call[q].db \in Database /\ call[q].step = "connect"
    BY <1>6 DEF GetDbConn, CallKept, NoCall, Connecting
  <2>3. ConnKept(q)'
    <3>1. CASE conn[q] # None
      <4>1. conn'[q] = conn[q]
        BY <1>6, <3>1 DEF GetDbConn, TypeOK
      <4> QED BY <2>1, <2>2, <3>1, <4>1 DEF ConnKept
    <3>2. CASE conn[q] = None
      <4> DEFINE c == [db |-> call[q].db, file |-> file[call[q].db]]
      <4>1. conn'[q] = c
        BY <1>6, <3>2 DEF GetDbConn, TypeOK
      <4>2. c \in Conn /\ c.file >= chunk[q].files[c.db]
        BY <2>2 DEF ConnKept, Conn, TypeOK, Chunk
      <4> HIDE DEF c
      <4>3. chunk[q].seen = None
        BY <3>2 DEF ConnKept
      <4> QED BY <2>1, <2>2, <4>1, <4>2, <4>3 DEF ConnKept
    <3> QED BY <3>1, <3>2
  <2> QED BY <2>1, <2>2, <2>3 DEF Kept, ReaderKept, CallKept
<1>7. ASSUME Lookup(q) PROVE Kept(q)'
  <2>1. /\ call'[q].reader = call[q].reader /\ call'[q].used = conn[q]
        /\ call'[q].step = "ok"
    BY <1>7 DEF Lookup, TypeOK, Call
  <2>2. UNCHANGED <<alive, env, registry, current, conn, file, pin>> /\ q \in alive
        /\ conn[q] # None
    BY <1>7 DEF Lookup, CallKept, NoCall, ConnKept
  <2>3. /\ chunk'[q].env = chunk[q].env /\ chunk'[q].files = chunk[q].files
        /\ chunk'[q].seen = conn[q] /\ chunk'[q].signals = chunk[q].signals
    BY <1>7 DEF Lookup, TypeOK, Chunk, ConnKept
  <2> QED BY <2>1, <2>2, <2>3 DEF Kept, ReaderKept, ConnKept, CallKept
<1>8. ASSUME Fail(q) PROVE Kept(q)'
  <2>1. call'[q] = [NoCall EXCEPT !.step = "error"]
    BY <1>8 DEF Fail, TypeOK
  <2>2. UNCHANGED <<alive, env, registry, current, conn, file, chunk, pin>> /\ q \in alive
    BY <1>8 DEF Fail, CallKept, NoCall
  <2> QED BY <2>1, <2>2 DEF Kept, ReaderKept, ConnKept, CallKept, NoCall
<1>9. ASSUME Cleanup(q) PROVE Kept(q)'
  <2>1. /\ registry'[q] = NewRegistry(q) /\ call'[q] = NoCall /\ q \in alive
        /\ UNCHANGED <<alive, env, current, file, pin>>
    BY <1>9 DEF Cleanup, EndChunk, Idle, TypeOK
  <2>2. conn'[q] = None
    BY <1>9 DEF Cleanup, TypeOK, ConnKept
  <2>3. PICK signals \in Pipelines :
          chunk' = [chunk EXCEPT ![q] =
                      [signals |-> signals, files |-> file, seen |-> None,
                       env |-> IF DropsReader(q) THEN env[q] ELSE @.env]]
    BY <1>9 DEF Cleanup, EndChunk
  <2>4. /\ chunk'[q].files = file /\ chunk'[q].seen = None
        /\ chunk'[q].env = IF DropsReader(q) THEN env[q] ELSE chunk[q].env
    BY <2>3 DEF TypeOK
  <2>5. ReaderKept(q)'
    <3>1. CASE DropsReader(q)
      <4>1. registry'[q].pid = q /\ registry'[q].reader = None
        BY <2>1, <3>1, OwnRegistryType DEF NewRegistry, Registry, NoRegistry
      <4> QED BY <2>1, <2>4, <3>1, <4>1 DEF ReaderKept, NoCall, TypeOK
    <3>2. CASE ~DropsReader(q)
      BY <2>1, <2>4, <3>2 DEF NewRegistry, ReaderKept, NoCall
    <3> QED BY <3>1, <3>2
  <2>6. ConnKept(q)'
    BY <2>1, <2>2, <2>4 DEF ConnKept, NoCall, TypeOK
  <2> QED BY <2>1, <2>5, <2>6 DEF Kept, CallKept
<1>10. ASSUME ChangeEnv(q) PROVE Kept(q)'
  <2>1. UNCHANGED <<alive, registry, current, conn, file, call, chunk, pin>>
        /\ env'[q] = env[q] + 1
    BY <1>10 DEF ChangeEnv, TypeOK
  <2>2. chunk[q].env <= env'[q]
    BY <2>1 DEF ReaderKept, TypeOK, Chunk
  <2>3. ReaderKept(q)'
    BY <2>1, <2>2 DEF ReaderKept
  <2> QED BY <2>1, <2>3 DEF Kept, ConnKept, CallKept
<1>11. ASSUME NEW p \in Proc, Fork(p) PROVE Kept(q)'
  <2>1. PICK r \in Proc \ alive :
          /\ alive' = alive \cup {r}
          /\ registry' = [registry EXCEPT ![r] = registry[p]]
          /\ conn' = [conn EXCEPT ![r] = conn[p]]
          /\ env' = [env EXCEPT ![r] = env[p]]
          /\ chunk' = [chunk EXCEPT ![r] = [chunk[p] EXCEPT !.env = env[p]]]
          /\ UNCHANGED <<current, file, call, pin>>
    BY <1>11 DEF Fork
  <2>2. CASE q # r
    BY <2>1, <2>2, KeptUntouched DEF TypeOK
  <2>3. CASE q = r
    <3>1. Kept(p) /\ ReaderKept(p) /\ ConnKept(p)
      BY DEF KeptInv, Kept
    <3>2. /\ alive' = alive \cup {q} /\ file' = file /\ pin' = pin /\ q \in alive'
          /\ registry'[q] = registry[p] /\ conn'[q] = conn[p] /\ env'[q] = env[p]
          /\ chunk'[q] = [chunk[p] EXCEPT !.env = env[p]]
          /\ call'[q] = NoCall
      BY <2>1, <2>3 DEF TypeOK, CallKept
    <3>3. /\ chunk'[q].env = env[p] /\ chunk'[q].files = chunk[p].files
          /\ chunk'[q].seen = chunk[p].seen /\ chunk'[q].signals = chunk[p].signals
      BY <3>2 DEF TypeOK, Chunk
    <3>4. registry'[q].pid # q
      BY <2>1, <2>3, <3>1, <3>2 DEF ReaderKept
    <3>5. ReaderKept(q)'
      BY <3>1, <3>2, <3>3, <3>4 DEF ReaderKept, TypeOK, NoCall
    <3> QED BY <3>1, <3>2, <3>3, <3>5 DEF Kept, ConnKept, CallKept, NoCall
  <2> QED BY <2>2, <2>3
<1>12. StoreVersion => Kept(q)'
  BY DEF StoreVersion, Kept, ReaderKept, ConnKept, CallKept
<1>13. ASSUME NEW d \in Database, ReplaceFile(d) PROVE Kept(q)'
  <2>1. \A e \in Database : file'[e] >= file[e]
    BY <1>13 DEF ReplaceFile, TypeOK
  <2>2. UNCHANGED <<alive, env, registry, current, conn, call, chunk, pin>>
    BY <1>13 DEF ReplaceFile
  <2>3. ConnKept(q)'
    BY <2>1, <2>2, <1>13 DEF ReplaceFile, ConnKept, TypeOK, Chunk
  <2> QED BY <2>2, <2>3 DEF Kept, ReaderKept, CallKept
<1>14. UNCHANGED vars => Kept(q)'
  BY DEF vars, Kept, ReaderKept, ConnKept, CallKept
<1> QED BY <1>1, <1>2, <1>3, <1>4, <1>5, <1>6, <1>7, <1>8, <1>9, <1>10, <1>11,
           <1>12, <1>13, <1>14 DEF Next

-----------------------------------------------------------------------------
(* In every run, for any number of processes, databases and changes: the      *)
(* state of a worker is well-formed.                                          *)
THEOREM WorkerTypeOK == Spec => []TypeOK
<1>1. TypeInv => TypeOK
  BY DEF TypeInv
<1> QED BY <1>1, TypeInit, TypeNext, PTL DEF Spec

LEMMA WorkerKept == Spec => [](TypeInv /\ KeptInv)
BY TypeInit, TypeNext, KeptInit, KeptNext, PTL DEF Spec

(* No process ever fetches through a reader carried across fork               *)
(* (PtDataReaderRegistry.__new__).                                            *)
THEOREM WorkerReaderOwned == Spec => []ReaderOwned
<1>1. KeptInv => ReaderOwned
  BY DEF KeptInv, Kept, ReaderKept, ReaderOwned
<1> QED BY <1>1, WorkerKept, PTL

(* No fetch, an ImasSignal's included, uses settings older than its process   *)
(* or than the last chunk that ended with a PtDataSignal cleaned up in it     *)
(* (PtDataSignal.cleanup; ImasSignal.cleanup leaves the reader).              *)
THEOREM WorkerSettingsFresh == Spec => []SettingsFresh
<1>1. KeptInv => SettingsFresh
  BY DEF KeptInv, Kept, ReaderKept, SettingsFresh
<1> QED BY <1>1, WorkerKept, PTL

(* The lookups of a chunk are all made in one content of a database, which is *)
(* not older than the chunk (CakeSignal.get_db_conn and cleanup).             *)
THEOREM WorkerChunkConsistent == Spec => []ChunkConsistent
<1>1. KeptInv => ChunkConsistent
  BY DEF KeptInv, Kept, ConnKept, ChunkConsistent
<1> QED BY <1>1, WorkerKept, PTL
=============================================================================
