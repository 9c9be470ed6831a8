----------------------------- MODULE WorkerProcess -----------------------------
(* What PtDataSignal and CakeSignal keep in a worker process from one fetch   *)
(* to the next: the shared reader of PtDataReaderRegistry, and the SQLite     *)
(* connection _conn_cache, across forks, cleanups and changes of the          *)
(* environment; and the version pin of a shot on its way through              *)
(* PtDataSignal.gather (src/toksearch_d3d/signal/ptdata.py and cake.py).      *)
(*                                                                            *)
(* One shot is enough: fetches share nothing but what is kept.  External: a   *)
(* reader keeps the environment it was constructed in; the store serves the   *)
(* version asked for or fails, and without a pin the current one, which moves *)
(* on; a connection reads the file that its path named when it was opened.    *)
EXTENDS Integers

CONSTANTS Proc, First,  \* processes, by pid; the one that exists at the start
          Pipelines,    \* the kinds of signals in each pipeline that is run
          Database,     \* cake_db_location of the CAKE signals
          MaxVersion,   \* bound: stored versions of the shot
          MaxEnv,       \* bound: changes of the environment of any process
          MaxFile,      \* bound: contents a database's path has
          None

ASSUME ProcAssumption == First \in Proc /\ None \notin Proc
ASSUME BoundAssumption == MaxVersion \in Nat \ {0} /\ MaxEnv \in Nat
                            /\ MaxFile \in Nat \ {0}

VARIABLES alive, env,
          registry, \* PtDataReaderRegistry.__instance in each process
          pin,      \* the version the pipeline's shot list pins the shot to
          current,  \* the version the shot has when nothing is pinned
          conn,     \* _conn_cache in each process
          file,     \* the contents each database's path names
          call,     \* the gather a process makes, or its last one
          chunk     \* the pipeline of the process's current chunk; history:
                    \* what the chunk began with

vars == <<alive, env, registry, current, conn, file, call, chunk, pin>>

Version == 1..MaxVersion
Reader == [owner : Proc, env : 0..MaxEnv]
NoRegistry == [pid |-> None, reader |-> None]
Registry == {NoRegistry} \cup [pid : Proc, reader : Reader \cup {None}]
Conn == [db : Database, file : 1..MaxFile]
(* "header": a PtDataSignal with keep_header; "imas": a PTDATA requirement of  *)
(* an ImasSignal, which also keeps the header.                                *)
PtData == {"ptdata", "header", "imas"}
Signal == PtData \cup {"cake"}
ASSUME PipelineAssumption == Pipelines # {} /\ Pipelines \subseteq SUBSET Signal
ASSUME NoneAssumption == None \notin Reader \cup Version \cup Conn \cup Signal

(* used: the connection that was looked up in.                                *)
Call == [step : {"reader", "fetch", "header", "connect", "lookup", "ok", "error"},
         signal : Signal \cup {None},
         reader : Reader \cup {None},
         data : Version \cup {None}, header : Version \cup {None},
         db : Database \cup {None}, used : Conn \cup {None}]
NoCall == [step |-> "ok", signal |-> None, reader |-> None, data |-> None,
           header |-> None, db |-> None, used |-> None]

(* env: when the reader was last dropped; files: when the chunk began; seen:   *)
(* the first connection it looked up in.                                      *)
Chunk == [signals : Pipelines, env : 0..MaxEnv, files : [Database -> 1..MaxFile],
          seen : Conn \cup {None}]
FirstChunk(signals) == [signals |-> signals, env |-> 0,
                        files |-> [d \in Database |-> 1], seen |-> None]

Init ==
    /\ alive = {First}
    /\ env = [p \in Proc |-> 0]
    /\ registry = [p \in Proc |-> NoRegistry]
    /\ pin \in Version \cup {None}
    /\ current = 1
    /\ conn = [p \in Proc |-> None]
    /\ file = [d \in Database |-> 1]
    /\ call = [p \in Proc |-> NoCall]
    /\ \E signals \in Pipelines : chunk = [p \in Proc |-> FirstChunk(signals)]

Idle(p) == p \in alive /\ call[p].step \in {"ok", "error"}
Goto(p, step) == call' = [call EXCEPT ![p].step = step]

BeginPtData(p) ==
    /\ Idle(p)
    /\ \E signal \in PtData \cap chunk[p].signals :
         call' = [call EXCEPT ![p] = [NoCall EXCEPT !.step = "reader",
                                          !.signal = signal]]
    /\ UNCHANGED <<alive, env, registry, current, conn, file, chunk, pin>>

BeginCake(p) ==
    /\ Idle(p) /\ "cake" \in chunk[p].signals
    /\ \E d \in Database :
         call' = [call EXCEPT ![p] = [NoCall EXCEPT !.step = "connect",
                                          !.signal = "cake", !.db = d]]
    /\ UNCHANGED <<alive, env, registry, current, conn, file, chunk, pin>>

-----------------------------------------------------------------------------
(* Faulty variants: the pid is not looked at, or not recorded.                *)
AnyRegistry(p) ==
    IF registry[p].pid # None THEN registry[p] ELSE [NoRegistry EXCEPT !.pid = p]

UnstampedRegistry(p) ==
    IF registry[p].pid = p THEN registry[p] ELSE NoRegistry

(* PtDataReaderRegistry(): a process other than the instance's gets a new one.*)
OwnRegistry(p) ==
    IF registry[p].pid = p THEN registry[p] ELSE [NoRegistry EXCEPT !.pid = p]

GetReader(p) ==
    LET own == OwnRegistry(p)
        reader == IF own.reader # None THEN own.reader
                                       ELSE [owner |-> p, env |-> env[p]]
    IN /\ call[p].step = "reader"
       /\ registry' = [registry EXCEPT ![p] = [own EXCEPT !.reader = reader]]
       /\ call' = [call EXCEPT ![p].step = "fetch", ![p].reader = reader]
       /\ UNCHANGED <<alive, env, current, conn, file, chunk, pin>>

(* ImasSignal._fetch_requirement gathers with the shot alone.                 *)
PassedPin(p) == IF call[p].signal = "imas" THEN None ELSE pin

Fetch(p) ==
    /\ call[p].step = "fetch"
    /\ \E v \in 1..current :
         /\ v = IF PassedPin(p) = None THEN current ELSE PassedPin(p)
         /\ call' = [call EXCEPT ![p].data = v,
                        ![p].step = IF call[p].signal = "ptdata" THEN "ok" ELSE "header"]
    /\ UNCHANGED <<alive, env, registry, current, conn, file, chunk, pin>>

(* The header is a read of its own, by point name and shot.                   *)
ReadHeader(p) ==
    /\ call[p].step = "header"
    /\ call' = [call EXCEPT ![p].header = current, ![p].step = "ok"]
    /\ UNCHANGED <<alive, env, registry, current, conn, file, chunk, pin>>

-----------------------------------------------------------------------------
(* Faulty variant: a connection is opened for every lookup.                   *)
GetNewConn(p) ==
    /\ call[p].step = "connect"
    /\ conn' = [conn EXCEPT ![p] = [db |-> call[p].db, file |-> file[call[p].db]]]
    /\ Goto(p, "lookup")
    /\ UNCHANGED <<alive, env, registry, current, file, chunk, pin>>

(* get_db_conn: the process's one connection, whichever database it is to.    *)
GetDbConn(p) ==
    /\ call[p].step = "connect"
    /\ conn' = [conn EXCEPT ![p] =
                  IF @ # None THEN @
                              ELSE [db |-> call[p].db, file |-> file[call[p].db]]]
    /\ Goto(p, "lookup")
    /\ UNCHANGED <<alive, env, registry, current, file, chunk, pin>>

(* get_upload_ids, and the tree read at the upload id it found.               *)
Lookup(p) ==
    /\ call[p].step = "lookup"
    /\ call' = [call EXCEPT ![p].used = conn[p], ![p].step = "ok"]
    /\ chunk' = [chunk EXCEPT ![p].seen = IF @ = None THEN conn[p] ELSE @]
    /\ UNCHANGED <<alive, env, registry, current, conn, file, pin>>

(* A read fails; the pinned version is not stored or not served; the database *)
(* cannot be opened, or has no row for the shot.  Nothing is returned.        *)
Fail(p) ==
    /\ call[p].step \in {"fetch", "header", "connect", "lookup"}
    /\ call' = [call EXCEPT ![p] = [NoCall EXCEPT !.step = "error"]]
    /\ UNCHANGED <<alive, env, registry, current, conn, file, chunk, pin>>

-----------------------------------------------------------------------------
(* PtDataSignal.cleanup drops the reader.  ImasSignal.cleanup does not, and    *)
(* the PtDataSignals it fetches through are never cleaned up.                 *)
DropsReader(p) == chunk[p].signals \cap {"ptdata", "header"} # {}

NewRegistry(p) ==
    IF DropsReader(p) THEN [OwnRegistry(p) EXCEPT !.reader = None] ELSE registry[p]

EndChunk(p) ==
    /\ \E signals \in Pipelines :
         chunk' = [chunk EXCEPT ![p] =
                     [signals |-> signals, files |-> file, seen |-> None,
                      env |-> IF DropsReader(p) THEN env[p] ELSE @.env]]
    /\ call' = [call EXCEPT ![p] = NoCall]

(* Faulty variants: one of the two is left in place.                          *)
CleanupConn(p) ==
    /\ Idle(p)
    /\ conn' = [conn EXCEPT ![p] = IF "cake" \in chunk[p].signals THEN None ELSE @]
    /\ EndChunk(p)
    /\ UNCHANGED <<alive, env, registry, current, file, pin>>
CleanupReader(p) ==
    /\ Idle(p)
    /\ registry' = [registry EXCEPT ![p] = NewRegistry(p)]
    /\ EndChunk(p)
    /\ UNCHANGED <<alive, env, current, conn, file, pin>>

(* The chunk ends: the pipeline calls cleanup on each of its signals.  The     *)
(* next one can be another pipeline's.                                        *)
Cleanup(p) ==
    /\ Idle(p)
    /\ registry' = [registry EXCEPT ![p] = NewRegistry(p)]
    /\ conn' = [conn EXCEPT ![p] = IF "cake" \in chunk[p].signals THEN None ELSE @]
    /\ EndChunk(p)
    /\ UNCHANGED <<alive, env, current, file, pin>>

(* A worker is forked between two fetches: it inherits both.  Its reader will *)
(* be new; it goes on with the pipeline and the chunk it was forked from.     *)
Fork(p) ==
    /\ Idle(p)
    /\ \E q \in Proc \ alive :
         /\ alive' = alive \cup {q}
         /\ registry' = [registry EXCEPT ![q] = registry[p]]
         /\ conn' = [conn EXCEPT ![q] = conn[p]]
         /\ env' = [env EXCEPT ![q] = env[p]]
         /\ chunk' = [chunk EXCEPT ![q] = [chunk[p] EXCEPT !.env = env[p]]]
    /\ UNCHANGED <<current, file, call, pin>>

ChangeEnv(p) ==
    /\ Idle(p) /\ \A q \in Proc : env[q] < MaxEnv
    /\ env' = [env EXCEPT ![p] = @ + 1]
    /\ UNCHANGED <<alive, registry, current, conn, file, call, chunk, pin>>

StoreVersion ==
    /\ current < MaxVersion
    /\ current' = current + 1
    /\ UNCHANGED <<alive, env, registry, conn, file, call, chunk, pin>>

(* ensure_local_cake_db, in some process, replaces a cached database.         *)
ReplaceFile(d) ==
    /\ file[d] < MaxFile
    /\ file' = [file EXCEPT ![d] = @ + 1]
    /\ UNCHANGED <<alive, env, registry, current, conn, call, chunk, pin>>

Next ==
    \/ \E p \in Proc : \/ BeginPtData(p) \/ GetReader(p) \/ Fetch(p) \/ ReadHeader(p)
                       \/ BeginCake(p) \/ GetDbConn(p) \/ Lookup(p)
                       \/ Fail(p) \/ Cleanup(p) \/ Fork(p) \/ ChangeEnv(p)
    \/ StoreVersion
    \/ \E d \in Database : ReplaceFile(d)

Spec == Init /\ [][Next]_vars

-----------------------------------------------------------------------------
TypeOK ==
    /\ alive \subseteq Proc
    /\ env \in [Proc -> 0..MaxEnv]
    /\ registry \in [Proc -> Registry]
    /\ pin \in Version \cup {None} /\ current \in Version
    /\ conn \in [Proc -> Conn \cup {None}]
    /\ file \in [Database -> 1..MaxFile]
    /\ call \in [Proc -> Call]
    /\ chunk \in [Proc -> Chunk]

(* A process fetches through a reader it constructed itself, never through    *)
(* one carried across fork (libfdpio is not fork-safe), however many          *)
(* generations of processes inherited the registry.                           *)
ReaderOwned ==
    \A p \in Proc : call[p].reader # None => call[p].reader.owner = p

(* Settings take effect once a PtDataSignal is cleaned up: a fetch, an        *)
(* ImasSignal's too, never uses a reader configured before the last end of a  *)
(* chunk with PTDATA signals in its process, or before the process was        *)
(* forked.                                                                    *)
SettingsFresh ==
    \A p \in Proc : call[p].reader # None => call[p].reader.env >= chunk[p].env

(* A pin is a guarantee: what is fetched under a pin is of that version.      *)
OfPinned(version) == version # None /\ pin # None => version = pin

(* So is the header returned with the data of a PTDATA signal.                *)
PinnedHeader ==
    \A p \in Proc : call[p].signal # "imas" => OfPinned(call[p].header)

(* And so is PTDATA in the values of an ImasSignal.                           *)
PinnedImas ==
    \A p \in Proc : call[p].signal = "imas" => OfPinned(call[p].data)

(* A pin holds for at least one of what is fetched beside the data: in no     *)
(* state is there both a header and a value of another version.               *)
PinnedBeside == PinnedHeader \/ PinnedImas

(* All shots of a chunk are resolved in the same contents of a database, also *)
(* when the file is replaced meanwhile, and contents no older than the chunk. *)
ChunkConsistent ==
    \A p \in Proc : call[p].used # None =>
        /\ call[p].used = chunk[p].seen
        /\ call[p].used.file >= chunk[p].files[call[p].used.db]

(* A CAKE signal resolves a shot in the database it was given.                *)
OwnDatabase ==
    \A p \in Proc : call[p].used # None => call[p].used.db = call[p].db
=============================================================================
