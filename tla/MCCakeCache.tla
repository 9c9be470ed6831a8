----------------------------- MODULE MCCakeCache -----------------------------
(* TLC instances of CakeCache.  t1 and t2 are threads of process p1, t3 of    *)
(* p2; the cfg chooses which of them run, over which sources and paths.       *)
EXTENDS CakeCache

CONSTANTS p1, p2, t1, t2, t3, iri, copy, disk, path

MCProcOf == [t \in Thread |-> IF t = t3 THEN p2 ELSE p1]
(* Every remote source has the same basename.                                 *)
MCOnePath == [s \in RemoteSource |-> path]
(* CAKE is append-mostly: a later version is larger.                          *)
MCGrowing == [v \in Version |-> 10 + v]
=============================================================================
