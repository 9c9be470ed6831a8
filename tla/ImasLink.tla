------------------------------- MODULE ImasLink -------------------------------
(* The remote requirement fetches of every ImasSignal of one worker process,  *)
(* one after the other, over the connections that toksearch's                 *)
(* MdsConnectionRegistry keeps for the whole life of the process:             *)
(* _fetch_remote_requirement, _drop_connection, cleanup_shot and cleanup of    *)
(* src/toksearch_d3d/signal/imas.py.                                          *)
(*                                                                            *)
(* The registry and the fdp relay behind a connection are external and are    *)
(* modelled as the code's comments describe them: connect returns the cached  *)
(* connection of a server or dials one; a call that fails can leave the       *)
(* session dead; every later call on a dead session fails; a server may also  *)
(* drop a session between two calls.                                          *)
EXTENDS Integers

CONSTANTS Server, Tree, None

ASSUME NoneAssumption == None \notin Server /\ None \notin Tree

AttemptsPerRequirement == 2

VARIABLES link,    \* the registry's connection to each server
          opened,  \* the tree open on that session
          fetch,   \* the requirement being fetched, or the last one
          faults,  \* history: failures the network caused during this fetch
          inherited, \* history: the link this fetch started with
          clung    \* history: a disconnect of this fetch raised without evicting

vars == <<link, opened, fetch, faults, inherited, clung>>

LinkState == {"none", "live", "dead"}
Step == {"connect", "open", "get", "drop", "end"}
(* "data": the value was returned; "absent": a tree error propagated; "lost": *)
(* the last attempt's link error was raised; "raised": any other exception.   *)
Result == {"none", "data", "absent", "lost", "raised"}
Fetch == [server : Server \cup {None}, tree : Tree \cup {None},
          attempt : 0..AttemptsPerRequirement, step : Step, result : Result,
          got : Tree \cup {None}]

Init ==
    /\ link = [s \in Server |-> "none"]
    /\ opened = [s \in Server |-> None]
    /\ fetch = [server |-> None, tree |-> None, attempt |-> 0, step |-> "end",
                result |-> "none", got |-> None]
    /\ faults = 0
    /\ inherited = "none" /\ clung = FALSE

Goto(step) == fetch' = [fetch EXCEPT !.step = step]
End(result) == fetch' = [fetch EXCEPT !.step = "end", !.result = result]
Live == link[fetch.server] = "live"

(* A call fails on a session: when it was live that is the network's doing,   *)
(* and the session may not survive it; on a dead one nothing else can happen. *)
Fault(s) ==
    \/ /\ link[s] = "live" /\ faults' = faults + 1
       /\ \E after \in {"live", "dead"} : link' = [link EXCEPT ![s] = after]
    \/ link[s] = "dead" /\ UNCHANGED <<link, faults>>

Begin(s, tree) ==
    /\ fetch.step = "end"
    /\ fetch' = [server |-> s, tree |-> tree, attempt |-> 1, step |-> "connect",
                 result |-> "none", got |-> None]
    /\ faults' = 0
    /\ inherited' = link[s] /\ clung' = FALSE
    /\ UNCHANGED <<link, opened>>

(* connect: the cached connection, or a newly dialled one with no tree open.  *)
Connect ==
    /\ fetch.step = "connect"
    /\ \/ link[fetch.server] # "none" /\ UNCHANGED <<link, opened>>
       \/ /\ link[fetch.server] = "none"
          /\ link' = [link EXCEPT ![fetch.server] = "live"]
          /\ opened' = [opened EXCEPT ![fetch.server] = None]
    /\ Goto("open")
    /\ UNCHANGED <<faults, inherited, clung>>

DialFails ==
    /\ fetch.step = "connect" /\ link[fetch.server] = "none"
    /\ faults' = faults + 1
    /\ Goto("drop")
    /\ UNCHANGED <<link, opened, inherited, clung>>

(* Faulty variant: a tree that is open already is not opened again.           *)
OpenTreeOnce ==
    /\ fetch.step = "open" /\ Live
    /\ IF opened[fetch.server] = None
       THEN opened' = [opened EXCEPT ![fetch.server] = fetch.tree]
       ELSE UNCHANGED opened
    /\ Goto("get")
    /\ UNCHANGED <<link, faults, inherited, clung>>

OpenTree ==
    /\ fetch.step = "open" /\ Live
    /\ opened' = [opened EXCEPT ![fetch.server] = fetch.tree]
    /\ Goto("get")
    /\ UNCHANGED <<link, faults, inherited, clung>>

(* The value comes from whatever tree the session has open.                   *)
Get ==
    /\ fetch.step = "get" /\ Live
    /\ fetch' = [fetch EXCEPT !.step = "end", !.result = "data",
                              !.got = opened[fetch.server]]
    /\ UNCHANGED <<link, opened, faults, inherited, clung>>

(* Tree-class errors mean absent data; they leave the session alone and       *)
(* propagate untouched.                                                       *)
DataAbsent ==
    /\ fetch.step \in {"open", "get"} /\ Live
    /\ End("absent")
    /\ UNCHANGED <<link, opened, faults, inherited, clung>>

(* One of _CONNECTION_SUSPECT_ERRORS, on a live session or because the        *)
(* session is dead.                                                           *)
SuspectError ==
    /\ fetch.step \in {"open", "get"}
    /\ Fault(fetch.server)
    /\ Goto("drop")
    /\ UNCHANGED <<opened, inherited, clung>>

(* Any other exception leaves the loop, and the connection in the registry.   *)
OtherError ==
    /\ \/ fetch.step \in {"open", "get"} /\ Fault(fetch.server)
       \/ /\ fetch.step = "connect" /\ link[fetch.server] = "none"
          /\ faults' = faults + 1 /\ UNCHANGED link
    /\ End("raised")
    /\ UNCHANGED <<opened, inherited, clung>>

(* Faulty variants: the connection is dropped only when another attempt       *)
(* follows, or only when none does; or the last attempt is retried too.       *)
DropBeforeRetryOnly ==
    /\ fetch.step = "drop"
    /\ \/ /\ fetch.attempt < AttemptsPerRequirement
          /\ link' = [link EXCEPT ![fetch.server] = "none"]
          /\ fetch' = [fetch EXCEPT !.step = "connect", !.attempt = @ + 1]
       \/ fetch.attempt = AttemptsPerRequirement /\ End("lost") /\ UNCHANGED link
    /\ UNCHANGED <<opened, faults, inherited, clung>>
RetryOnSameLink ==
    /\ fetch.step = "drop"
    /\ \/ /\ fetch.attempt < AttemptsPerRequirement /\ UNCHANGED link
          /\ fetch' = [fetch EXCEPT !.step = "connect", !.attempt = @ + 1]
       \/ /\ fetch.attempt = AttemptsPerRequirement /\ End("lost")
          /\ link' = [link EXCEPT ![fetch.server] = "none"]
    /\ UNCHANGED <<opened, faults, inherited, clung>>

RetryPastLimit ==
    /\ fetch.step = "drop"
    /\ link' = [link EXCEPT ![fetch.server] = "none"]
    /\ \/ /\ fetch.attempt <= AttemptsPerRequirement
          /\ fetch' = [fetch EXCEPT !.step = "connect", !.attempt = @ + 1]
       \/ fetch.attempt > AttemptsPerRequirement /\ End("lost")
    /\ UNCHANGED <<opened, faults, inherited, clung>>

(* disconnect may raise, which is swallowed, and leave the connection there.  *)
Evict(s) == link' = [link EXCEPT ![s] = "none"]
Keep == UNCHANGED link

(* The connection is dropped after every suspect error, the last one too,     *)
(* then the attempt is repeated from connect or the error is raised.          *)
DropConnection ==
    /\ fetch.step = "drop"
    /\ \/ Evict(fetch.server) /\ UNCHANGED clung
       \/ Keep /\ clung' = TRUE
    /\ \/ /\ fetch.attempt < AttemptsPerRequirement
          /\ fetch' = [fetch EXCEPT !.step = "connect", !.attempt = @ + 1]
       \/ fetch.attempt = AttemptsPerRequirement /\ End("lost")
    /\ UNCHANGED <<opened, faults, inherited>>

(* cleanup_shot dials if need be, closes the trees, and swallows any failure, *)
(* whatever that left in the registry.                                        *)
CleanupShot(s) ==
    /\ fetch.step = "end"
    /\ \/ /\ link[s] \in {"none", "live"}
          /\ link' = [link EXCEPT ![s] = "live"]
          /\ opened' = [opened EXCEPT ![s] = None]
       \/ link' = [link EXCEPT ![s] = "dead"] /\ UNCHANGED opened
       \/ UNCHANGED <<link, opened>>
    /\ UNCHANGED <<fetch, faults, inherited, clung>>

Cleanup(s) ==
    /\ fetch.step = "end"
    /\ Evict(s) \/ Keep
    /\ UNCHANGED <<opened, fetch, faults, inherited, clung>>

(* The server drops a session nobody is using at that moment.                 *)
Expire(s) ==
    /\ link[s] = "live"
    /\ link' = [link EXCEPT ![s] = "dead"]
    /\ faults' = IF fetch.step # "end" /\ s = fetch.server THEN faults + 1
                                                           ELSE faults
    /\ UNCHANGED <<opened, fetch, inherited, clung>>

Next ==
    \/ \E s \in Server, tree \in Tree : Begin(s, tree)
    \/ Connect \/ DialFails \/ OpenTree \/ Get \/ DataAbsent \/ SuspectError
    \/ OtherError \/ DropConnection
    \/ \E s \in Server : CleanupShot(s) \/ Cleanup(s) \/ Expire(s)

Spec == Init /\ [][Next]_vars

-----------------------------------------------------------------------------
TypeOK ==
    /\ link \in [Server -> LinkState]
    /\ opened \in [Server -> Tree \cup {None}]
    /\ fetch \in Fetch
    /\ faults \in Nat
    /\ inherited \in LinkState /\ clung \in BOOLEAN

(* One slow call must not become many failures: a requirement is lost only to *)
(* what happens while it is fetched, never to a session that an earlier       *)
(* requirement, or a swallowed cleanup error, left dead in the registry; and  *)
(* one failure is not enough to lose it unless that dead session had already  *)
(* used up the first attempt.  Only a disconnect that raises without evicting *)
(* weakens this.                                                              *)
NoCascade ==
    fetch.result = "lost" /\ ~clung =>
        faults >= (IF inherited = "dead" THEN 1 ELSE AttemptsPerRequirement)

(* A value comes from the tree its requirement names, also after a redial and *)
(* when another signal had a different tree open on the shared session.       *)
OwnTree == fetch.result = "data" => fetch.got = fetch.tree

(* A requirement that was lost leaves no connection behind: the next one      *)
(* dials afresh.                                                              *)
LostDropped ==
    [][(fetch'.result = "lost" /\ fetch.result # "lost" /\ ~clung')
         => link'[fetch'.server] = "none"]_vars
=============================================================================
