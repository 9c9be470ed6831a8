------------------------------ MODULE CakeStore ------------------------------
(* What the CAKE cache promises its callers, with no lock, sidecar, temporary *)
(* file, memo or process in sight.  A client asks for a source; meanwhile the *)
(* held copy of a source is only ever replaced, in one step, by a version its *)
(* remote has had, never an older one; an answer called current names a held  *)
(* copy at least as new as the remote was when the client asked, and an       *)
(* answer called cached names some held copy.  CakeCache implements this.     *)
EXTENDS Integers

CONSTANTS Source, RemoteSource, Client, MaxVersion, None

Version == 0..MaxVersion

VARIABLES remote,  \* the version each remote source has now
          held,    \* the version of each source's local copy, None at first
          asked,   \* clients waiting for an answer
          want,    \* what each client asked for last
          floor,   \* the version that source had then
          answer   \* the answer to it

vars == <<remote, held, asked, want, floor, answer>>

Init ==
    /\ remote = [s \in RemoteSource |-> 0]
    /\ held = [s \in RemoteSource |-> None]
    /\ asked = {}
    /\ want = [c \in Client |-> None]
    /\ floor = [c \in Client |-> 0]
    /\ answer = [c \in Client |-> "none"]

Grow(s) ==
    /\ remote' = [remote EXCEPT ![s] = @ + 1]
    /\ UNCHANGED <<held, asked, want, floor, answer>>

Replace(s) ==
    /\ \E v \in 0..remote[s] :
         /\ held[s] # None => v >= held[s]
         /\ held' = [held EXCEPT ![s] = v]
    /\ UNCHANGED <<remote, asked, want, floor, answer>>

(* A question is put; a local path, or a source answered before, may be       *)
(* answered in the same step.                                                 *)
Ask(c, s) ==
    /\ c \notin asked
    /\ want' = [want EXCEPT ![c] = s]
    /\ floor' = [floor EXCEPT ![c] = IF s \in RemoteSource THEN remote[s] ELSE 0]
    /\ \/ /\ s \notin RemoteSource
          /\ answer' = [answer EXCEPT ![c] = "asis"] /\ UNCHANGED asked
       \/ /\ s \in RemoteSource /\ held[s] # None
          /\ answer' = [answer EXCEPT ![c] = "cached"] /\ UNCHANGED asked
       \/ /\ s \in RemoteSource
          /\ answer' = [answer EXCEPT ![c] = "none"] /\ asked' = asked \cup {c}
    /\ UNCHANGED <<remote, held>>

Honest(c, a) ==
    \/ /\ a = "current" /\ held[want[c]] # None
       /\ held[want[c]] >= floor[c]
    \/ a = "cached" /\ held[want[c]] # None
    \/ a = "error"

Reply(c) ==
    /\ c \in asked
    /\ asked' = asked \ {c}
    /\ \E a \in {"current", "cached", "error"} :
         Honest(c, a) /\ answer' = [answer EXCEPT ![c] = a]
    /\ UNCHANGED <<remote, held, want, floor>>

(* Clients die with their process, answered or not.                           *)
Vanish(dead) ==
    /\ asked' = asked \ dead
    /\ answer' = [c \in Client |-> IF c \in dead THEN "none" ELSE answer[c]]
    /\ UNCHANGED <<remote, held, want, floor>>

Next ==
    \/ \E s \in RemoteSource : Grow(s)
    \/ \E s \in RemoteSource : Replace(s)
    \/ \E c \in Client, s \in Source : Ask(c, s)
    \/ \E c \in Client : Reply(c)
    \/ \E dead \in SUBSET Client : Vanish(dead)

Spec == Init /\ [][Next]_vars
=============================================================================
