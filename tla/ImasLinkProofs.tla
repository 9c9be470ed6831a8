--------------------------- MODULE ImasLinkProofs ---------------------------
(* Proofs about ImasLink, for any servers, trees, and number of fetches and   *)
(* failures.                                                                  *)
EXTENDS ImasLink, TLAPS

(* The failures that a lost requirement must have met.                        *)
Needed == IF inherited = "dead" THEN 1 ELSE AttemptsPerRequirement

Hurt == faults >= 1 \/ inherited = "dead"

(* How far the failures of this fetch have got.  On the way to the loss of a  *)
(* requirement the first attempt meets a failure, or a session that was dead  *)
(* before; the second one starts without a connection, so it meets its own.   *)
Progress ==
    /\ fetch.step # "end" => fetch.server \in Server /\ fetch.result = "none"
                             /\ fetch.attempt \in {1, 2}
    /\ fetch.attempt = 1 =>
         /\ fetch.step \in {"connect", "open", "get"} =>
              (link[fetch.server] = "dead" => Hurt)
         /\ fetch.step = "drop" => Hurt
    /\ fetch.attempt = 2 =>
         /\ fetch.step # "end" => Hurt
         /\ fetch.step = "connect" /\ ~clung => link[fetch.server] = "none"
         /\ fetch.step \in {"open", "get"} /\ ~clung =>
              (link[fetch.server] = "dead" => faults >= Needed)
         /\ fetch.step = "drop" /\ ~clung => faults >= Needed
    /\ fetch.step \in {"open", "get"} => link[fetch.server] # "none"
    /\ fetch.step = "get" => opened[fetch.server] = fetch.tree

LinkInv == TypeOK /\ Progress /\ NoCascade /\ OwnTree

LEMMA InitLink == Init => LinkInv
<1> SUFFICES ASSUME Init PROVE LinkInv
  OBVIOUS
<1>1. fetch \in Fetch /\ link \in [Server -> LinkState] /\ inherited \in LinkState
      /\ opened \in [Server -> Tree \cup {None}] /\ faults \in Nat
  BY DEF Init, LinkState, Fetch, Step, Result, AttemptsPerRequirement
<1>2. clung \in BOOLEAN
  BY DEF Init
<1>3. fetch.step = "end" /\ fetch.result = "none" /\ fetch.attempt = 0
  BY DEF Init
<1> QED BY <1>1, <1>2, <1>3 DEF LinkInv, TypeOK, Progress, NoCascade, OwnTree

LEMMA NextLink ==
  ASSUME LinkInv, [Next]_vars
  PROVE  LinkInv'
<1> USE DEF AttemptsPerRequirement, Hurt, LinkInv, LinkState, Step, Result
<1>1. TypeOK /\ Progress /\ NoCascade /\ OwnTree
  OBVIOUS
<1>2. CASE \E s \in Server, tree \in Tree : Begin(s, tree)
  <2>1. PICK s \in Server, tree \in Tree : Begin(s, tree)
    BY <1>2
  <2>2. fetch' = [server |-> s, tree |-> tree, attempt |-> 1, step |-> "connect",
                  result |-> "none", got |-> None]
    BY <2>1 DEF Begin
  <2>3. fetch' \in Fetch
    BY <2>2 DEF Fetch
  <2>4. inherited' = link[s] /\ link' = link /\ opened' = opened
        /\ faults' = 0 /\ clung' = FALSE
    BY <2>1 DEF Begin
  <2>5. /\ fetch'.server = s /\ fetch'.step = "connect" /\ fetch'.attempt = 1
        /\ fetch'.result = "none"
    BY <2>2
  <2>6. TypeOK'
    <3>1. clung' \in BOOLEAN
      BY <2>4
    <3> QED BY <1>1, <2>3, <2>4, <3>1 DEF TypeOK
  <2>7. Progress'
    BY <2>4, <2>5 DEF Progress
  <2> QED BY <2>5, <2>6, <2>7 DEF NoCascade, OwnTree
<1>3. CASE Connect
  BY <1>1, <1>3 DEF Connect, Goto, TypeOK, Progress, NoCascade, OwnTree,
     Fetch, Needed
<1>4. CASE DialFails
  BY <1>1, <1>4 DEF DialFails, Goto, TypeOK, Progress, NoCascade, OwnTree,
     Fetch, Needed
<1>5. CASE OpenTree
  BY <1>1, <1>5 DEF OpenTree, Live, Goto, TypeOK, Progress, NoCascade,
     OwnTree, Fetch, Needed
<1>6. CASE Get
  BY <1>1, <1>6 DEF Get, Live, TypeOK, Progress, NoCascade, OwnTree, Fetch,
     Needed
<1>7. CASE DataAbsent
  BY <1>1, <1>7 DEF DataAbsent, End, TypeOK, Progress, NoCascade, OwnTree,
     Fetch, Needed
<1>8. CASE SuspectError
  BY <1>1, <1>8 DEF SuspectError, Fault, Goto, TypeOK, Progress, NoCascade,
     OwnTree, Fetch, Needed
<1>9. CASE OtherError
  <2>1. fetch' \in Fetch /\ fetch'.result = "raised" /\ fetch'.step = "end"
        /\ fetch'.attempt = fetch.attempt /\ inherited' = inherited
        /\ opened' = opened /\ clung' = clung
    BY <1>1, <1>9 DEF OtherError, End, TypeOK, Fetch
  <2>2. fetch.server \in Server
    BY <1>1, <1>9 DEF OtherError, Progress
  <2>3. link' \in [Server -> LinkState] /\ faults' \in Nat
    BY <1>1, <1>9, <2>2 DEF OtherError, Fault, TypeOK
  <2> QED BY <1>1, <2>1, <2>3 DEF TypeOK, Progress, NoCascade, OwnTree
<1>10. CASE DropConnection
  <2>1. /\ fetch.step = "drop" /\ fetch.server \in Server
        /\ inherited' = inherited /\ opened' = opened /\ faults' = faults
    BY <1>1, <1>10 DEF DropConnection, Progress
  <2>2. /\ link' \in [Server -> LinkState] /\ clung' \in BOOLEAN
        /\ clung' \/ (link'[fetch.server] = "none" /\ clung' = clung)
    BY <1>1, <1>10, <2>1 DEF DropConnection, Evict, Keep, TypeOK
  <2>3. CASE fetch.attempt = 1
    <3>1. fetch' \in Fetch /\ fetch'.step = "connect" /\ fetch'.attempt = 2
          /\ fetch'.server = fetch.server /\ fetch'.result = fetch.result
      <4>1. fetch' = [fetch EXCEPT !.step = "connect", !.attempt = @ + 1]
        BY <1>10, <2>3 DEF DropConnection
      <4>2. fetch' = [fetch EXCEPT !.step = "connect", !.attempt = 2]
        BY <2>3, <4>1
      <4>3. 2 \in 0..AttemptsPerRequirement /\ fetch \in Fetch
        BY <1>1 DEF TypeOK
      <4> QED BY <4>2, <4>3 DEF Fetch
    <3> QED BY <1>1, <2>1, <2>2, <2>3, <3>1
            DEF TypeOK, Progress, NoCascade, OwnTree, Needed
  <2>4. CASE fetch.attempt = 2
    <3>1. fetch' \in Fetch /\ fetch'.step = "end" /\ fetch'.result = "lost"
      <4>1. fetch' = [fetch EXCEPT !.step = "end", !.result = "lost"]
        BY <1>10, <2>4 DEF DropConnection, End
      <4> QED BY <1>1, <4>1 DEF TypeOK, Fetch
    <3> QED BY <1>1, <2>1, <2>2, <2>4, <3>1
            DEF TypeOK, Progress, NoCascade, OwnTree, Needed
  <2> QED BY <1>1, <2>1, <2>3, <2>4 DEF Progress
<1>11. CASE \E s \in Server : CleanupShot(s) \/ Cleanup(s)
  BY <1>1, <1>11 DEF CleanupShot, Cleanup, Evict, Keep, TypeOK, Progress,
     NoCascade, OwnTree, Fetch, Needed
<1>12. CASE \E s \in Server : Expire(s)
  BY <1>1, <1>12 DEF Expire, TypeOK, Progress, NoCascade, OwnTree, Fetch, Needed
<1>13. CASE UNCHANGED vars
  BY <1>1, <1>13 DEF vars, TypeOK, Progress, NoCascade, OwnTree, Needed
<1> QED BY <1>2, <1>3, <1>4, <1>5, <1>6, <1>7, <1>8, <1>9, <1>10, <1>11, <1>12,
           <1>13 DEF Next

(* Unless a disconnect of its own left the connection in the registry, a      *)
(* requirement is lost only to failures during its own fetch: two of them, or *)
(* one when it inherited a dead session (_fetch_remote_requirement).          *)
THEOREM LinkNoCascade == Spec => []NoCascade
<1>1. Init => LinkInv
  BY InitLink
<1>2. LinkInv /\ [Next]_vars => LinkInv'
  BY NextLink
<1>3. LinkInv => NoCascade
  BY DEF LinkInv
<1> QED BY <1>1, <1>2, <1>3, PTL DEF Spec

(* What the registry and a fetch keep is well-formed, for any servers, trees  *)
(* and number of failures.                                                    *)
THEOREM LinkTypeOK == Spec => []TypeOK
<1>1. Init => LinkInv
  BY InitLink
<1>2. LinkInv /\ [Next]_vars => LinkInv'
  BY NextLink
<1>3. LinkInv => TypeOK
  BY DEF LinkInv
<1> QED BY <1>1, <1>2, <1>3, PTL DEF Spec

(* Whatever was redialled or expired in between, a requirement is evaluated   *)
(* in the tree and shot it names (_fetch_remote_requirement opens it anew).   *)
THEOREM LinkOwnTree == Spec => []OwnTree
<1>1. Init => LinkInv
  BY InitLink
<1>2. LinkInv /\ [Next]_vars => LinkInv'
  BY NextLink
<1>3. LinkInv => OwnTree
  BY DEF LinkInv
<1> QED BY <1>1, <1>2, <1>3, PTL DEF Spec

(* A requirement that was lost leaves no connection in the registry, whatever *)
(* failed on the way, unless the disconnect itself raised without evicting:   *)
(* the last attempt of _fetch_remote_requirement drops it too.                *)
THEOREM LinkLostDropped == Spec => LostDropped
<1>1. Init => LinkInv
  BY InitLink
<1>2. LinkInv /\ [Next]_vars => LinkInv'
  BY NextLink
<1>3. LinkInv /\ [Next]_vars =>
        [(fetch'.result = "lost" /\ fetch.result # "lost" /\ ~clung')
           => link'[fetch'.server] = "none"]_vars
  <2> SUFFICES ASSUME LinkInv, Next, fetch'.result = "lost", fetch.result # "lost",
                      ~clung'
               PROVE  link'[fetch'.server] = "none"
    OBVIOUS
  <2>1. TypeOK /\ Progress
    BY DEF LinkInv
  <2>2. DropConnection
    <3>1. ~Connect /\ ~DialFails /\ ~OpenTree /\ ~SuspectError
      BY <2>1 DEF Connect, DialFails, OpenTree, SuspectError, Goto, TypeOK, Fetch
    <3>2. ~Get /\ ~DataAbsent /\ ~OtherError
      BY <2>1 DEF Get, DataAbsent, OtherError, End, TypeOK, Fetch
    <3>3. \A s \in Server : /\ \A tree \in Tree : ~Begin(s, tree)
                            /\ ~CleanupShot(s) /\ ~Cleanup(s) /\ ~Expire(s)
      <4>1. \A s \in Server, tree \in Tree : ~Begin(s, tree)
        BY DEF Begin
      <4>2. fetch' # fetch
        OBVIOUS
      <4> QED BY <4>1, <4>2 DEF CleanupShot, Cleanup, Expire
    <3> QED BY <3>1, <3>2, <3>3 DEF Next
  <2>3. fetch'.server = fetch.server /\ fetch.server \in Server
    BY <2>1, <2>2 DEF DropConnection, End, TypeOK, Fetch, Progress
  <2> QED BY <2>1, <2>2, <2>3 DEF DropConnection, Evict, TypeOK
<1> QED BY <1>1, <1>2, <1>3, PTL DEF Spec, LostDropped
=============================================================================
