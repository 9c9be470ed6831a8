--------------------------- MODULE ImasGatherProofs ---------------------------
(* Proofs about ImasGather, for any composer tables, paths, candidates,       *)
(* failures and bound of the iterations.                                      *)
EXTENDS ImasGather, FiniteSetTheorems, TLAPS

(* What a resolve asked for and has not got is not among what was fetched,    *)
(* and what was fetched was fetched once.                                     *)
FetchedOnce ==
    /\ pending \cap raw = {}
    /\ \A r \in Requirement : fetches[r] = IF r \in raw THEN 1 ELSE 0

(* There is a result when the gather is over; from the layout on nothing is   *)
(* fetched.                                                                   *)
Phases ==
    /\ phase = "hint" => asking \in Targets
    /\ result # "none" => phase = "end"
    /\ phase \in {"shape", "end"} => paths = {} /\ pending = {}

IInv == TypeOK /\ FetchedOnce /\ Phases

-----------------------------------------------------------------------------
LEMMA SeqMonotone ==
  ASSUME NEW S, NEW T, S \subseteq T, NEW s \in Seq(S)
  PROVE  s \in Seq(T)
OBVIOUS

(* A new loop is over a path, asks from the beginning and awaits nothing.     *)
LEMMA TryTyped ==
  ASSUME NEW candidates \in Seq(Path), Try(candidates)
  PROVE  /\ paths' \subseteq Path /\ todo' \in Seq(Path)
         /\ iter' \in 0..MaxIter /\ ready' \in BOOLEAN /\ pending' = {}
<1>1. iter' = 0 /\ 0 \in 0..MaxIter /\ ready' = FALSE
  BY SettingsAssumption DEF Try
<1>2. ready' \in BOOLEAN
  BY <1>1
<1> QED BY <1>1, <1>2 DEF Try

LEMMA TryEmpty == ASSUME Try(<<>>) PROVE paths' = {}
BY DEF Try

LEMMA TargetsLeaves == Targets \subseteq Leaves
BY PathAssumption DEF Targets

(* What a resolve asks for are requirements that have not been fetched.       *)
LEMMA WantedNew ==
  ASSUME NEW p \in Path, NEW have
  PROVE  Wanted(p, have) \subseteq Requirement \ have
<1> SUFFICES ASSUME NEW r \in Wanted(p, have) PROVE r \in Requirement /\ r \notin have
  OBVIOUS
<1>1. PICK i \in Unfinished(p, have) : r \in Rounds[p][i] \ have
  BY DEF Wanted
<1>2. i \in DOMAIN Rounds[p] /\ Rounds[p] \in Seq(SUBSET Requirement)
  BY <1>1, RoundsAssumption DEF Unfinished
<1>3. Rounds[p][i] \subseteq Requirement
  BY <1>2
<1> QED BY <1>1, <1>3

(* The search for names goes on over targets that are left of those there     *)
(* are.                                                                       *)
LEMMA HintForTyped ==
  ASSUME NEW rest, rest \subseteq Targets, HintFor(rest)
  PROVE  /\ phase' \in {"hint", "shape"} /\ asking' \in Leaves \cup {None}
         /\ phase' = "hint" => asking' \in Targets
         /\ phase' = "shape" => paths' = {}
         /\ unasked' \subseteq Targets
         /\ paths' \subseteq Path /\ todo' \in Seq(Path)
         /\ iter' \in 0..MaxIter /\ ready' \in BOOLEAN /\ pending' = {}
<1>1. CASE \E t \in rest \ Scalar :
             /\ phase' = "hint" /\ asking' = t /\ unasked' = rest \ {t}
             /\ Try(NamePaths[t])
  <2>1. PICK t \in rest \ Scalar :
             /\ phase' = "hint" /\ asking' = t /\ unasked' = rest \ {t}
             /\ Try(NamePaths[t])
    BY <1>1
  <2>2. t \in Targets /\ t \in Leaves
    BY <2>1, TargetsLeaves
  <2>3. NamePaths[t] \in Seq(Path)
    BY <2>2, PathAssumption
  <2> QED BY <2>1, <2>2, <2>3, TryTyped
<1>2. CASE rest \subseteq Scalar /\ phase' = "shape" /\ asking' = None
           /\ unasked' = {} /\ Try(<<>>)
  <2>1. <<>> \in Seq(Path)
    OBVIOUS
  <2> QED BY <1>2, <2>1, TryTyped, TryEmpty
<1> QED BY <1>1, <1>2 DEF HintFor

-----------------------------------------------------------------------------
LEMMA InitGather == Init => IInv
<1> SUFFICES ASSUME Init PROVE IInv
  OBVIOUS
<1>1. Targets \subseteq Path /\ Targets \subseteq Leaves
  BY TargetsLeaves, PathAssumption
<1>2. facts \in Facts
  BY DEF Init
<1>3. ready \in BOOLEAN
  BY DEF Init
<1>4. TypeOK
  BY <1>1, <1>2, <1>3, SettingsAssumption DEF Init, TypeOK
<1>5. FetchedOnce
  BY DEF Init, FetchedOnce
<1>6. Phases
  BY DEF Init, Phases
<1> QED BY <1>4, <1>5, <1>6 DEF IInv

(* A step that starts a loop, or none, and fetches nothing keeps what is      *)
(* known of the fetches.                                                      *)
LEMMA NothingFetched ==
  ASSUME FetchedOnce, UNCHANGED <<raw, fetches>>, pending' = {}
  PROVE  FetchedOnce'
BY DEF FetchedOnce

LEMMA NextGather ==
  ASSUME IInv, [Next]_vars
  PROVE  IInv'
<1> USE DEF IInv
<1>0. /\ TypeOK /\ FetchedOnce /\ Phases
      /\ DimPaths \in Seq(Path) /\ <<>> \in Seq(Path) /\ <<ChannelName>> \in Seq(Path)
  <2>1. DimPaths \in Seq(Path)
    <3>1. DimPaths \in Seq(Path \ Leaves) /\ Path \ Leaves \subseteq Path
      BY PathAssumption
    <3> QED BY <3>1, SeqMonotone
  <2> QED BY <2>1, PathAssumption
<1>1. CASE Resolve
  <2>1. /\ UNCHANGED <<facts, phase, paths, todo, raw, fetches, failed, times,
                        search, shaped, result>>
        /\ paths # {} /\ iter' = iter + 1 /\ iter < MaxIter
    BY <1>1 DEF Resolve
  <2>2. ready' \in BOOLEAN
    BY <1>1 DEF Resolve
  <2>3. pending' \subseteq Requirement \ raw
    <3>1. pending' = UNION {Wanted(p, raw) : p \in paths} /\ paths \subseteq Path
      BY <1>0, <1>1 DEF Resolve, TypeOK
    <3> QED BY <3>1, WantedNew
  <2>4. phase # "end"
    BY <1>0, <2>1 DEF Phases
  <2>5. UNCHANGED Targets
    BY <2>1 DEF Targets, Prefix
  <2>6. iter' \in 0..MaxIter
    BY <1>0, <2>1, SettingsAssumption DEF TypeOK
  <2>7. TypeOK'
    BY <1>0, <2>1, <2>2, <2>3, <2>5, <2>6 DEF TypeOK, search
  <2>8. FetchedOnce'
    BY <1>0, <2>1, <2>3 DEF FetchedOnce
  <2>9. Phases'
    BY <1>0, <2>1, <2>4, <2>5 DEF Phases, search
  <2> QED BY <1>0, <2>1, <2>4, <2>7, <2>8, <2>9
<1>2. CASE \E r \in Requirement : FetchRequirement(r)
  <2>1. PICK r \in Requirement : FetchRequirement(r)
    BY <1>2
  <2>2. /\ UNCHANGED <<facts, phase, paths, todo, iter, ready, failed, times,
                        search, shaped, result>>
        /\ r \in pending /\ raw' = raw \cup {r} /\ pending' = pending \ {r}
        /\ fetches' = [fetches EXCEPT ![r] = @ + 1]
    BY <2>1 DEF FetchRequirement
  <2>3. phase # "end"
    BY <1>0, <2>2 DEF Phases
  <2>4. UNCHANGED Targets
    BY <2>2 DEF Targets, Prefix
  <2>5. fetches' \in [Requirement -> Nat]
    BY <1>0, <2>2 DEF TypeOK
  <2>6. TypeOK'
    BY <1>0, <2>2, <2>4, <2>5 DEF TypeOK, search
  <2>7. FetchedOnce'
    <3>1. r \notin raw /\ fetches[r] = 0
      BY <1>0, <2>2 DEF FetchedOnce
    <3>2. \A q \in Requirement : fetches'[q] = IF q = r THEN 1 ELSE fetches[q]
      BY <1>0, <2>2, <3>1 DEF TypeOK
    <3> QED BY <1>0, <2>2, <3>1, <3>2 DEF FetchedOnce
  <2>8. Phases'
    BY <1>0, <2>2, <2>3, <2>4 DEF Phases, search
  <2> QED BY <1>0, <2>2, <2>3, <2>6, <2>7, <2>8
<1>3. CASE ComposePrimary
  <2>1. /\ UNCHANGED <<facts, raw, fetches, failed, times, hints, shaped, result>>
        /\ phase = "primary"
    BY <1>3 DEF ComposePrimary
  <2>2. UNCHANGED Targets
    BY <2>1 DEF Targets, Prefix
  <2>3. /\ phase' \in {"names", "dims", "hint", "shape"}
        /\ asking' \in Leaves \cup {None} /\ unasked' \subseteq Targets
        /\ phase' = "hint" => asking' \in Targets
        /\ phase' = "shape" => paths' = {}
        /\ paths' \subseteq Path /\ todo' \in Seq(Path)
        /\ iter' \in 0..MaxIter /\ ready' \in BOOLEAN /\ pending' = {}
    <3>1. CASE HintFor(Targets)
      BY <3>1, HintForTyped
    <3>2. CASE phase' = "names" /\ Try(<<ChannelName>>) /\ UNCHANGED <<asking, unasked>>
      BY <1>0, <3>2, TryTyped DEF TypeOK
    <3>3. CASE phase' = "dims" /\ Try(DimPaths) /\ UNCHANGED <<asking, unasked>>
      BY <1>0, <3>3, TryTyped DEF TypeOK
    <3> QED BY <1>3, <3>1, <3>2, <3>3 DEF ComposePrimary
  <2>4. TypeOK'
    BY <1>0, <2>1, <2>2, <2>3 DEF TypeOK
  <2>5. Phases'
    BY <1>0, <2>1, <2>2, <2>3 DEF Phases
  <2> QED BY <1>0, <2>1, <2>3, <2>4, <2>5, NothingFetched
<1>4. CASE PrimaryRaises \/ ConversionRaises
  <2>1. /\ UNCHANGED <<facts, raw, fetches, times, search, shaped>>
        /\ phase' = "end" /\ result' = "error" /\ Try(<<>>)
    BY <1>4 DEF PrimaryRaises, ConversionRaises
  <2>2. UNCHANGED Targets
    BY <2>1 DEF Targets, Prefix
  <2>3. /\ paths' = {} /\ todo' \in Seq(Path)
        /\ iter' \in 0..MaxIter /\ ready' \in BOOLEAN /\ pending' = {}
    BY <1>0, <2>1, TryTyped, TryEmpty
  <2>4. TypeOK'
    BY <1>0, <2>1, <2>2, <2>3 DEF TypeOK, search
  <2>5. Phases'
    BY <2>1, <2>3 DEF Phases
  <2> QED BY <1>0, <2>1, <2>3, <2>4, <2>5, NothingFetched
<1>5. CASE ChannelNames
  <2>1. /\ UNCHANGED <<facts, raw, fetches, times, search, shaped, result>>
        /\ phase = "names" /\ phase' = "dims" /\ Try(DimPaths)
    BY <1>5 DEF ChannelNames
  <2>2. UNCHANGED Targets
    BY <2>1 DEF Targets, Prefix
  <2>3. /\ paths' \subseteq Path /\ todo' \in Seq(Path)
        /\ iter' \in 0..MaxIter /\ ready' \in BOOLEAN /\ pending' = {}
    BY <1>0, <2>1, TryTyped
  <2>4. TypeOK'
    BY <1>0, <2>1, <2>2, <2>3 DEF TypeOK, search
  <2>5. Phases'
    BY <1>0, <2>1 DEF Phases
  <2> QED BY <1>0, <2>1, <2>3, <2>4, <2>5, NothingFetched
<1>6. CASE TimesAxis
  <2>1. UNCHANGED <<facts, raw, fetches, hints, shaped, result>> /\ phase = "dims"
    BY <1>6 DEF TimesAxis
  <2>2. UNCHANGED Targets
    BY <2>1 DEF Targets, Prefix
  <2>3. times' \in Path \cup {None}
    <3>1. CASE Composed /\ times' = CHOOSE p \in paths : TRUE
      <4>1. \E p \in paths : TRUE
        BY <3>1 DEF Composed, LoopOver
      <4>2. times' \in paths
        BY <3>1, <4>1
      <4> QED BY <1>0, <4>2 DEF TypeOK
    <3>2. CASE UNCHANGED times
      BY <1>0, <3>2 DEF TypeOK
    <3> QED BY <1>6, <3>1, <3>2 DEF TimesAxis
  <2>4. /\ phase' \in {"hint", "shape"}
        /\ asking' \in Leaves \cup {None} /\ unasked' \subseteq Targets
        /\ phase' = "hint" => asking' \in Targets
        /\ phase' = "shape" => paths' = {}
        /\ paths' \subseteq Path /\ todo' \in Seq(Path)
        /\ iter' \in 0..MaxIter /\ ready' \in BOOLEAN /\ pending' = {}
    <3>1. CASE HintFor(Targets)
      BY <3>1, HintForTyped
    <3>2. CASE phase' = "shape" /\ Try(<<>>) /\ UNCHANGED <<asking, unasked>>
      BY <1>0, <3>2, TryTyped, TryEmpty DEF TypeOK
    <3> QED BY <1>6, <3>1, <3>2 DEF TimesAxis
  <2>5. TypeOK'
    BY <1>0, <2>1, <2>2, <2>3, <2>4 DEF TypeOK
  <2>6. Phases'
    BY <1>0, <2>1, <2>2, <2>4 DEF Phases
  <2> QED BY <1>0, <2>1, <2>4, <2>5, <2>6, NothingFetched
<1>7. CASE NextTimesCandidate \/ NextNameCandidate
  <2>1. /\ UNCHANGED <<facts, phase, raw, fetches, times, search, shaped, result>>
        /\ phase \in {"dims", "hint"} /\ Try(todo)
    BY <1>7 DEF NextTimesCandidate, NextNameCandidate
  <2>2. UNCHANGED Targets
    BY <2>1 DEF Targets, Prefix
  <2>3. /\ paths' \subseteq Path /\ todo' \in Seq(Path)
        /\ iter' \in 0..MaxIter /\ ready' \in BOOLEAN /\ pending' = {}
    BY <1>0, <2>1, TryTyped DEF TypeOK
  <2>4. TypeOK'
    BY <1>0, <2>1, <2>2, <2>3 DEF TypeOK, search
  <2>5. Phases'
    BY <1>0, <2>1, <2>2 DEF Phases, search
  <2> QED BY <1>0, <2>1, <2>3, <2>4, <2>5, NothingFetched
<1>8. CASE EntityHint
  <2>1. /\ UNCHANGED <<facts, raw, fetches, times, shaped, result>>
        /\ phase = "hint" /\ HintFor(unasked)
    BY <1>8 DEF EntityHint
  <2>2. UNCHANGED Targets
    BY <2>1 DEF Targets, Prefix
  <2>3. hints' \subseteq Targets
    BY <1>0, <1>8, <2>1 DEF EntityHint, TypeOK, Phases
  <2>4. /\ phase' \in {"hint", "shape"}
        /\ asking' \in Leaves \cup {None} /\ unasked' \subseteq Targets
        /\ phase' = "hint" => asking' \in Targets
        /\ phase' = "shape" => paths' = {}
        /\ paths' \subseteq Path /\ todo' \in Seq(Path)
        /\ iter' \in 0..MaxIter /\ ready' \in BOOLEAN /\ pending' = {}
    BY <1>0, <2>1, HintForTyped DEF TypeOK
  <2>5. TypeOK'
    BY <1>0, <2>1, <2>2, <2>3, <2>4 DEF TypeOK
  <2>6. Phases'
    BY <1>0, <2>1, <2>2, <2>4 DEF Phases
  <2> QED BY <1>0, <2>1, <2>4, <2>5, <2>6, NothingFetched
<1>9. CASE ApplyLayout
  <2>1. /\ UNCHANGED <<facts, loop, raw, fetches, failed, times, search>>
        /\ phase = "shape" /\ phase' = "end" /\ result' = "value"
        /\ shaped' \subseteq Targets
    BY <1>9 DEF ApplyLayout
  <2>2. UNCHANGED Targets
    BY <2>1 DEF Targets, Prefix
  <2>3. TypeOK'
    BY <1>0, <2>1, <2>2 DEF TypeOK, loop, search
  <2>4. Phases'
    BY <1>0, <2>1 DEF Phases, loop
  <2>5. FetchedOnce'
    BY <1>0, <2>1 DEF FetchedOnce, loop
  <2> QED BY <2>3, <2>4, <2>5
<1>10. CASE UNCHANGED vars
  BY <1>10 DEF vars, loop, search, TypeOK, FetchedOnce, Phases, Targets, Prefix
<1> QED BY <1>1, <1>2, <1>3, <1>4, <1>5, <1>6, <1>7, <1>8, <1>9, <1>10 DEF Next

-----------------------------------------------------------------------------
(* What a gather keeps is well formed: it never awaits what is no requirement *)
(* of a path, nor iterates past max_resolve_iterations.                       *)
THEOREM GatherTypeOK == Spec => []TypeOK
<1>1. Init => IInv
  BY InitGather
<1>2. IInv /\ [Next]_vars => IInv'
  BY NextGather
<1>3. IInv => TypeOK
  BY DEF IInv
<1> QED BY <1>1, <1>2, <1>3, PTL DEF Spec

(* However many candidates are tried over one raw_data, and wherever fetches  *)
(* fail, none is made twice with success in a gather (_fetch_dim).            *)
THEOREM GatherNoRefetch == Spec => []NoRefetch
<1>1. Init => IInv
  BY InitGather
<1>2. IInv /\ [Next]_vars => IInv'
  BY NextGather
<1>3. IInv => NoRefetch
  BY DEF IInv, FetchedOnce, NoRefetch
<1> QED BY <1>1, <1>2, <1>3, PTL DEF Spec

-----------------------------------------------------------------------------
(* Towards OnlyOwnLoss and ShapedByData: what a gather knows at each point of *)
(* what it passed over.                                                       *)

(* After i iterations the first i rounds of every path are fetched or being   *)
(* fetched, so a loop longer than a path's rounds ends satisfied; what is     *)
(* being fetched is for one of its paths.                                     *)
LoopSound ==
    /\ \A p \in paths : \A i \in DOMAIN Rounds[p] :
         i <= iter => Rounds[p][i] \subseteq raw \cup pending
    /\ \A r \in pending : \E p \in paths : NeededBy(r, p)
    /\ ready => \A p \in paths : p \notin facts.never
    /\ (paths # {} /\ \A p \in paths : p \notin facts.never /\ Len(Rounds[p]) < iter)
         => ready

(* A search is at one of its candidates, the others before it were of no use. *)
Walk(list, useless, at, rest) ==
    \/ list = <<>> /\ at = {} /\ rest = <<>>
    \/ \E k \in 1..Len(list) :
         /\ at = {list[k]} /\ Len(rest) = Len(list) - k
         /\ \A j \in 1..Len(rest) : rest[j] = list[k + j]
         /\ \A j \in 1..(k - 1) : list[j] \in useless

Nameless(t) ==
    {p \in Path : p \in Lost("hint") \/ <<p, t>> \notin facts.enumerates}

(* Every name array that enumerates a target was lost.                        *)
NamesLost(t) == \A i \in DOMAIN NamePaths[t] : NamePaths[t][i] \in Nameless(t)

(* Of the targets that are not left, those found to have an entity axis have  *)
(* one, and the others have none but for names that were lost.                *)
SearchSound(left, found) ==
    \A t \in Targets :
        /\ t \in found => t \notin left /\ HasEntityAxis(t)
        /\ t \notin found /\ t \notin left => NamesLost(t)

(* The times axis is the first candidate that was not lost, if there is one.  *)
TimesSound(found) ==
    \/ found = None /\ \A i \in DOMAIN DimPaths : DimPaths[i] \in Lost("dims")
    \/ \E k \in DOMAIN DimPaths :
         /\ found = DimPaths[k] /\ DimPaths[k] \notin facts.never
         /\ \A j \in 1..(k - 1) : DimPaths[j] \in Lost("dims")

DataInv ==
    /\ LoopSound
    /\ phase \in {"primary", "names", "dims"} => times = None /\ hints = {}
    /\ phase \in {"names", "dims"} => ~Prefix
    /\ phase = "dims" => Walk(DimPaths, Lost("dims"), paths, todo)
    /\ phase = "hint" =>
         /\ asking \in Targets \ unasked
         /\ Walk(NamePaths[asking], Nameless(asking), paths, todo)
         /\ SearchSound(unasked \cup {asking}, hints)
    /\ phase = "shape" /\ ~SplitByChannel => SearchSound({}, hints)
    /\ phase \in {"hint", "shape"} => Prefix \/ TimesSound(times)

(* What has been lost stays lost.                                             *)
LEMMA LostGrows ==
  ASSUME failed \subseteq failed', UNCHANGED facts
  PROVE  /\ \A purpose : Lost(purpose) \subseteq Lost(purpose)'
         /\ \A t : Nameless(t) \subseteq Nameless(t)' /\ (NamesLost(t) => NamesLost(t)')
         /\ \A found : TimesSound(found) => TimesSound(found)'
<1>1. ASSUME NEW purpose PROVE Lost(purpose) \subseteq Lost(purpose)'
  BY DEF Lost, NeededBy
<1>2. \A t : Nameless(t) \subseteq Nameless(t)'
  BY <1>1 DEF Nameless
<1>3. \A t : NamesLost(t) => NamesLost(t)'
  BY <1>2 DEF NamesLost
<1>4. ASSUME NEW found, TimesSound(found) PROVE TimesSound(found)'
  BY <1>1, <1>4 DEF TimesSound
<1> QED BY <1>1, <1>2, <1>3, <1>4

LEMMA WalkGrows ==
  ASSUME NEW list, NEW at, NEW rest, NEW useless, NEW more, useless \subseteq more,
         Walk(list, useless, at, rest)
  PROVE  Walk(list, more, at, rest)
BY DEF Walk

LEMMA TryWalks ==
  ASSUME NEW list \in Seq(Path), NEW useless, Try(list)
  PROVE  Walk(list, useless, paths', todo')
<1>1. CASE list = <<>>
  BY <1>1 DEF Try, Walk
<1>2. CASE list # <<>>
  <2>1. /\ 1 \in 1..Len(list) /\ paths' = {list[1]} /\ Len(todo') = Len(list) - 1
        /\ \A j \in 1..Len(todo') : todo'[j] = list[1 + j]
    BY <1>2 DEF Try
  <2>2. \A j \in 1..(1 - 1) : list[j] \in useless
    OBVIOUS
  <2> QED BY <2>1, <2>2 DEF Walk
<1> QED BY <1>1, <1>2

LEMMA TryNextWalks ==
  ASSUME NEW list \in Seq(Path), NEW useless, todo \in Seq(Path), todo # <<>>,
         Walk(list, useless, paths, todo), paths \subseteq useless, Try(todo)
  PROVE  Walk(list, useless, paths', todo')
<1>1. PICK k \in 1..Len(list) :
         /\ paths = {list[k]} /\ Len(todo) = Len(list) - k
         /\ \A j \in 1..Len(todo) : todo[j] = list[k + j]
         /\ \A j \in 1..(k - 1) : list[j] \in useless
  BY DEF Walk
<1>2. /\ paths' = {todo[1]} /\ Len(todo') = Len(todo) - 1 /\ Len(todo) >= 1
      /\ \A j \in 1..Len(todo') : todo'[j] = todo[j + 1]
  BY DEF Try
<1>3. k + 1 \in 1..Len(list) /\ todo[1] = list[k + 1]
  BY <1>1, <1>2
<1>4. \A j \in 1..Len(todo') : todo'[j] = list[(k + 1) + j]
  <2> SUFFICES ASSUME NEW j \in 1..Len(todo') PROVE todo'[j] = list[(k + 1) + j]
    OBVIOUS
  <2>1. j + 1 \in 1..Len(todo) /\ todo'[j] = todo[j + 1] /\ k + (j + 1) = (k + 1) + j
    BY <1>1, <1>2
  <2> QED BY <1>1, <2>1
<1>5. \A j \in 1..((k + 1) - 1) : list[j] \in useless
  BY <1>1
<1> QED BY <1>1, <1>2, <1>3, <1>4, <1>5 DEF Walk

(* A new loop has promised nothing yet.                                       *)
LEMMA TrySound ==
  ASSUME NEW list \in Seq(Path), Try(list), TypeOK
  PROVE  LoopSound'
<1>1. iter' = 0 /\ ready' = FALSE /\ pending' = {} /\ paths' \subseteq Path
  BY TryTyped DEF Try
<1>2. \A p \in Path : Len(Rounds[p]) \in Nat /\ DOMAIN Rounds[p] = 1..Len(Rounds[p])
  BY RoundsAssumption
<1> QED BY <1>1, <1>2 DEF LoopSound

LEMMA ResolveSound ==
  ASSUME TypeOK, LoopSound, Resolve
  PROVE  LoopSound'
<1>1. /\ UNCHANGED <<facts, paths, raw>> /\ pending = {} /\ iter' = iter + 1
      /\ ready' = (\A p \in paths : Resolved(p, raw))
      /\ pending' = UNION {Wanted(p, raw) : p \in paths}
      /\ iter \in Nat /\ paths \subseteq Path
  BY SettingsAssumption DEF Resolve, TypeOK
<1>2. ASSUME NEW p \in paths', NEW i \in DOMAIN Rounds[p], i <= iter'
      PROVE  Rounds[p][i] \subseteq raw' \cup pending'
  <2>1. p \in Path /\ Rounds[p] \in Seq(SUBSET Requirement) /\ i \in Nat
    BY <1>1, <1>2, RoundsAssumption
  <2>2. CASE i \notin Unfinished(p, raw)
    BY <1>1, <2>2 DEF Unfinished
  <2>3. CASE i \in Unfinished(p, raw)
    <3>1. \A k \in Unfinished(p, raw) : k \in DOMAIN Rounds[p] /\ k \in Nat /\ ~(k <= iter)
      BY <1>1, <1>2, <2>1 DEF LoopSound, Unfinished
    <3>2. \A k \in Unfinished(p, raw) : i <= k
      BY <1>1, <1>2, <2>1, <3>1
    <3>3. Rounds[p][i] \ raw \subseteq Wanted(p, raw)
      BY <2>3, <3>2 DEF Wanted
    <3> QED BY <1>1, <1>2, <3>3
  <2> QED BY <2>2, <2>3
<1>3. ready' => \A p \in paths' : p \notin facts'.never
  BY <1>1 DEF Resolved
<1>4. ASSUME paths' # {}, \A p \in paths' : p \notin facts'.never /\ Len(Rounds[p]) < iter'
      PROVE  ready'
  <2> SUFFICES ASSUME NEW p \in paths PROVE Resolved(p, raw)
    BY <1>1
  <2>1. p \notin facts.never /\ Len(Rounds[p]) < iter + 1
    BY <1>1, <1>4
  <2>2. Len(Rounds[p]) \in Nat /\ DOMAIN Rounds[p] = 1..Len(Rounds[p])
    BY <1>1, RoundsAssumption
  <2>3. \A i \in DOMAIN Rounds[p] : Rounds[p][i] \subseteq raw
    BY <1>1, <2>1, <2>2 DEF LoopSound
  <2> QED BY <2>1, <2>3 DEF Resolved, Unfinished
<1>5. ASSUME NEW r \in pending' PROVE \E p \in paths' : NeededBy(r, p)
  <2>1. PICK p \in paths : r \in Wanted(p, raw)
    BY <1>1
  <2> QED BY <1>1, <2>1 DEF Wanted, Unfinished, NeededBy
<1>6. /\ ready' \in BOOLEAN
      /\ \A r \in pending' : (\E p \in paths' : NeededBy(r, p)')
  BY <1>1, <1>5 DEF NeededBy
<1> QED BY <1>2, <1>3, <1>4, <1>6 DEF LoopSound

(* A loop that ends without a value was over no path at all or over one that  *)
(* is lost from then on; one that ends with a value was over one the shot has.*)
LEMMA EndSound ==
  ASSUME TypeOK, LoopSound, UNCHANGED facts, \E p : paths = {p}, NEW purpose, phase = purpose
  PROVE  /\ NotComposed => paths \subseteq Lost(purpose)'
         /\ Composed => paths \cap facts.never = {}
<1>1. PICK p : paths = {p}
  OBVIOUS
<1>2. Composed => paths \cap facts.never = {}
  BY DEF Composed, LoopSound
<1>3. p \in Path /\ iter \in 0..MaxIter /\ pending \subseteq Requirement
  BY <1>1 DEF TypeOK
<1>4. ASSUME LoopOver, ~ready PROVE p \in Lost(purpose)'
  <2>1. iter = MaxIter
    BY <1>4 DEF LoopOver
  <2>2. p \in facts.never \/ ~(Len(Rounds[p]) < MaxIter)
    BY <1>1, <1>4, <2>1 DEF LoopSound
  <2>3. Len(Rounds[p]) \in Nat
    BY <1>3, RoundsAssumption
  <2>4. p \in facts.never \/ Len(Rounds[p]) >= MaxIter
    BY <2>2, <2>3, SettingsAssumption
  <2> QED BY <1>3, <2>4 DEF Lost
<1>5. ASSUME NEW r \in pending \cap MayFail, failed' = failed \cup {<<phase, r>>}
      PROVE  p \in Lost(purpose)'
  <2>1. NeededBy(r, p) /\ r \in Requirement
    BY <1>1, <1>3 DEF LoopSound
  <2>2. <<purpose, r>> \in failed'
    BY <1>5
  <2> QED BY <1>3, <2>1, <2>2 DEF Lost, NeededBy
<1> QED BY <1>1, <1>2, <1>4, <1>5 DEF NotComposed

(* What the search for names begins with, and goes on with.                   *)
LEMMA HintForSound ==
  ASSUME NEW left, left \subseteq Targets, HintFor(left), UNCHANGED facts, TypeOK,
         \A t \in Targets :
           /\ t \in hints' => t \notin left /\ HasEntityAxis(t)
           /\ t \notin hints' /\ t \notin left => NamesLost(t)'
  PROVE  /\ phase' \in {"hint", "shape"} /\ LoopSound'
         /\ phase' = "hint" =>
              /\ asking' \in Targets' \ unasked'
              /\ Walk(NamePaths[asking'], Nameless(asking)', paths', todo')
              /\ SearchSound(unasked \cup {asking}, hints)'
         /\ phase' = "shape" => SearchSound({}, hints)'
<1>1. /\ Targets' = Targets /\ \A t \in Targets : HasEntityAxis(t)' = HasEntityAxis(t)
      /\ Targets \subseteq Leaves
  BY TargetsLeaves DEF Targets, Prefix, HasEntityAxis
<1>2. CASE \E t \in left \ Scalar :
             /\ phase' = "hint" /\ asking' = t /\ unasked' = left \ {t}
             /\ Try(NamePaths[t])
  <2>1. /\ phase' = "hint" /\ asking' \in left /\ unasked' = left \ {asking'}
        /\ Try(NamePaths[asking'])
    BY <1>2
  <2>2. NamePaths[asking'] \in Seq(Path)
    BY <1>1, <2>1, PathAssumption
  <2>3. LoopSound' /\ Walk(NamePaths[asking'], Nameless(asking)', paths', todo')
    BY <2>1, <2>2, TrySound, TryWalks
  <2>4. unasked' \cup {asking'} = left
    BY <2>1
  <2>5. SearchSound(unasked \cup {asking}, hints)'
    BY <1>1, <2>4 DEF SearchSound
  <2> QED BY <1>1, <2>1, <2>3, <2>5
<1>3. CASE left \subseteq Scalar /\ phase' = "shape" /\ asking' = None
           /\ unasked' = {} /\ Try(<<>>)
  <2>1. <<>> \in Seq(Path) /\ LoopSound'
    <3>1. <<>> \in Seq(Path)
      OBVIOUS
    <3> QED BY <1>3, <3>1, TrySound
  <2>2. \A t \in left : NamesLost(t)'
    <3> SUFFICES ASSUME NEW t \in left, NEW i \in DOMAIN NamePaths[t]
                 PROVE  NamePaths[t][i] \in Nameless(t)'
      BY DEF NamesLost
    <3>1. t \in Scalar /\ t \in Leaves
      BY <1>1, <1>3
    <3>2. NamePaths[t][i] \in Path
      <4>1. NamePaths[t] \in Seq(Path)
        BY <3>1, PathAssumption
      <4> QED BY <4>1
    <3>3. facts.enumerates \subseteq MayEnumerate
      BY DEF TypeOK, Facts
    <3>4. <<NamePaths[t][i], t>> \notin facts.enumerates
      BY <3>1, <3>2, <3>3, ScalarAssumption
    <3> QED BY <3>2, <3>4 DEF Nameless
  <2>3. SearchSound({}, hints)'
    BY <1>1, <2>2 DEF SearchSound
  <2> QED BY <1>3, <2>1, <2>3
<1> QED BY <1>2, <1>3 DEF HintFor

LEMMA InitData == Init => DataInv /\ OnlyOwnLoss /\ ShapedByData
<1> SUFFICES ASSUME Init PROVE DataInv /\ OnlyOwnLoss /\ ShapedByData
  OBVIOUS
<1>1. iter = 0 /\ ready = FALSE /\ pending = {} /\ Targets \subseteq Path /\ paths = Targets
  BY TargetsLeaves, PathAssumption DEF Init
<1>2. \A p \in Path : Len(Rounds[p]) \in Nat /\ DOMAIN Rounds[p] = 1..Len(Rounds[p])
  BY RoundsAssumption
<1>3. LoopSound
  BY <1>1, <1>2 DEF LoopSound
<1> QED BY <1>3 DEF Init, DataInv, OnlyOwnLoss, ShapedByData

(* The first candidate that is not lost supplies times.                       *)
LEMMA TimesFound ==
  ASSUME TypeOK, DataInv, TimesAxis, failed \subseteq failed', UNCHANGED facts
  PROVE  TimesSound(times)'
<1>1. /\ LoopSound /\ times = None /\ phase = "dims"
      /\ Walk(DimPaths, Lost("dims"), paths, todo)
      /\ Lost("dims") \subseteq Lost("dims")'
  BY LostGrows DEF DataInv, TimesAxis
<1>2. DimPaths \in Seq(Path \ Leaves) /\ DOMAIN DimPaths = 1..Len(DimPaths)
      /\ Len(DimPaths) \in Nat
  BY PathAssumption
<1>3. \/ Composed /\ times' = CHOOSE p \in paths : TRUE
      \/ NotComposed /\ todo = <<>> /\ times' = times
  BY DEF TimesAxis
<1>4. CASE DimPaths = <<>> /\ paths = {}
  BY <1>1, <1>3, <1>4 DEF TimesSound, Composed, LoopOver
<1>5. ASSUME NEW k \in 1..Len(DimPaths), paths = {DimPaths[k]},
             Len(todo) = Len(DimPaths) - k,
             \A j \in 1..(k - 1) : DimPaths[j] \in Lost("dims")
      PROVE  TimesSound(times)'
  <2>1. /\ NotComposed => DimPaths[k] \in Lost("dims")'
        /\ Composed => DimPaths[k] \notin facts.never
    BY <1>1, <1>5, EndSound
  <2>2. CASE Composed /\ times' = CHOOSE p \in paths : TRUE
    <3>1. times' = DimPaths[k]
      BY <1>5, <2>2
    <3> QED BY <1>1, <1>2, <1>5, <2>1, <2>2, <3>1 DEF TimesSound
  <2>3. CASE NotComposed /\ todo = <<>> /\ times' = times
    <3>1. k = Len(DimPaths)
      <4>1. Len(todo) = 0
        BY <2>3
      <4>2. Len(DimPaths) - k = 0
        BY <1>5, <4>1
      <4>3. Len(DimPaths) \in Nat
        BY <1>2
      <4> QED BY <4>2, <4>3
    <3>2. \A i \in DOMAIN DimPaths : DimPaths[i] \in Lost("dims")'
      BY <1>1, <1>2, <1>5, <2>1, <2>3, <3>1
    <3> QED BY <1>1, <2>3, <3>2 DEF TimesSound
  <2> QED BY <1>3, <2>2, <2>3
<1> QED BY <1>1, <1>4, <1>5 DEF Walk

(* The names a candidate has, or the last one has not, settle its target.     *)
LEMMA HintSettled ==
  ASSUME TypeOK, DataInv, EntityHint, failed \subseteq failed', UNCHANGED facts
  PROVE  \A t \in Targets : /\ t \in hints' => t \notin unasked /\ HasEntityAxis(t)
                            /\ t \notin hints' /\ t \notin unasked => NamesLost(t)'
<1>1. /\ LoopSound /\ asking \in Targets \ unasked /\ phase = "hint"
      /\ Walk(NamePaths[asking], Nameless(asking), paths, todo)
      /\ SearchSound(unasked \cup {asking}, hints)
  BY DEF DataInv, EntityHint
<1>2. /\ NamePaths[asking] \in Seq(Path) /\ Len(NamePaths[asking]) \in Nat
      /\ DOMAIN NamePaths[asking] = 1..Len(NamePaths[asking])
  BY <1>1, TargetsLeaves, PathAssumption
<1>3. \A t : /\ NamesLost(t) => NamesLost(t)'
             /\ \A p : p \in Nameless(t) => p \in Nameless(t)'
  BY LostGrows
<1>4. CASE Settles /\ hints' = hints \cup {asking}
  <2>1. PICK p \in paths : <<p, asking>> \in facts.enumerates
    BY <1>4 DEF Settles
  <2>2. PICK k \in 1..Len(NamePaths[asking]) : paths = {NamePaths[asking][k]}
    BY <1>1, <2>1 DEF Walk
  <2>3. p \notin facts.never
    BY <1>1, <1>4, <2>1, <2>2, EndSound DEF Settles
  <2>4. k \in DOMAIN NamePaths[asking] /\ p = NamePaths[asking][k]
    BY <1>2, <2>1, <2>2
  <2>5. HasEntityAxis(asking)
    BY <2>1, <2>3, <2>4 DEF HasEntityAxis
  <2> QED BY <1>1, <1>3, <1>4, <2>5 DEF SearchSound
<1>5. CASE Useless /\ todo = <<>> /\ hints' = hints
  <2>1. ASSUME NEW t, t = asking, NEW i \in 1..Len(NamePaths[t])
        PROVE  NamePaths[t][i] \in Nameless(t)'
    <3>1. PICK k \in 1..Len(NamePaths[t]) :
             /\ paths = {NamePaths[t][k]}
             /\ Len(todo) = Len(NamePaths[t]) - k
             /\ \A j \in 1..(k - 1) : NamePaths[t][j] \in Nameless(t)
      BY <1>1, <1>2, <2>1 DEF Walk
    <3>2. k = Len(NamePaths[t])
      <4>1. Len(todo) = 0
        BY <1>5
      <4> QED BY <1>2, <2>1, <3>1, <4>1
    <3>3. NamePaths[t][k] \in Path
      BY <1>2, <2>1
    <3>4. NotComposed => NamePaths[t][k] \in Lost("hint")'
      BY <1>1, <3>1, EndSound
    <3>5. NamePaths[t][k] \in Nameless(t)'
      BY <1>5, <2>1, <3>1, <3>3, <3>4 DEF Useless, Nameless
    <3>6. i = k \/ i \in 1..(k - 1)
      BY <1>2, <2>1, <3>2
    <3> QED BY <1>3, <3>1, <3>5, <3>6
  <2>2. ASSUME NEW t, t = asking PROVE NamesLost(t)'
    BY <1>2, <2>1, <2>2 DEF NamesLost
  <2> QED BY <1>1, <1>3, <1>5, <2>2 DEF SearchSound
<1> QED BY <1>4, <1>5 DEF EntityHint

(* A step of a loop only has to keep the loop sound.                          *)
LEMMA LoopGoesOn ==
  ASSUME DataInv, LoopSound',
         UNCHANGED <<facts, failed, phase, paths, todo, times, asking, unasked, hints>>
  PROVE  DataInv'
<1>1. /\ Targets' = Targets /\ Prefix' = Prefix /\ SplitByChannel' = SplitByChannel
      /\ \A t : HasEntityAxis(t)' = HasEntityAxis(t)
      /\ \A purpose : Lost(purpose)' = Lost(purpose)
  BY DEF Targets, Prefix, SplitByChannel, HasEntityAxis, Lost, NeededBy
<1>2. /\ \A t : Nameless(t)' = Nameless(t)
      /\ TimesSound(times)' = TimesSound(times)
  BY <1>1 DEF Nameless, TimesSound
<1>3. \A t : NamesLost(t)' = NamesLost(t)
  BY <1>2 DEF NamesLost
<1> QED BY <1>1, <1>2, <1>3 DEF DataInv, SearchSound

LEMMA NextData ==
  ASSUME IInv, DataInv, [Next]_vars
  PROVE  DataInv'
<1>1. TypeOK /\ Phases /\ DimPaths \in Seq(Path) /\ <<>> \in Seq(Path)
  <2>1. DimPaths \in Seq(Path \ Leaves) /\ Path \ Leaves \subseteq Path
    BY PathAssumption
  <2> QED BY <2>1, SeqMonotone DEF IInv
<1>2. failed \subseteq failed' /\ UNCHANGED facts
  BY DEF Next, vars, Resolve, FetchRequirement, ComposePrimary, PrimaryRaises,
     ConversionRaises, ChannelNames, TimesAxis, NextTimesCandidate, EntityHint,
     NextNameCandidate, ApplyLayout, Composed, NotComposed, Settles, Useless, LoopOver
<1>3. LoopSound
  BY DEF DataInv
<1>4. /\ Targets' = Targets /\ Prefix' = Prefix /\ SplitByChannel' = SplitByChannel
      /\ \A t : HasEntityAxis(t)' = HasEntityAxis(t)
  BY <1>2 DEF Targets, Prefix, SplitByChannel, HasEntityAxis
<1>5. /\ Lost("dims") \subseteq Lost("dims")'
      /\ \A t : Nameless(t) \subseteq Nameless(t)' /\ (NamesLost(t) => NamesLost(t)')
      /\ TimesSound(times) /\ times' = times => TimesSound(times)'
  <2>1. TimesSound(times) /\ times' = times => TimesSound(times)'
    <3> SUFFICES ASSUME NEW found, found = times, times' = found, TimesSound(found)
                 PROVE  TimesSound(times)'
      OBVIOUS
    <3>1. TimesSound(found)'
      BY <1>2, LostGrows
    <3> QED BY <3>1 DEF TimesSound
  <2> QED BY <1>2, <2>1, LostGrows
<1>6. CASE Resolve
  <2>1. LoopSound'
    BY <1>1, <1>3, <1>6, ResolveSound
  <2> QED BY <1>6, <2>1, LoopGoesOn DEF Resolve, search
<1>7. CASE \E r \in Requirement : FetchRequirement(r)
  <2>1. PICK r \in Requirement : FetchRequirement(r)
    BY <1>7
  <2>2. LoopSound'
    BY <1>2, <1>3, <2>1 DEF LoopSound, FetchRequirement
  <2> QED BY <2>1, <2>2, LoopGoesOn DEF FetchRequirement, search
<1>8. CASE ComposePrimary
  <2>1. times' = None /\ hints' = {} /\ phase = "primary"
    BY <1>8 DEF ComposePrimary, DataInv
  <2>2. CASE Prefix /\ HintFor(Targets)
    BY <1>1, <1>2, <1>4, <2>1, <2>2, HintForSound DEF DataInv
  <2>3. CASE ~Prefix /\ phase' = "names" /\ Try(<<ChannelName>>)
    <3>1. <<ChannelName>> \in Seq(Path)
      BY PathAssumption
    <3> QED BY <1>1, <1>4, <2>1, <2>3, <3>1, TrySound DEF DataInv
  <2>4. CASE ~Prefix /\ phase' = "dims" /\ Try(DimPaths)
    BY <1>1, <1>4, <2>1, <2>4, TrySound, TryWalks DEF DataInv
  <2> QED BY <1>8, <2>2, <2>3, <2>4 DEF ComposePrimary
<1>9. CASE PrimaryRaises \/ ConversionRaises
  <2>1. phase' = "end" /\ Try(<<>>)
    BY <1>9 DEF PrimaryRaises, ConversionRaises
  <2> QED BY <1>1, <2>1, TrySound DEF DataInv
<1>10. CASE ChannelNames
  <2>1. /\ phase' = "dims" /\ Try(DimPaths) /\ ~Prefix
        /\ times' = None /\ hints' = {}
    BY <1>10 DEF ChannelNames, DataInv, search
  <2> QED BY <1>1, <1>4, <2>1, TrySound, TryWalks DEF DataInv
<1>11. CASE TimesAxis
  <2>1. hints' = {} /\ ~Prefix
    BY <1>11 DEF TimesAxis, DataInv
  <2>2. TimesSound(times)'
    BY <1>1, <1>2, <1>11, TimesFound
  <2>3. CASE HintFor(Targets)
    BY <1>1, <1>2, <1>4, <2>1, <2>2, <2>3, HintForSound DEF DataInv
  <2>4. CASE SplitByChannel /\ phase' = "shape" /\ Try(<<>>)
    BY <1>1, <1>4, <2>2, <2>4, TrySound DEF DataInv
  <2> QED BY <1>11, <2>3, <2>4 DEF TimesAxis
<1>12. CASE NextTimesCandidate
  <2>1. /\ NotComposed /\ todo # <<>> /\ Try(todo) /\ phase = "dims"
        /\ UNCHANGED <<phase, times, hints>>
    BY <1>12 DEF NextTimesCandidate, search
  <2>2. Walk(DimPaths, Lost("dims"), paths, todo)
    BY <2>1 DEF DataInv
  <2>3. \E p : paths = {p}
    BY <2>1, <2>2 DEF Walk
  <2>4. paths \subseteq Lost("dims")'
    BY <1>1, <1>2, <1>3, <2>1, <2>3, EndSound
  <2>5. Walk(DimPaths, Lost("dims")', paths, todo)
    BY <1>5, <2>2, WalkGrows
  <2>6. Walk(DimPaths, Lost("dims")', paths', todo')
    BY <1>1, <2>1, <2>4, <2>5, TryNextWalks DEF TypeOK
  <2>7. LoopSound'
    BY <1>1, <2>1, TrySound DEF TypeOK
  <2>8. times' = None /\ hints' = {} /\ ~Prefix'
    BY <1>4, <2>1 DEF DataInv
  <2> QED BY <2>1, <2>6, <2>7, <2>8 DEF DataInv
<1>13. CASE EntityHint
  <2>1. /\ HintFor(unasked) /\ times' = times /\ phase = "hint" /\ unasked \subseteq Targets
        /\ \A t \in Targets : /\ t \in hints' => t \notin unasked /\ HasEntityAxis(t)
                              /\ t \notin hints' /\ t \notin unasked => NamesLost(t)'
    BY <1>1, <1>2, <1>13, HintSettled DEF EntityHint, TypeOK
  <2>2. Prefix' \/ TimesSound(times)'
    BY <1>4, <1>5, <2>1 DEF DataInv
  <2> QED BY <1>1, <1>2, <2>1, <2>2, HintForSound DEF DataInv
<1>14. CASE NextNameCandidate
  <2>1. /\ Useless /\ todo # <<>> /\ Try(todo) /\ phase = "hint"
        /\ UNCHANGED <<phase, times, asking, unasked, hints>>
    BY <1>14 DEF NextNameCandidate, search
  <2>2. /\ Walk(NamePaths[asking], Nameless(asking), paths, todo)
        /\ asking \in Targets \ unasked
        /\ SearchSound(unasked \cup {asking}, hints)
    BY <2>1 DEF DataInv
  <2>3. NamePaths[asking] \in Seq(Path)
    BY <2>2, TargetsLeaves, PathAssumption
  <2>4. \E p : paths = {p}
    BY <2>1, <2>2 DEF Walk
  <2>5. Nameless(asking) \subseteq Nameless(asking)'
    BY <1>5, <2>1 DEF Nameless
  <2>6. paths \subseteq Nameless(asking)'
    <3>1. paths \subseteq Path
      BY <1>1 DEF TypeOK
    <3>2. NotComposed => paths \subseteq Lost("hint")'
      BY <1>1, <1>2, <1>3, <2>1, <2>4, EndSound
    <3> QED BY <1>2, <2>1, <3>1, <3>2 DEF Useless, Nameless
  <2>7. Walk(NamePaths[asking], Nameless(asking)', paths, todo)
    BY <2>2, <2>5, WalkGrows
  <2>8. Walk(NamePaths[asking], Nameless(asking)', paths', todo')
    BY <1>1, <2>1, <2>3, <2>6, <2>7, TryNextWalks DEF TypeOK
  <2>9. LoopSound'
    BY <1>1, <2>1, TrySound DEF TypeOK
  <2>10. SearchSound(unasked \cup {asking}, hints)'
    BY <1>4, <1>5, <2>1, <2>2 DEF SearchSound
  <2>11. Prefix' \/ TimesSound(times)'
    BY <1>4, <1>5, <2>1 DEF DataInv
  <2> QED BY <1>4, <2>1, <2>2, <2>8, <2>9, <2>10, <2>11 DEF DataInv
<1>15. CASE ApplyLayout
  <2>1. phase' = "end" /\ UNCHANGED <<paths, iter, ready, pending, raw>>
    BY <1>15 DEF ApplyLayout, loop
  <2>2. LoopSound'
    BY <1>2, <1>3, <2>1 DEF LoopSound
  <2> QED BY <2>1, <2>2 DEF DataInv
<1>16. CASE UNCHANGED vars
  <2>1. LoopSound'
    BY <1>3, <1>16 DEF LoopSound, vars, loop
  <2> QED BY <1>16, <2>1, LoopGoesOn DEF vars, loop, search
<1> QED BY <1>6, <1>7, <1>8, <1>9, <1>10, <1>11, <1>12, <1>13, <1>14, <1>15, <1>16
        DEF Next

(* Without failures, and with room for every path, what is lost is what the   *)
(* shot lacks, and what was found is what it has.                             *)
LEMMA NothingLost ==
  ASSUME TypeOK, failed = {}, \A p \in Path : Len(Rounds[p]) < MaxIter
  PROVE  /\ \A t \in Leaves : NamesLost(t) => ~HasEntityAxis(t)
         /\ ~Prefix /\ TimesSound(times) => times = OwnTime
<1>1. \A purpose : \A p \in Path : p \in Lost(purpose) <=> p \in facts.never
  <2> SUFFICES ASSUME NEW purpose, NEW p \in Path, p \in Lost(purpose)
               PROVE  p \in facts.never
    BY DEF Lost
  <2>1. Len(Rounds[p]) \in Nat /\ Len(Rounds[p]) < MaxIter /\ MaxIter \in Nat
    BY RoundsAssumption, SettingsAssumption
  <2>2. ~(Len(Rounds[p]) >= MaxIter)
    BY <2>1
  <2> QED BY <2>2 DEF Lost
<1>2. \A t \in Leaves : NamesLost(t) => ~HasEntityAxis(t)
  BY <1>1 DEF NamesLost, Nameless, HasEntityAxis
<1>3. ASSUME ~Prefix, TimesSound(times) PROVE times = OwnTime
  <2>1. OwnTime = IF HasTimes = {} THEN None ELSE DimPaths[Earliest(HasTimes)]
    BY <1>3 DEF OwnTime
  <2>2. \A i \in DOMAIN DimPaths : DimPaths[i] \in Path /\ i \in Nat
    BY PathAssumption
  <2>3. CASE times = None /\ \A i \in DOMAIN DimPaths : DimPaths[i] \in Lost("dims")
    <3>1. HasTimes = {}
      BY <1>1, <2>2, <2>3 DEF HasTimes
    <3> QED BY <2>1, <2>3, <3>1
  <2>4. ASSUME NEW k \in DOMAIN DimPaths, times = DimPaths[k], DimPaths[k] \notin facts.never,
               \A j \in 1..(k - 1) : DimPaths[j] \in Lost("dims")
        PROVE  times = OwnTime
    <3>1. k \in HasTimes /\ \A i \in HasTimes : i \in Nat /\ i \in DOMAIN DimPaths
      BY <2>2, <2>4 DEF HasTimes
    <3>2. DimPaths \in Seq(Path \ Leaves)
      BY PathAssumption
    <3>3. \A j \in HasTimes : k <= j
      <4> SUFFICES ASSUME NEW j \in HasTimes, ~(k <= j) PROVE FALSE
        OBVIOUS
      <4>1. j \in 1..(k - 1) /\ j \in DOMAIN DimPaths
        BY <2>4, <3>1, <3>2
      <4>2. DimPaths[j] \in facts.never
        BY <1>1, <2>2, <2>4, <4>1
      <4> QED BY <4>2 DEF HasTimes
    <3>4. \A i \in HasTimes : (\A j \in HasTimes : i <= j) => i = k
      BY <3>1, <3>3
    <3>5. Earliest(HasTimes) = k
      BY <3>1, <3>3, <3>4 DEF Earliest
    <3> QED BY <2>1, <2>4, <3>1, <3>5
  <2> QED BY <1>3, <2>3, <2>4 DEF TimesSound
<1> QED BY <1>2, <1>3

LEMMA OnOwnTimeKept ==
  ASSUME UNCHANGED <<facts, times>>
  PROVE  OnOwnTime' = OnOwnTime
<1>1. /\ HasTimes' = HasTimes /\ Prefix' = Prefix /\ SharedTime' = SharedTime
      /\ Targets' = Targets /\ SplitByChannel' = SplitByChannel
  BY DEF HasTimes, Prefix, SharedTime, Targets, SplitByChannel
<1>2. OwnTime' = OwnTime
  BY <1>1 DEF OwnTime
<1>3. \A t \in Targets : HasEntityAxis(t)' = HasEntityAxis(t)
  BY DEF HasEntityAxis
<1> QED BY <1>1, <1>2, <1>3 DEF OnOwnTime

(* Only ApplyLayout ends with a value.                                        *)
LEMMA OtherResult ==
  ASSUME IInv, Next, ~ApplyLayout
  PROVE  result' \in {"none", "error"}
<1>1. Phases
  BY DEF IInv
<1>2. phase # "end"
  BY <1>1 DEF Phases, Next, Resolve, FetchRequirement, ComposePrimary, PrimaryRaises,
     ConversionRaises, ChannelNames, TimesAxis, NextTimesCandidate, EntityHint,
     NextNameCandidate
<1>3. result = "none"
  BY <1>1, <1>2 DEF Phases
<1> QED BY <1>3 DEF Next, Resolve, FetchRequirement, ComposePrimary, PrimaryRaises,
        ConversionRaises, ChannelNames, TimesAxis, NextTimesCandidate, EntityHint,
        NextNameCandidate

LEMMA NextLoss ==
  ASSUME IInv, DataInv, OnlyOwnLoss, [Next]_vars
  PROVE  OnlyOwnLoss'
<1>1. ASSUME UNCHANGED <<facts, failed, times, hints>>
      PROVE  /\ Targets' = Targets /\ Prefix' = Prefix /\ SplitByChannel' = SplitByChannel
             /\ \A purpose : Lost(purpose)' = Lost(purpose)
  BY <1>1 DEF Targets, Prefix, SplitByChannel, Lost, NeededBy
<1>2. CASE ApplyLayout
  <2>1. UNCHANGED <<facts, failed, times, hints>> /\ phase = "shape"
    BY <1>2 DEF ApplyLayout, search
  <2>2. ASSUME ~Prefix, NEW i \in DOMAIN DimPaths
        PROVE  DimPaths[i] \in Lost("dims") \/ \E j \in 1..i : times = DimPaths[j]
    <3>1. TimesSound(times)
      BY <2>1, <2>2 DEF DataInv
    <3>2. DimPaths \in Seq(Path \ Leaves)
      BY PathAssumption
    <3>3. ASSUME NEW k \in DOMAIN DimPaths, times = DimPaths[k],
                 \A j \in 1..(k - 1) : DimPaths[j] \in Lost("dims")
          PROVE  DimPaths[i] \in Lost("dims") \/ \E j \in 1..i : times = DimPaths[j]
      <4>1. i \in 1..(k - 1) \/ k \in 1..i
        BY <3>2, <3>3, <2>2
      <4> QED BY <3>3, <4>1
    <3> QED BY <2>2, <3>1, <3>3 DEF TimesSound
  <2>3. ASSUME ~SplitByChannel, NEW t \in Targets \ hints, NEW i \in DOMAIN NamePaths[t],
               <<NamePaths[t][i], t>> \in facts.enumerates
        PROVE  NamePaths[t][i] \in Lost("hint")
    <3>1. NamesLost(t)
      BY <2>1, <2>3 DEF DataInv, SearchSound
    <3> QED BY <2>3, <3>1 DEF NamesLost, Nameless
  <2> QED BY <1>1, <2>1, <2>2, <2>3 DEF OnlyOwnLoss
<1>3. CASE UNCHANGED vars
  <2>1. UNCHANGED <<facts, failed, times, hints, result>>
    BY <1>3 DEF vars, search
  <2> QED BY <1>1, <2>1 DEF OnlyOwnLoss
<1>4. CASE Next /\ ~ApplyLayout
  BY <1>4, OtherResult DEF OnlyOwnLoss
<1> QED BY <1>2, <1>3, <1>4

(* The layout compacts and fills what the data says.                          *)
LEMMA NextShaped ==
  ASSUME IInv, DataInv, ShapedByData, [Next]_vars
  PROVE  ShapedByData'
<1>1. CASE ApplyLayout
  <2>1. facts' = facts /\ failed' = failed /\ times' = times /\ phase = "shape"
    BY <1>1 DEF ApplyLayout
  <2>2. OnOwnTime' = OnOwnTime
    BY <2>1, OnOwnTimeKept
  <2>3. shaped' = {t \in Targets : facts.layout \in {"compact", "filled"}
                                   /\ IsTimeAxis(t)}
    BY <1>1 DEF ApplyLayout
  <2>4. ASSUME ~SplitByChannel, failed = {}, \A p \in Path : Len(Rounds[p]) < MaxIter
        PROVE  /\ SharedTime = OwnTime
               /\ \A t \in Targets : t \in hints <=> HasEntityAxis(t)
    <3>1. SearchSound({}, hints) /\ (Prefix \/ TimesSound(times)) /\ TypeOK
      BY <2>1, <2>4 DEF DataInv, IInv
    <3>2. \A t \in Targets : t \in hints <=> HasEntityAxis(t)
      BY <2>4, <3>1, NothingLost, TargetsLeaves DEF SearchSound
    <3>3. CASE Prefix
      BY <3>2, <3>3 DEF OwnTime
    <3>4. CASE ~Prefix
      BY <2>4, <3>1, <3>2, <3>4, NothingLost DEF SharedTime
    <3> QED BY <3>3, <3>4
  <2>5. failed = {} /\ (\A p \in Path : Len(Rounds[p]) < MaxIter) => shaped' = OnOwnTime
    BY <2>3, <2>4 DEF IsTimeAxis, OnOwnTime
  <2> QED BY <2>1, <2>2, <2>5 DEF ShapedByData
<1>2. CASE UNCHANGED vars
  <2>1. facts' = facts /\ failed' = failed /\ times' = times
        /\ result' = result /\ shaped' = shaped
    BY <1>2 DEF vars
  <2>2. OnOwnTime' = OnOwnTime
    BY <2>1, OnOwnTimeKept
  <2> QED BY <2>1, <2>2 DEF ShapedByData
<1>3. CASE Next /\ ~ApplyLayout
  BY <1>3, OtherResult DEF ShapedByData
<1> QED BY <1>1, <1>2, <1>3

(* A failure costs only what needed the failed fetch (_fetch_dim): a gather   *)
(* that returns passed over a candidate for times, or names that enumerate    *)
(* the outer entries, only for want of it on the shot, of iterations, or of a *)
(* fetch of its own, however the candidates share requirements.               *)
THEOREM GatherOnlyOwnLoss == Spec => []OnlyOwnLoss
<1>1. Init => IInv /\ DataInv /\ OnlyOwnLoss
  BY InitGather, InitData
<1>2. (IInv /\ DataInv /\ OnlyOwnLoss) /\ [Next]_vars
        => (IInv /\ DataInv /\ OnlyOwnLoss)'
  BY NextGather, NextData, NextLoss
<1> QED BY <1>1, <1>2, PTL DEF Spec

(* Which axes are compacted or filled depends on the data only: when nothing  *)
(* fails and max_resolve_iterations exceeds every path's rounds, the loops of *)
(* _fetch_dim and _entity_hint find exactly the times axis and the entity     *)
(* names the shot has, in whatever order they share requirements.             *)
THEOREM GatherShapedByData == Spec => []ShapedByData
<1>1. Init => IInv /\ DataInv /\ ShapedByData
  BY InitGather, InitData
<1>2. (IInv /\ DataInv /\ ShapedByData) /\ [Next]_vars
        => (IInv /\ DataInv /\ ShapedByData)'
  BY NextGather, NextData, NextShaped
<1> QED BY <1>1, <1>2, PTL DEF Spec

-----------------------------------------------------------------------------
(* How far a gather is from its end: what it is for, the targets whose names  *)
(* it has still to look for, the candidates, the iterations and the           *)
(* requirements left, in this order.                                          *)
Stage == CASE phase = "primary" -> Cardinality(Leaves) + 4
           [] phase = "names" -> Cardinality(Leaves) + 3
           [] phase = "dims" -> Cardinality(Leaves) + 2
           [] phase = "hint" -> Cardinality(unasked) + 2
           [] phase = "shape" -> 1
           [] OTHER -> 0
Distance == <<Stage, Len(todo), MaxIter - iter, Cardinality(pending)>>
Nearer(to, from) ==
    \E i \in DOMAIN from : to[i] < from[i] /\ \A j \in DOMAIN from : j < i => to[j] = from[j]
AwayFromEnd == Distance \in Seq(Nat) /\ Len(Distance) = 4

(* Something can be done until the gather is over, whatever the composer and  *)
(* the fetches come to.                                                       *)
NeverStuck ==
    phase # "end" =>
        \/ paths # {} /\ pending = {} /\ ~ready /\ iter < MaxIter
        \/ pending # {}
        \/ phase = "primary" /\ LoopOver
        \/ phase \in {"names", "dims", "hint"} /\ (LoopOver \/ paths = {})
        \/ phase = "shape"

(* Every step leaves a gather nearer to its end.                              *)
RunsDown == [][Nearer(Distance', Distance)]_vars

LEMMA FiniteCounts ==
  /\ Cardinality(Leaves) \in Nat /\ Cardinality(Targets) \in Nat
  /\ Cardinality(Targets) <= Cardinality(Leaves)
  /\ \A S \in SUBSET Targets : IsFiniteSet(S) /\ Cardinality(S) \in Nat
  /\ \A S \in SUBSET Requirement : IsFiniteSet(S) /\ Cardinality(S) \in Nat
<1>1. IsFiniteSet(Leaves) /\ IsFiniteSet(Requirement)
  BY PathAssumption, RoundsAssumption
<1>2. Targets \in SUBSET Leaves
  BY TargetsLeaves
<1>3. IsFiniteSet(Targets) /\ Cardinality(Targets) <= Cardinality(Leaves)
  BY <1>1, <1>2, FS_Subset
<1>4. \A S \in SUBSET Targets : IsFiniteSet(S)
  BY <1>3, FS_Subset
<1>5. \A S \in SUBSET Requirement : IsFiniteSet(S)
  BY <1>1, FS_Subset
<1> QED BY <1>1, <1>3, <1>4, <1>5, FS_CardinalityType

LEMMA DistanceType == TypeOK => AwayFromEnd
<1> SUFFICES ASSUME TypeOK PROVE AwayFromEnd
  OBVIOUS
<1>1. Stage \in Nat
  <2>1. Cardinality(Leaves) \in Nat /\ Cardinality(unasked) \in Nat
    BY FiniteCounts DEF TypeOK
  <2> QED BY <2>1 DEF Stage
<1>2. Len(todo) \in Nat /\ Cardinality(pending) \in Nat
  BY FiniteCounts DEF TypeOK
<1>3. MaxIter - iter \in Nat
  BY SettingsAssumption DEF TypeOK
<1> QED BY <1>1, <1>2, <1>3 DEF AwayFromEnd, Distance

(* What comes first in the distance decides.                                  *)
LEMMA NearerIf ==
  ASSUME \/ Stage' < Stage
         \/ Stage' = Stage /\ Len(todo') < Len(todo)
         \/ Stage' = Stage /\ todo' = todo /\ MaxIter - iter' < MaxIter - iter
         \/ /\ Stage' = Stage /\ todo' = todo /\ iter' = iter
            /\ Cardinality(pending') < Cardinality(pending)
  PROVE  Nearer(Distance', Distance)
<1> DEFINE to == Distance'
           from == Distance
<1>1. /\ to[1] = Stage' /\ to[2] = Len(todo') /\ to[3] = MaxIter - iter'
      /\ to[4] = Cardinality(pending')
      /\ from[1] = Stage /\ from[2] = Len(todo) /\ from[3] = MaxIter - iter
      /\ from[4] = Cardinality(pending)
      /\ DOMAIN from = 1..4
  BY DEF Distance
<1> HIDE DEF to, from
<1>2. \A j \in 1..4 : /\ ~(j < 1) /\ (j < 2 => j = 1) /\ (j < 3 => j \in {1, 2})
                      /\ (j < 4 => j \in {1, 2, 3})
  OBVIOUS
<1>3. 1 \in 1..4 /\ 2 \in 1..4 /\ 3 \in 1..4 /\ 4 \in 1..4
  OBVIOUS
<1>4. CASE to[1] < from[1]
  BY <1>1, <1>2, <1>3, <1>4 DEF Nearer, to, from
<1>5. CASE to[1] = from[1] /\ to[2] < from[2]
  BY <1>1, <1>2, <1>3, <1>5 DEF Nearer, to, from
<1>6. CASE to[1] = from[1] /\ to[2] = from[2] /\ to[3] < from[3]
  BY <1>1, <1>2, <1>3, <1>6 DEF Nearer, to, from
<1>7. CASE to[1] = from[1] /\ to[2] = from[2] /\ to[3] = from[3] /\ to[4] < from[4]
  BY <1>1, <1>2, <1>3, <1>7 DEF Nearer, to, from
<1> QED BY <1>1, <1>4, <1>5, <1>6, <1>7

(* The search for names has less to ask, or is over.                          *)
LEMMA HintForNearer ==
  ASSUME NEW rest, rest \subseteq Targets, HintFor(rest)
  PROVE  Stage' \in Nat /\ Stage' < Cardinality(rest) + 2
<1>1. IsFiniteSet(rest) /\ Cardinality(rest) \in Nat
  BY FiniteCounts
<1>2. CASE phase' = "shape"
  BY <1>1, <1>2 DEF Stage
<1>3. CASE \E t \in rest \ Scalar : phase' = "hint" /\ unasked' = rest \ {t}
  <2>1. PICK t \in rest : phase' = "hint" /\ unasked' = rest \ {t}
    BY <1>3
  <2>2. Cardinality(rest \ {t}) = Cardinality(rest) - 1
    BY <1>1, FS_RemoveElement
  <2>3. Stage' = Cardinality(rest \ {t}) + 2
    BY <2>1 DEF Stage
  <2> QED BY <1>1, <2>2, <2>3
<1> QED BY <1>2, <1>3 DEF HintFor

LEMMA NextNearer ==
  ASSUME TypeOK, Next
  PROVE  Nearer(Distance', Distance)
<1>1. /\ Cardinality(Leaves) \in Nat /\ Cardinality(Targets) \in Nat
      /\ Cardinality(Targets) <= Cardinality(Leaves)
      /\ Cardinality(unasked) \in Nat
  BY FiniteCounts DEF TypeOK
<1>2. CASE Resolve
  <2>1. Stage' = Stage /\ todo' = todo /\ iter' = iter + 1
    BY <1>2 DEF Resolve, Stage, search
  <2>2. MaxIter - iter' < MaxIter - iter
    BY <2>1, SettingsAssumption DEF TypeOK
  <2> QED BY <2>1, <2>2, NearerIf
<1>3. CASE \E r \in Requirement : FetchRequirement(r)
  <2>1. PICK r \in pending : pending' = pending \ {r}
    BY <1>3 DEF FetchRequirement
  <2>2. Stage' = Stage /\ todo' = todo /\ iter' = iter
    BY <1>3 DEF FetchRequirement, Stage, search
  <2>3. IsFiniteSet(pending) /\ Cardinality(pending) \in Nat
    BY FiniteCounts DEF TypeOK
  <2>4. Cardinality(pending') = Cardinality(pending) - 1
    BY <2>1, <2>3, FS_RemoveElement
  <2> QED BY <2>2, <2>3, <2>4, NearerIf
<1>4. CASE ComposePrimary
  <2>1. Stage = Cardinality(Leaves) + 4
    BY <1>4 DEF ComposePrimary, Stage
  <2>2. CASE HintFor(Targets)
    <3>1. Stage' \in Nat /\ Stage' < Cardinality(Targets) + 2
      BY <2>2, HintForNearer
    <3>2. Stage' < Stage
      BY <1>1, <2>1, <3>1
    <3> QED BY <3>2, NearerIf
  <2>3. CASE phase' \in {"names", "dims"}
    BY <1>1, <2>1, <2>3, NearerIf DEF Stage
  <2> QED BY <1>4, <2>2, <2>3 DEF ComposePrimary
<1>5. CASE PrimaryRaises \/ ConversionRaises
  BY <1>1, <1>5, NearerIf DEF PrimaryRaises, ConversionRaises, Stage
<1>6. CASE ChannelNames
  BY <1>1, <1>6, NearerIf DEF ChannelNames, Stage
<1>7. CASE TimesAxis
  <2>1. Stage = Cardinality(Leaves) + 2
    BY <1>7 DEF TimesAxis, Stage
  <2>2. CASE HintFor(Targets)
    <3>1. Stage' \in Nat /\ Stage' < Cardinality(Targets) + 2
      BY <2>2, HintForNearer
    <3>2. Stage' < Stage
      BY <1>1, <2>1, <3>1
    <3> QED BY <3>2, NearerIf
  <2>3. CASE phase' = "shape"
    BY <1>1, <2>1, <2>3, NearerIf DEF Stage
  <2> QED BY <1>7, <2>2, <2>3 DEF TimesAxis
<1>8. CASE NextTimesCandidate \/ NextNameCandidate
  <2>1. Stage' = Stage /\ todo # <<>> /\ todo' = Tail(todo)
    BY <1>8 DEF NextTimesCandidate, NextNameCandidate, Try, Stage, search
  <2>2. Len(todo') < Len(todo)
    BY <2>1 DEF TypeOK
  <2> QED BY <2>1, <2>2, NearerIf
<1>9. CASE EntityHint
  <2>1. Stage = Cardinality(unasked) + 2 /\ HintFor(unasked)
    BY <1>9 DEF EntityHint, Stage
  <2>2. Stage' < Cardinality(unasked) + 2
    BY <2>1, HintForNearer DEF TypeOK
  <2> QED BY <2>1, <2>2, NearerIf
<1>10. CASE ApplyLayout
  BY <1>10, NearerIf DEF ApplyLayout, Stage
<1> QED BY <1>2, <1>3, <1>4, <1>5, <1>6, <1>7, <1>8, <1>9, <1>10 DEF Next

(* No step of a gather can be repeated for ever: each takes it nearer to its  *)
(* end, in an order without infinite descent, whatever the composer never     *)
(* has enough of and wherever fetches fail (the loops of gather, _fetch_dim   *)
(* and _entity_hint).                                                         *)
THEOREM GatherRunsDown == Spec => []AwayFromEnd /\ RunsDown
<1>1. TypeOK /\ [Next]_vars => [Nearer(Distance', Distance)]_vars
  BY NextNearer
<1> QED BY <1>1, DistanceType, GatherTypeOK, PTL DEF Spec, RunsDown

PrimaryPaths == phase = "primary" => paths # {}

(* Nor can it stand still: until it is over a loop has a round to ask for, a  *)
(* requirement to fetch, or an end that is handled.                           *)
THEOREM GatherNeverStuck == Spec => []NeverStuck
<1>1. Init => PrimaryPaths
  BY PathAssumption DEF Init, PrimaryPaths, Targets
<1>2. PrimaryPaths /\ [Next]_vars => PrimaryPaths'
  <2> SUFFICES ASSUME PrimaryPaths, [Next]_vars PROVE PrimaryPaths'
    OBVIOUS
  <2>1. CASE phase' = "primary"
    <3>1. paths' = paths /\ phase = "primary"
      BY <2>1 DEF Next, vars, loop, Resolve, FetchRequirement, ComposePrimary, PrimaryRaises,
         ConversionRaises, ChannelNames, TimesAxis, NextTimesCandidate, EntityHint, NextNameCandidate,
         ApplyLayout, HintFor
    <3> QED BY <3>1 DEF PrimaryPaths
  <2> QED BY <2>1 DEF PrimaryPaths
<1>3. TypeOK /\ PrimaryPaths => NeverStuck
  <2> SUFFICES ASSUME TypeOK, PrimaryPaths, phase # "end", paths # {}, pending = {}, ~LoopOver
               PROVE  ~ready /\ iter < MaxIter
    BY DEF NeverStuck, TypeOK, PrimaryPaths
  <2>1. ~ready /\ iter # MaxIter
    BY DEF LoopOver
  <2> QED BY <2>1, SettingsAssumption DEF TypeOK
<1> QED BY <1>1, <1>2, <1>3, GatherTypeOK, PTL DEF Spec
=============================================================================
