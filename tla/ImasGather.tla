------------------------------ MODULE ImasGather ------------------------------
(* One gather of an ImasSignal: the resolve/fetch loop for the requested      *)
(* paths, the loops for the optional values (channel names, the times axis,   *)
(* entity names), and the decision whether the outer axis may be transformed, *)
(* from src/toksearch_d3d/signal/imas.py and imas_layout.py.                  *)
(*                                                                            *)
(* ImasComposer is external and is modelled by how the code uses it: resolve  *)
(* says whether everything a path needs has been fetched and, if not, what to *)
(* fetch next; a path needs its Rounds of requirements one after the other.   *)
(* Values are reduced to the facts the decision looks at.                     *)
EXTENDS Integers, Sequences, FiniteSets

CONSTANTS Path, Requirement,
          Rounds,     \* Rounds[p]: the sets of requirements p needs, in order
          MayNever,   \* optional paths that may never be reported resolved
          Leaf,       \* the path asked for when ids_path is a leaf
          Leaves,     \* the leaf paths below it when it is a prefix
          Modes,      \* "leaf", "split" by channel, "prefix"
          DimPaths,   \* candidates for the times axis, most specific first
          NamePaths,  \* NamePaths[t]: supported entity-name candidates of t
          ChannelName, \* the path of the channel names
          TimeLeaves, \* targets that can be a prefix's shared time, in order
          MayAlign,   \* <<p, t>>: p may be a flat axis as long as t's outer axis
          MayEnumerate, \* <<p, t>>: p may be flat names of t's outer entries
          Scalar,     \* targets without an outer axis
          Layouts,    \* the layouts asked for
          MaxIter,    \* max_resolve_iterations
          MayFail,    \* requirements whose fetch may fail
          MayRaise,   \* <<phase, p>>: converting p's value there may raise
          None

ASSUME PathAssumption ==
    /\ Leaf \in Leaves /\ Leaves \subseteq Path /\ IsFiniteSet(Leaves)
    /\ MayNever \subseteq Path \ Leaves /\ Scalar \subseteq Leaves
    /\ ChannelName \in Path /\ None \notin Path
    /\ DimPaths \in Seq(Path \ Leaves) /\ NamePaths \in [Leaves -> Seq(Path)]
    /\ TimeLeaves \in Seq(Leaves)
    /\ MayAlign \subseteq Path \X Leaves /\ MayEnumerate \subseteq Path \X Leaves
(* What has no outer axis has no outer entries to name.                       *)
ASSUME ScalarAssumption == MayEnumerate \cap (Path \X Scalar) = {}
ASSUME RoundsAssumption ==
    /\ Rounds \in [Path -> Seq(SUBSET Requirement)] /\ MayFail \subseteq Requirement
    /\ IsFiniteSet(Requirement)
ASSUME SettingsAssumption ==
    /\ MayRaise \subseteq {"names", "dims", "hint"} \X Path
    /\ MaxIter \in Nat /\ Modes \subseteq {"leaf", "split", "prefix"}
    /\ Layouts \subseteq {"compact", "filled", "ragged", "awkward"}

VARIABLES facts,   \* the layout asked for and what is true of the shot's data
          phase,   \* what the current loop is for
          paths,   \* the paths it resolves
          todo,    \* candidates to try after them
          iter,    \* iterations it has made
          ready,   \* the status its latest resolve returned
          pending, \* requirements of that resolve still to be fetched
          raw,     \* raw_data: requirements fetched in this gather
          fetches, \* history: how often each was fetched with success
          failed,  \* history: <<phase, requirement>> of each failed fetch
          times,   \* the candidate that supplied the times axis
          asking,  \* the target whose entity names are looked for
          unasked, \* targets whose entity names are still to be looked for
          hints,   \* targets found to have an entity axis
          shaped,  \* targets whose outer axis was compacted or filled
          result

loop == <<paths, todo, iter, ready, pending>>
search == <<asking, unasked, hints>>
vars == <<facts, phase, loop, raw, fetches, failed, times, search, shaped, result>>

Facts == [mode : Modes, layout : Layouts, never : SUBSET MayNever,
          aligned : SUBSET MayAlign, enumerates : SUBSET MayEnumerate]

Prefix == facts.mode = "prefix"
SplitByChannel == facts.mode = "split"
Targets == IF Prefix THEN Leaves ELSE {Leaf}

(* A path wants the rest of its first unfinished round.                       *)
Unfinished(p, have) == {i \in DOMAIN Rounds[p] : ~(Rounds[p][i] \subseteq have)}
Resolved(p, have) == p \notin facts.never /\ Unfinished(p, have) = {}
Wanted(p, have) ==
    UNION {Rounds[p][i] \ have :
             i \in {j \in Unfinished(p, have) :
                      \A k \in Unfinished(p, have) : j <= k}}

Init ==
    /\ facts \in Facts /\ ~(Prefix /\ facts.layout = "compact")
    /\ phase = "primary" /\ paths = Targets /\ todo = <<>>
    /\ iter = 0 /\ ready = FALSE /\ pending = {}
    /\ raw = {} /\ fetches = [r \in Requirement |-> 0] /\ failed = {}
    /\ times = None /\ asking = None /\ unasked = {} /\ hints = {}
    /\ shaped = {} /\ result = "none"

(* A new loop, over the first candidate.                                      *)
Try(candidates) ==
    /\ paths' = IF candidates = <<>> THEN {} ELSE {Head(candidates)}
    /\ todo' = IF candidates = <<>> THEN <<>> ELSE Tail(candidates)
    /\ iter' = 0 /\ ready' = FALSE /\ pending' = {}

(* Faulty variants: the loop goes on until the composer is satisfied, or for  *)
(* an iteration too many.                                                     *)
ResolveForEver ==
    /\ paths # {} /\ pending = {} /\ ~ready
    /\ iter' = IF iter < MaxIter - 1 THEN iter + 1 ELSE iter
    /\ ready' = (\A p \in paths : Resolved(p, raw))
    /\ pending' = UNION {Wanted(p, raw) : p \in paths}
    /\ UNCHANGED <<facts, phase, paths, todo, raw, fetches, failed, times,
                   search, shaped, result>>

ResolveOnceMore ==
    /\ paths # {} /\ pending = {} /\ ~ready /\ iter <= MaxIter
    /\ iter' = iter + 1
    /\ ready' = (\A p \in paths : Resolved(p, raw))
    /\ pending' = UNION {Wanted(p, raw) : p \in paths}
    /\ UNCHANGED <<facts, phase, paths, todo, raw, fetches, failed, times,
                   search, shaped, result>>

(* An iteration asks the composer, which is satisfied or names what to fetch. *)
Resolve ==
    /\ paths # {} /\ pending = {} /\ ~ready /\ iter < MaxIter
    /\ iter' = iter + 1
    /\ ready' = (\A p \in paths : Resolved(p, raw))
    /\ pending' = UNION {Wanted(p, raw) : p \in paths}
    /\ UNCHANGED <<facts, phase, paths, todo, raw, fetches, failed, times,
                   search, shaped, result>>

(* Faulty variant: what an optional path needs is not kept.                   *)
FetchRequirementApart(r) ==
    /\ r \in pending
    /\ raw' = IF phase = "primary" THEN raw \cup {r} ELSE raw
    /\ fetches' = [fetches EXCEPT ![r] = @ + 1]
    /\ pending' = pending \ {r}
    /\ UNCHANGED <<facts, phase, paths, todo, iter, ready, failed, times,
                   search, shaped, result>>

FetchRequirement(r) ==
    /\ r \in pending
    /\ raw' = raw \cup {r}
    /\ fetches' = [fetches EXCEPT ![r] = @ + 1]
    /\ pending' = pending \ {r}
    /\ UNCHANGED <<facts, phase, paths, todo, iter, ready, failed, times,
                   search, shaped, result>>

LoopOver == paths # {} /\ pending = {} /\ (ready \/ iter = MaxIter)

(* An optional loop ends: with a value when its latest resolve said so, or    *)
(* without one, also when a fetch raises, which _fetch_dim swallows.          *)
Composed == LoopOver /\ ready /\ UNCHANGED failed
NotComposed ==
    \/ (paths = {} \/ (LoopOver /\ ~ready)) /\ UNCHANGED failed
    \/ \E r \in pending \cap MayFail : failed' = failed \cup {<<phase, r>>}

(* The search for entity names: the next target with an outer axis, or on to  *)
(* the layout when none is left.                                              *)
HintFor(rest) ==
    \/ \E t \in rest \ Scalar :
         /\ phase' = "hint" /\ asking' = t /\ unasked' = rest \ {t}
         /\ Try(NamePaths[t])
    \/ /\ rest \subseteq Scalar
       /\ phase' = "shape" /\ asking' = None /\ unasked' = {} /\ Try(<<>>)

(* The requested value is composed if everything it needs is there, whatever  *)
(* the latest resolve said; if not, composing it raises, as does any fetch.   *)
ComposePrimary ==
    /\ phase = "primary" /\ LoopOver /\ \A t \in Targets : Resolved(t, raw)
    /\ \/ Prefix /\ HintFor(Targets)
       \/ /\ ~Prefix /\ SplitByChannel /\ phase' = "names"
          /\ Try(<<ChannelName>>) /\ UNCHANGED <<asking, unasked>>
       \/ /\ ~Prefix /\ ~SplitByChannel /\ phase' = "dims"
          /\ Try(DimPaths) /\ UNCHANGED <<asking, unasked>>
    /\ UNCHANGED <<facts, raw, fetches, failed, times, hints, shaped, result>>

PrimaryRaises ==
    /\ phase = "primary"
    /\ \/ /\ LoopOver /\ UNCHANGED failed
          /\ \E t \in Targets : ~Resolved(t, raw)
       \/ \E r \in pending \cap MayFail : failed' = failed \cup {<<phase, r>>}
    /\ phase' = "end" /\ result' = "error" /\ Try(<<>>)
    /\ UNCHANGED <<facts, raw, fetches, times, search, shaped>>

(* Channel names are optional: without them the keys are positions.           *)
ChannelNames ==
    /\ phase = "names" /\ (Composed \/ NotComposed)
    /\ phase' = "dims" /\ Try(DimPaths)
    /\ UNCHANGED <<facts, raw, fetches, times, search, shaped, result>>

(* What an optional path has is converted to an array, and times are scaled,  *)
(* outside of _fetch_dim: an odd value raises from gather.                    *)
ConversionRaises ==
    /\ phase \in {"names", "dims", "hint"} /\ Composed
    /\ \E p \in paths : <<phase, p>> \in MayRaise
    /\ phase' = "end" /\ result' = "error" /\ Try(<<>>)
    /\ UNCHANGED <<facts, raw, fetches, times, search, shaped>>

(* Faulty variant: a failing fetch ends the search for times.                 *)
TimesAxisGivesUp ==
    /\ phase = "dims"
    /\ \/ /\ Composed /\ times' = CHOOSE p \in paths : TRUE
       \/ /\ NotComposed /\ (todo = <<>> \/ failed' # failed) /\ UNCHANGED times
    /\ \/ ~SplitByChannel /\ HintFor(Targets)
       \/ /\ SplitByChannel /\ phase' = "shape" /\ Try(<<>>)
          /\ UNCHANGED <<asking, unasked>>
    /\ UNCHANGED <<facts, raw, fetches, hints, shaped, result>>

(* The first candidate with a value supplies times.                           *)
TimesAxis ==
    /\ phase = "dims"
    /\ \/ /\ Composed /\ times' = CHOOSE p \in paths : TRUE
       \/ /\ NotComposed /\ todo = <<>> /\ UNCHANGED times
    /\ \/ ~SplitByChannel /\ HintFor(Targets)
       \/ /\ SplitByChannel /\ phase' = "shape" /\ Try(<<>>)
          /\ UNCHANGED <<asking, unasked>>
    /\ UNCHANGED <<facts, raw, fetches, hints, shaped, result>>

NextTimesCandidate ==
    /\ phase = "dims" /\ NotComposed /\ todo # <<>>
    /\ Try(todo)
    /\ UNCHANGED <<facts, phase, raw, fetches, times, search, shaped, result>>

(* A candidate with one flat entry per outer entry settles the question.      *)
Settles == Composed /\ \E p \in paths : <<p, asking>> \in facts.enumerates
Useless ==
    \/ NotComposed
    \/ Composed /\ \A p \in paths : <<p, asking>> \notin facts.enumerates

(* Faulty variant: only the most specific candidate is asked.                 *)
EntityHintFirstOnly ==
    /\ phase = "hint"
    /\ \/ Settles /\ hints' = hints \cup {asking}
       \/ Useless /\ UNCHANGED hints
    /\ HintFor(unasked)
    /\ UNCHANGED <<facts, raw, fetches, times, shaped, result>>

EntityHint ==
    /\ phase = "hint"
    /\ \/ Settles /\ hints' = hints \cup {asking}
       \/ Useless /\ todo = <<>> /\ UNCHANGED hints
    /\ HintFor(unasked)
    /\ UNCHANGED <<facts, raw, fetches, times, shaped, result>>

NextNameCandidate ==
    /\ phase = "hint" /\ Useless /\ todo # <<>>
    /\ Try(todo)
    /\ UNCHANGED <<facts, phase, raw, fetches, times, search, shaped, result>>

(* The times axis a layout sees: for a prefix, the first fitting leaf.        *)
SharedTime == IF ~Prefix THEN times
              ELSE IF TimeLeaves = <<>> THEN None ELSE Head(TimeLeaves)

IsTimeAxis(t) ==
    /\ ~SplitByChannel
    /\ t \notin hints
    /\ <<SharedTime, t>> \in facts.aligned

ApplyLayout ==
    /\ phase = "shape"
    /\ shaped' = {t \in Targets : facts.layout \in {"compact", "filled"} /\ IsTimeAxis(t)}
    /\ phase' = "end" /\ result' = "value"
    /\ UNCHANGED <<facts, loop, raw, fetches, failed, times, search>>

Next ==
    \/ Resolve
    \/ \E r \in Requirement : FetchRequirement(r)
    \/ ComposePrimary \/ PrimaryRaises \/ ChannelNames \/ ConversionRaises
    \/ TimesAxis \/ NextTimesCandidate
    \/ EntityHint \/ NextNameCandidate \/ ApplyLayout

Spec == Init /\ [][Next]_vars
FairSpec == Spec /\ WF_vars(Next)

-----------------------------------------------------------------------------
TypeOK ==
    /\ facts \in Facts
    /\ phase \in {"primary", "names", "dims", "hint", "shape", "end"}
    /\ paths \subseteq Path /\ todo \in Seq(Path)
    /\ iter \in 0..MaxIter /\ ready \in BOOLEAN
    /\ pending \subseteq Requirement /\ raw \subseteq Requirement
    /\ fetches \in [Requirement -> Nat]
    /\ times \in Path \cup {None} /\ asking \in Leaves \cup {None}
    /\ unasked \subseteq Targets /\ hints \subseteq Targets
    /\ shaped \subseteq Targets /\ result \in {"none", "value", "error"}

(* A target whose outer entries some name array of the shot enumerates.       *)
HasEntityAxis(t) ==
    \E i \in DOMAIN NamePaths[t] : /\ NamePaths[t][i] \notin facts.never
                                   /\ <<NamePaths[t][i], t>> \in facts.enumerates

(* An entity axis is never compacted or filled, even when the times axis that *)
(* was found matches its length by coincidence: its entries are matched to    *)
(* the names by position.                                                     *)
EntityNeverTransformed == \A t \in shaped : ~HasEntityAxis(t)

(* The candidates for times that the shot has; the most specific one supplies *)
(* the times axis, and targets that lie along it are the ones to transform.   *)
HasTimes == {i \in DOMAIN DimPaths : DimPaths[i] \notin facts.never}
Earliest(positions) == CHOOSE i \in positions : \A j \in positions : i <= j
OwnTime == IF Prefix THEN SharedTime
           ELSE IF HasTimes = {} THEN None ELSE DimPaths[Earliest(HasTimes)]
OnOwnTime ==
    {t \in Targets : /\ facts.layout \in {"compact", "filled"} /\ ~SplitByChannel
                     /\ <<OwnTime, t>> \in facts.aligned /\ ~HasEntityAxis(t)}

(* The shape of what is returned depends on the data only: when nothing       *)
(* failed, exactly the targets on a time axis of their own are transformed.   *)
(* MaxIter must exceed the rounds a path needs: the last iteration's fetches  *)
(* are not looked at again when the path is optional.                         *)
ShapedByData ==
    (result = "value" /\ failed = {} /\ \A p \in Path : Len(Rounds[p]) < MaxIter)
        => shaped = OnOwnTime

(* What an optional path may be passed over for: the shot lacks it, it takes  *)
(* too many rounds, or a fetch of its own failed in a loop of that purpose.   *)
NeededBy(r, p) == \E i \in DOMAIN Rounds[p] : r \in Rounds[p][i]
Lost(purpose) ==
    {p \in Path : \/ p \in facts.never \/ Len(Rounds[p]) >= MaxIter
                  \/ \E r \in Requirement : NeededBy(r, p) /\ <<purpose, r>> \in failed}

(* A failure costs only what needed the failed fetch: a gather that returns   *)
(* passed over a candidate for times, or names of the outer entries, for a    *)
(* reason of their own, never for another candidate's failure, nor for one of *)
(* another purpose, although all share one raw_data.                          *)
OnlyOwnLoss ==
    result = "value" =>
        /\ Prefix \/ \A i \in DOMAIN DimPaths :
              DimPaths[i] \in Lost("dims") \/ \E j \in 1..i : times = DimPaths[j]
        /\ SplitByChannel \/ \A t \in Targets \ hints : \A i \in DOMAIN NamePaths[t] :
              <<NamePaths[t][i], t>> \in facts.enumerates => NamePaths[t][i] \in Lost("hint")

(* Loops share what they fetched: no requirement is fetched twice in a gather.*)
NoRefetch == \A r \in Requirement : fetches[r] <= 1

(* A gather comes to an end, also when the composer never has enough.         *)
GatherEnds == <>(phase = "end")
=============================================================================
