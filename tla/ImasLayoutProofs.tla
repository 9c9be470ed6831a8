--------------------------- MODULE ImasLayoutProofs ---------------------------
(* Proofs about the leaves and batches of ImasLayout, also while xarray       *)
(* objects are made of them, for any values, of any length and inner shapes.  *)
EXTENDS ImasXarray, FiniteSetTheorems, SequenceTheorems, WellFoundedInduction, TLAPS

(* What a value's outer axis has in its slots, if nothing is dropped or moved.*)
InPlace(v, cells) == cells \in [Slots(v) -> {0} \cup Slots(v)]
                     /\ Len(cells) = Len(v.shapes)

LEMMA PositionsInPlace ==
  ASSUME NEW v, v.shapes \in Seq(Seq(Nat))
  PROVE  InPlace(v, Positions(Len(v.shapes)))
<1>1. Positions(Len(v.shapes)) \in [1..Len(v.shapes) -> 1..Len(v.shapes)]
  BY DEF Positions
<1>2. Len(v.shapes) \in Nat
  OBVIOUS
<1> QED BY <1>1, <1>2 DEF InPlace, Slots

LEMMA PaddedInPlace ==
  ASSUME NEW v, v.shapes \in Seq(Seq(Nat))
  PROVE  InPlace(v, Padded(v))
<1>1. Padded(v) \in [1..Len(v.shapes) -> {0} \cup 1..Len(v.shapes)]
  BY DEF Padded, Slots
<1>2. Len(v.shapes) \in Nat
  OBVIOUS
<1> QED BY <1>1, <1>2 DEF InPlace, Slots

LEMMA StackCells ==
  ASSUME NEW v, NEW cells
  PROVE  StackOrObject(v, cells).cells = cells
BY DEF StackOrObject, ObjectArray

LEMMA ToNumpyInPlace ==
  ASSUME NEW v, v.shapes \in Seq(Seq(Nat)), v.axis
  PROVE  InPlace(v, ToNumpy(v).cells)
BY PositionsInPlace, StackCells DEF ToNumpy, ObjectArray

LEMMA FilledInPlace ==
  ASSUME NEW v, v.shapes \in Seq(Seq(Nat))
  PROVE  InPlace(v, Filled(v).cells)
<1>1. Filled(v).cells \in {Positions(Len(v.shapes)), Padded(v)}
  BY StackCells DEF Filled
<1> QED BY <1>1, PositionsInPlace, PaddedInPlace

LEMMA AwkwardCells == ASSUME NEW v
                      PROVE  [ToNumpy(v) EXCEPT !.form = "same"].cells = ToNumpy(v).cells
BY DEF ToNumpy, ObjectArray, StackOrObject

(* In every layout a prefix may have.                                         *)
LEMMA ApplyInPlace ==
  ASSUME NEW v, v.shapes \in Seq(Seq(Nat)), v.axis,
         NEW times, NEW layout \in PrefixLayout, NEW split, NEW hint
  PROVE  InPlace(v, ApplyLayout(v, times, layout, split, hint).data.cells)
<1>1. ApplyLayout(v, times, layout, split, hint).data.cells
        \in {ToNumpy(v).cells, Filled(v).cells}
  BY AwkwardCells DEF ApplyLayout, PrefixLayout, Layout
<1> QED BY <1>1, ToNumpyInPlace, FilledInPlace

(* The two ways to shape a leaf agree.                                        *)
LEMMA PrefixEntry ==
  ASSUME NEW batch, NEW layout \in PrefixLayout, NEW i \in DOMAIN batch
  PROVE  ApplyLayoutPrefix(batch, layout)[i] =
           ApplyLayout(batch[i].value, SharedTime(batch), layout, FALSE,
                       batch[i].hint).data
<1>1. CASE layout = "awkward"
  BY <1>1 DEF ApplyLayoutPrefix, ApplyLayout
<1>2. CASE layout = "ragged"
  BY <1>2 DEF ApplyLayoutPrefix, ApplyLayout
<1>3. CASE layout = "filled"
  <2>1. IsTimeAxis(batch[i].value, SharedTime(batch), FALSE, batch[i].hint)
          => IsTimeAxis(batch[i].value, SharedTime(batch), FALSE, FALSE)
    BY DEF IsTimeAxis
  <2> QED BY <1>3, <2>1 DEF ApplyLayoutPrefix, ApplyLayout
<1> QED BY <1>1, <1>2, <1>3 DEF PrefixLayout, Layout

-----------------------------------------------------------------------------
(* The input never changes, and the output is what it is shaped to.           *)
Shaped ==
    /\ input \in Alone \cup Together \cup Split
    /\ Out("prefix") => output = ApplyLayoutPrefix(input.batch, input.layout)
    /\ Out("leaf") => output = ApplyLayout(input.value, input.times, input.layout,
                                          input.split, input.hint)

LEMMA ShapedAlways == XarraySpec => []Shaped
<1>1. XarrayInit => Shaped
  BY DEF XarrayInit, Shaped, Out
<1>2. Shaped /\ [XarrayNext]_<<vars, array>> => Shaped'
  <2> SUFFICES ASSUME Shaped, [XarrayNext]_<<vars, array>> PROVE Shaped'
    OBVIOUS
  <2>1. CASE Next
    BY <2>1 DEF Shaped, Out, Next, GatherLeaf, GatherPrefix
  <2>2. CASE UNCHANGED <<input, output>>
    BY <2>2 DEF Shaped, Out
  <2>3. CASE GatherChannels
    BY <2>3 DEF Shaped, Out, GatherChannels
  <2> QED BY <2>1, <2>2, <2>3
        DEF XarrayNext, FetchPrefix, FetchLeaf, FetchChannels, vars
<1> QED BY <1>1, <1>2, PTL DEF XarraySpec

LEMMA PrefixInput ==
  ASSUME Shaped, Out("prefix")
  PROVE  input.batch \in Batches /\ input.layout \in PrefixLayout
BY DEF Shaped, Out, Alone, Together, Split

LEMMA LeafInput ==
  ASSUME Shaped, Out("leaf")
  PROVE  /\ input.value \in Values /\ input.times \in Times
         /\ input.layout \in Layout
         /\ output = ApplyLayout(input.value, input.times, input.layout,
                                 input.split, input.hint)
BY DEF Shaped, Out, Alone, Together, Split

-----------------------------------------------------------------------------
(* Whatever the leaves of a prefix are, each keeps its slots in place, so that*)
(* those on the shared time axis stay indexed by it (apply_layout_prefix).    *)
LEMMA LayoutBatchAligned == Shaped => BatchAligned
<1>1. ASSUME Shaped PROVE BatchAligned
  <2> SUFFICES ASSUME Out("prefix"), NEW i \in DOMAIN input.batch,
                      input.batch[i].value.axis
               PROVE  InPlace(input.batch[i].value, output[i].cells)
    BY DEF BatchAligned, InPlace
  <2>1. input.batch \in Batches /\ input.layout \in PrefixLayout
    BY <1>1, PrefixInput
  <2>2. input.batch[i].value.shapes \in Seq(Seq(Nat))
    BY <2>1, BatchesAssumption DEF IsValue
  <2>3. output[i] = ApplyLayout(input.batch[i].value, SharedTime(input.batch),
                                input.layout, FALSE, input.batch[i].hint).data
    <3>1. output = ApplyLayoutPrefix(input.batch, input.layout)
      BY <1>1 DEF Shaped
    <3>2. ApplyLayoutPrefix(input.batch, input.layout)[i]
            = ApplyLayout(input.batch[i].value, SharedTime(input.batch),
                          input.layout, FALSE, input.batch[i].hint).data
      BY <2>1, PrefixEntry
    <3> QED BY <3>1, <3>2
  <2> QED BY <2>1, <2>2, <2>3, ApplyInPlace
<1> QED BY <1>1

(* A leaf of a prefix is shaped as it would be alone (apply_layout_prefix and *)
(* apply_layout decide and shape alike).                                      *)
LEMMA LayoutBatchAsAlone == Shaped => BatchAsAlone
BY PrefixInput, PrefixEntry DEF BatchAsAlone, Shaped

(* A batch keeps its common axis, and each leaf its shape.                    *)
THEOREM LayoutBatchKept == XarraySpec => []BatchKept
<1>1. Shaped => BatchKept
  BY LayoutBatchAligned, LayoutBatchAsAlone DEF BatchKept
<1> QED BY <1>1, ShapedAlways, PTL

-----------------------------------------------------------------------------
LEMMA StackShape ==
  ASSUME NEW v, NEW cells, cells # <<>>, StackOrObject(v, cells).form = "array"
  PROVE  StackOrObject(v, cells).shape = <<Len(cells)>> \o v.shapes[cells[1]]
BY DEF StackOrObject, ObjectArray

LEMMA ToNumpyForm == ASSUME NEW v PROVE ToNumpy(v).form \in {"array", "object"}
BY DEF ToNumpy, ObjectArray, StackOrObject

LEMMA FilledForm == ASSUME NEW v PROVE Filled(v).form \in {"array", "object"}
BY DEF Filled, ObjectArray, StackOrObject

(* A flat array is as long as the value.                                      *)
LEMMA FlatArray ==
  ASSUME NEW v, v.shapes \in Seq(Seq(Nat)), v.axis,
         ToNumpy(v).form = "array", Len(ToNumpy(v).shape) = 1
  PROVE  ToNumpy(v).shape[1] = Len(v.shapes)
<1> DEFINE n == Len(v.shapes)
           cells == Positions(n)
<1>1. n \in Nat /\ Len(cells) = n /\ cells \in Seq(Nat)
  BY DEF Positions
<1>2. CASE v.boxed
  BY <1>1, <1>2 DEF ToNumpy, ObjectArray
<1>3. CASE ~v.boxed /\ cells = <<>>
  BY <1>1, <1>3 DEF ToNumpy, StackOrObject
<1>4. CASE ~v.boxed /\ cells # <<>>
  <2>1. ToNumpy(v) = StackOrObject(v, cells)
    BY <1>4 DEF ToNumpy
  <2>2. ToNumpy(v).shape = <<n>> \o v.shapes[cells[1]]
    BY <2>1, <1>1, <1>4, StackShape
  <2>3. n >= 1 /\ cells[1] = 1
    BY <1>1, <1>4 DEF Positions
  <2>4. v.shapes[cells[1]] \in Seq(Nat)
    BY <2>3, <1>1
  <2> QED BY <2>2, <2>4, <1>1
<1> QED BY <1>2, <1>3, <1>4

(* The time axis is as long as the times (is_time_axis).                      *)
LEMMA TimeAxisLength ==
  ASSUME NEW v, NEW times, times # None => IsValue(times), NEW split, NEW hint,
         IsTimeAxis(v, times, split, hint)
  PROVE  /\ v.axis /\ times # None /\ ~split /\ ~hint
         /\ Len(times.shapes) = Len(v.shapes)
<1>1. /\ v.axis /\ times # None /\ ~split /\ ~hint
      /\ ToNumpy(times).form = "array" /\ Len(ToNumpy(times).shape) = 1
      /\ Len(v.shapes) = ToNumpy(times).shape[1]
  BY DEF IsTimeAxis
<1>2. times.shapes \in Seq(Seq(Nat)) /\ times.axis \in BOOLEAN
  BY <1>1 DEF IsValue
<1>3. times.axis
  BY <1>1, <1>2 DEF ToNumpy
<1> QED BY <1>1, <1>2, <1>3, FlatArray

AlongTimes(v, times, split, hint, out) ==
    /\ out.data.form # "error"
    /\ IsTimeAxis(v, times, split, hint) =>
         /\ Len(out.data.cells) = Len(out.times)
         /\ \A i \in DOMAIN out.times : out.data.cells[i] \in {0, out.times[i]}

(* Data on the time axis stay with their times (_compact and _filled).        *)
LEMMA TimesKept ==
  ASSUME NEW v, v.shapes \in Seq(Seq(Nat)), NEW times, times # None => IsValue(times),
         NEW layout \in Layout, NEW split, NEW hint,
         NEW out, out = ApplyLayout(v, times, layout, split, hint)
  PROVE  AlongTimes(v, times, split, hint, out)
<1> DEFINE onTime == IsTimeAxis(v, times, split, hint)
           n == Len(v.shapes)
<1> HIDE DEF onTime
<1>1. onTime => v.axis /\ times # None /\ Len(times.shapes) = n
  BY TimeAxisLength DEF onTime
<1>2. n \in Nat /\ Len(Positions(n)) = n /\ DOMAIN Positions(n) = 1..n
  BY DEF Positions
<1>3. onTime => TimesOf(times) = Positions(n)
  BY <1>1 DEF TimesOf
<1>4. CASE layout \in {"awkward", "ragged"} \/ ~onTime
  <2>1. out.data.cells = ToNumpy(v).cells /\ out.times = TimesOf(times)
    BY <1>4, AwkwardCells DEF ApplyLayout, onTime
  <2>2. out.data.form # "error"
    <3>1. [ToNumpy(v) EXCEPT !.form = "same"].form = "same"
      BY DEF ToNumpy, ObjectArray, StackOrObject
    <3> QED BY <1>4, <3>1, ToNumpyForm DEF ApplyLayout, onTime
  <2>3. onTime => InPlace(v, ToNumpy(v).cells) /\ ToNumpy(v).cells = Positions(n)
    BY <1>1, ToNumpyInPlace, StackCells DEF ToNumpy, ObjectArray
  <2> QED BY <2>1, <2>2, <2>3, <1>3, <1>2 DEF onTime, AlongTimes
<1>5. CASE layout = "compact" /\ onTime
  <2> DEFINE keep == [i \in Slots(v) |-> NonEmpty(v, i)]
             left == Masked(Positions(n), keep)
  <2>1. out = Compact(v, times)
    BY <1>5 DEF ApplyLayout, onTime
  <2>2. Compact(v, times) = [data |-> StackOrObject(v, left), times |-> left]
    BY <1>1, <1>5 DEF Compact
  <2> HIDE DEF left
  <2>3. out.data.cells = left /\ out.times = left
    BY <2>1, <2>2, StackCells
  <2>4. out.data.form # "error"
    BY <2>1, <2>2 DEF StackOrObject, ObjectArray
  <2> QED BY <2>3, <2>4 DEF AlongTimes
<1>6. CASE layout = "filled" /\ onTime
  <2>1. out.data = Filled(v) /\ out.times = Positions(n)
    BY <1>6, <1>3 DEF ApplyLayout, onTime
  <2>2. Filled(v).cells \in {Positions(n), Padded(v)}
    BY StackCells DEF Filled
  <2>3. Len(Padded(v)) = n /\ \A i \in 1..n : Padded(v)[i] \in {0, i}
    BY <1>2 DEF Padded, Slots
  <2>4. \A i \in 1..n : Positions(n)[i] = i
    BY DEF Positions
  <2>5. Len(out.data.cells) = Len(out.times) /\ DOMAIN out.times = 1..n
    BY <2>1, <2>2, <2>3, <1>2
  <2>6. \A i \in 1..n : out.data.cells[i] \in {0, out.times[i]}
    BY <2>1, <2>2, <2>3, <2>4
  <2> QED BY <2>1, <2>5, <2>6, FilledForm DEF AlongTimes
<1> QED BY <1>4, <1>5, <1>6 DEF Layout

(* Off the time axis nothing moves.                                           *)
LEMMA NamesKept ==
  ASSUME NEW v, v.axis, NEW times, times # None => IsValue(times),
         NEW layout, NEW split, NEW hint,
         split \/ hint \/ times = None \/ Len(times.shapes) # Len(v.shapes)
  PROVE  ApplyLayout(v, times, layout, split, hint).data.cells = Positions(Len(v.shapes))
<1>1. ~IsTimeAxis(v, times, split, hint)
  BY TimeAxisLength
<1>2. ToNumpy(v).cells = Positions(Len(v.shapes))
  BY StackCells DEF ToNumpy, ObjectArray
<1> QED BY <1>1, <1>2, AwkwardCells DEF ApplyLayout

(* Whatever a leaf's value, times and layout are, and whatever is dropped or  *)
(* filled, each entry keeps its time, or its position where the outer axis is *)
(* not one (apply_layout).                                                    *)
THEOREM LayoutEntriesKept == XarraySpec => []EntriesKept
<1>1. ASSUME Shaped, Out("leaf") PROVE DataMatchesTimes /\ NamesMatch
  <2>1. /\ input.value \in Values /\ input.times \in Times
        /\ input.layout \in Layout
        /\ output = ApplyLayout(input.value, input.times, input.layout,
                                input.split, input.hint)
    BY <1>1, LeafInput
  <2>2. /\ input.value.shapes \in Seq(Seq(Nat))
        /\ input.times # None => IsValue(input.times)
    BY <2>1, ValuesAssumption DEF IsValue
  <2>3. DataMatchesTimes
    <3>1. AlongTimes(input.value, input.times, input.split, input.hint, output)
      BY <2>1, <2>2, TimesKept
    <3> QED BY <3>1 DEF DataMatchesTimes, AlongTimes
  <2>4. NamesMatch
    BY <2>1, <2>2, NamesKept DEF NamesMatch
  <2> QED BY <2>3, <2>4
<1>2. Shaped => EntriesKept
  BY <1>1 DEF EntriesKept, DataMatchesTimes, NamesMatch
<1> QED BY <1>2, ShapedAlways, PTL

-----------------------------------------------------------------------------
(* Indexing by a mask.  The k-th entry kept is the one of rank k; ranks grow  *)
(* by one at each entry kept, from none to all of them.                       *)
Within(kept, n) == n \in Nat /\ kept \in SUBSET (1..n)

LEMMA RankType ==
  ASSUME NEW n, NEW kept, Within(kept, n), NEW i \in Int
  PROVE  /\ IsFiniteSet(kept) /\ IsFiniteSet(kept \cap 1..i)
         /\ Rank(kept, i) \in Nat
<1>1. IsFiniteSet(1..n)
  BY FS_Interval DEF Within
<1>2. IsFiniteSet(kept)
  BY <1>1, FS_Subset DEF Within
<1>3. IsFiniteSet(kept \cap 1..i)
  BY <1>2, FS_Subset
<1> QED BY <1>2, <1>3, FS_CardinalityType DEF Rank

LEMMA RankEnds ==
  ASSUME NEW n, NEW kept, Within(kept, n)
  PROVE  /\ Rank(kept, 0) = 0
         /\ Rank(kept, n) = Cardinality(kept) /\ Cardinality(kept) \in Nat
<1>1. 1..0 = {}
  OBVIOUS
<1>2. kept \cap 1..0 = {}
  BY <1>1
<1>3. n \in Int /\ kept \subseteq 1..n
  BY DEF Within
<1>3a. kept \cap 1..n = kept
  BY <1>3
<1>4. Rank(kept, n) = Cardinality(kept)
  BY <1>3a DEF Rank
<1>5. Rank(kept, n) \in Nat
  BY <1>3, RankType
<1> QED BY <1>2, <1>4, <1>5, FS_EmptySet DEF Rank

LEMMA RankStep ==
  ASSUME NEW n, NEW kept, Within(kept, n), NEW i \in 1..n
  PROVE  Rank(kept, i) = Rank(kept, i - 1) + (IF i \in kept THEN 1 ELSE 0)
<1> DEFINE before == kept \cap 1..(i - 1)
<1>0. i \in Int /\ i - 1 \in Int
  BY DEF Within
<1>1. IsFiniteSet(before) /\ Rank(kept, i - 1) \in Nat
  BY <1>0, RankType
<1>2. CASE i \in kept
  <2>0. 1..i = 1..(i - 1) \cup {i} /\ i \notin 1..(i - 1)
    BY DEF Within
  <2>1. kept \cap 1..i = before \cup {i} /\ i \notin before
    BY <1>2, <2>0
  <2>2. Cardinality(before \cup {i}) = Cardinality(before) + 1
    <3> HIDE DEF before
    <3> QED BY <1>1, <2>1, FS_AddElement
  <2>3. Rank(kept, i) = Rank(kept, i - 1) + 1
    BY <2>1, <2>2 DEF Rank
  <2> QED BY <1>2, <2>3
<1>3. CASE i \notin kept
  <2>0. 1..i = 1..(i - 1) \cup {i}
    BY DEF Within
  <2>1. kept \cap 1..i = before
    BY <1>3, <2>0
  <2>2. Rank(kept, i) = Rank(kept, i - 1)
    BY <2>1 DEF Rank
  <2> QED BY <1>1, <1>3, <2>2
<1> QED BY <1>2, <1>3

LEMMA RankGrows ==
  ASSUME NEW n, NEW kept, Within(kept, n), NEW i \in Int, NEW j \in Int, i <= j
  PROVE  Rank(kept, i) <= Rank(kept, j)
<1>1. kept \cap 1..i \in SUBSET (kept \cap 1..j)
  OBVIOUS
<1>2. IsFiniteSet(kept \cap 1..j)
  BY RankType
<1>3. Cardinality(kept \cap 1..i) <= Cardinality(kept \cap 1..j)
  BY <1>1, <1>2, FS_Subset
<1> QED BY <1>3 DEF Rank

LEMMA RankApart ==
  ASSUME NEW n, NEW kept, Within(kept, n), NEW i \in kept, NEW j \in kept,
         Rank(kept, i) = Rank(kept, j)
  PROVE  i = j
<1>0. kept \subseteq 1..n /\ 1..n \subseteq Int
  BY DEF Within
<1>1. ASSUME NEW x \in kept, NEW y \in kept, x < y PROVE Rank(kept, x) < Rank(kept, y)
  <2>0. x \in Int /\ y \in Int /\ y \in 1..n /\ y - 1 \in Int /\ x <= y - 1
    BY <1>0, <1>1
  <2>1. Rank(kept, y) = Rank(kept, y - 1) + 1
    BY <2>0, RankStep
  <2>2. Rank(kept, x) <= Rank(kept, y - 1)
    BY <2>0, RankGrows
  <2>3. Rank(kept, x) \in Nat /\ Rank(kept, y - 1) \in Nat
    BY <2>0, RankType
  <2> QED BY <2>1, <2>2, <2>3
<1>2. i \in Int /\ j \in Int
  BY <1>0
<1>3. Rank(kept, i) \in Nat
  BY <1>2, RankType
<1>4. ~(i < j) /\ ~(j < i)
  BY <1>1, <1>3
<1> QED BY <1>2, <1>4

LEMMA LeastPlace ==
  ASSUME NEW S \in SUBSET Nat, S # {}
  PROVE  \E x \in S : \A y \in S : ~(y < x)
<1> DEFINE less == OpToRel(<, Nat)
<1>1. \A x, y \in Nat : <<y, x>> \in less <=> y < x
  BY DEF OpToRel
<1> HIDE DEF less
<1>2. \E x \in S : \A y \in S : ~(<<y, x>> \in less)
  <2>1. IsWellFoundedOn(less, Nat)
    BY NatLessThanWellFounded, Zenon DEF less
  <2> QED BY <2>1, WFMin
<1> QED BY <1>1, <1>2

LEMMA RankOnto ==
  ASSUME NEW n, NEW kept, Within(kept, n), NEW k \in 1..Cardinality(kept)
  PROVE  \E i \in kept : Rank(kept, i) = k
<1> DEFINE enough == {i \in 1..n : Rank(kept, i) >= k}
<1>0. n \in Nat /\ k \in Nat \ {0}
  BY RankEnds DEF Within
<1>1. n \in enough
  <2>1. Rank(kept, n) >= k
    BY RankEnds
  <2>2. n # 0
    BY <2>1, <1>0, RankEnds
  <2> QED BY <1>0, <2>1, <2>2
<1>3. enough \subseteq Nat /\ enough \subseteq 1..n
  BY <1>0
<1>4. \A i \in enough : Rank(kept, i) >= k
  OBVIOUS
<1>5. \A i \in 1..n : i \notin enough => ~(Rank(kept, i) >= k)
  OBVIOUS
<1> HIDE DEF enough
<1>7. PICK i \in enough : \A y \in enough : ~(y < i)
  BY <1>1, <1>3, LeastPlace
<1>8. i \in 1..n /\ i - 1 \in Int /\ Rank(kept, i - 1) \in Nat
  <2>1. i \in 1..n /\ i - 1 \in Int
    BY <1>0, <1>3
  <2> QED BY <2>1, RankType
<1>9. Rank(kept, i - 1) < k
  <2>1. CASE i = 1
    BY <1>0, <2>1, RankEnds
  <2>2. CASE i # 1
    <3>1. i - 1 \in 1..n /\ i - 1 \in Nat /\ i \in Nat /\ i - 1 < i
      BY <1>0, <1>8, <2>2
    <3>2. i - 1 \notin enough
      BY <1>7, <3>1
    <3> QED BY <1>0, <1>5, <1>8, <3>1, <3>2
  <2> QED BY <2>1, <2>2
<1>10. Rank(kept, i) = Rank(kept, i - 1) + (IF i \in kept THEN 1 ELSE 0)
  BY <1>8, RankStep
<1>11. Rank(kept, i) >= k
  BY <1>4, <1>7
<1> QED BY <1>0, <1>8, <1>9, <1>10, <1>11

(* What a mask keeps of a value's positions: those where it is set, all of    *)
(* them, in place if that is everywhere.                                      *)
Where(keep) == {i \in DOMAIN keep : keep[i]}

LEMMA MaskedPositions ==
  ASSUME NEW n \in Nat, NEW keep, DOMAIN keep = 1..n
  PROVE  /\ Masked(Positions(n), keep) \in Seq(Where(keep))
         /\ \A k \in DOMAIN Masked(Positions(n), keep) :
              Rank(Where(keep), Masked(Positions(n), keep)[k]) = k
         /\ \A i \in Where(keep) : \E k \in DOMAIN Masked(Positions(n), keep) :
              Masked(Positions(n), keep)[k] = i
         /\ Where(keep) = 1..n => Masked(Positions(n), keep) = Positions(n)
<1> DEFINE kept == Where(keep)
           left == Masked(Positions(n), keep)
           Nth(k) == CHOOSE i \in kept : Rank(kept, i) = k
           m == Cardinality(kept)
<1>3. left = [k \in 1..m |-> Positions(n)[Nth(k)]]
  BY Zenon DEF Masked, Where
<1>0. kept \subseteq 1..n
  BY DEF Where
<1> HIDE DEF kept
<1>1. Within(kept, n)
  BY <1>0 DEF Within
<1>2. m \in Nat
  BY <1>1, RankEnds
<1>4. ASSUME NEW k \in 1..m PROVE Nth(k) \in kept /\ Rank(kept, Nth(k)) = k
  <2>1. \E i \in kept : Rank(kept, i) = k
    BY <1>1, RankOnto
  <2> QED BY <2>1, Zenon
<1> HIDE DEF left, Nth, m
<1>5. \A i \in 1..n : Positions(n)[i] = i
  BY DEF Positions
<1>6. \A k \in 1..m : left[k] = Nth(k)
  BY <1>0, <1>3, <1>4, <1>5
<1>7. left \in Seq(kept) /\ DOMAIN left = 1..m
  <2>1. left \in [1..m -> kept]
    BY <1>3, <1>4, <1>6
  <2> QED BY <1>2, <2>1
<1>8. ASSUME NEW i \in kept PROVE \E k \in DOMAIN left : left[k] = i
  <2>0. i \in 1..n /\ i \in Int /\ i - 1 \in Int /\ 0 <= i - 1 /\ i <= n /\ n \in Int
    BY <1>0
  <2>1. Rank(kept, i) \in 1..m
    <3>1. Rank(kept, i) <= Rank(kept, n) /\ Rank(kept, 0) <= Rank(kept, i - 1)
      BY <1>1, <2>0, RankGrows
    <3>2. Rank(kept, i) = Rank(kept, i - 1) + 1
      BY <1>1, <2>0, RankStep
    <3>3. Rank(kept, i - 1) \in Nat /\ Rank(kept, 0) = 0 /\ Rank(kept, n) = m
      BY <1>1, <2>0, RankType, RankEnds DEF m
    <3> QED BY <1>2, <3>1, <3>2, <3>3
  <2>2. Nth(Rank(kept, i)) = i
    <3>1. Nth(Rank(kept, i)) \in kept /\ Rank(kept, Nth(Rank(kept, i))) = Rank(kept, i)
      BY <1>4, <2>1
    <3> QED BY <1>1, <3>1, RankApart
  <2> QED BY <1>6, <1>7, <2>1, <2>2
<1>9. ASSUME kept = 1..n PROVE left = Positions(n)
  <2>0. Cardinality(1..n) = n
    BY FS_Interval
  <2>1. m = n
    BY <1>9, <2>0 DEF m
  <2>2. ASSUME NEW k \in 1..n PROVE Nth(k) = k
    <3>1. kept \cap 1..k = 1..k
      BY <1>9
    <3>2. Rank(kept, k) = Cardinality(1..k)
      BY <3>1 DEF Rank
    <3>3. Cardinality(1..k) = k
      BY FS_Interval
    <3>4. Nth(k) \in kept /\ Rank(kept, Nth(k)) = k /\ k \in kept
      BY <1>4, <1>9, <2>1
    <3> QED BY <1>1, <3>2, <3>3, <3>4, RankApart
  <2>3. \A k \in 1..n : Positions(n)[Nth(k)] = k
    BY <1>5, <2>2
  <2> QED BY <1>3, <2>1, <2>3 DEF Positions
<1>10. \A k \in DOMAIN left : Rank(kept, left[k]) = k
  BY <1>4, <1>6, <1>7
<1> QED BY <1>7, <1>8, <1>9, <1>10 DEF left, kept

(* What _compact keeps of a value are its entries that are not empty.         *)
NotEmpty(v) == Slots(v) \ Holes(v)
Left(v) == Masked(Positions(Len(v.shapes)), [i \in Slots(v) |-> NonEmpty(v, i)])

LEMMA LeftEntries ==
  ASSUME NEW v, v.shapes \in Seq(Seq(Nat))
  PROVE  /\ Left(v) \in Seq(NotEmpty(v))
         /\ \A i \in NotEmpty(v) : \E k \in DOMAIN Left(v) : Left(v)[k] = i
         /\ Holes(v) = {} => Left(v) = Positions(Len(v.shapes))
<1> DEFINE n == Len(v.shapes)
           keep == [i \in 1..n |-> NonEmpty(v, i)]
<1>1. n \in Nat /\ DOMAIN keep = 1..n
  OBVIOUS
<1>2. Where(keep) = NotEmpty(v)
  BY DEF NotEmpty, Holes, Slots, Where
<1>3. Left(v) = Masked(Positions(n), keep)
  BY DEF Slots, Left
<1>4. Holes(v) = {} => Where(keep) = 1..n
  BY <1>2 DEF NotEmpty, Slots
<1> HIDE DEF keep, n
<1>5. /\ Left(v) \in Seq(Where(keep))
      /\ \A i \in Where(keep) : \E k \in DOMAIN Left(v) : Left(v)[k] = i
      /\ Where(keep) = 1..n => Left(v) = Positions(n)
  BY <1>1, <1>3, MaskedPositions
<1> QED BY <1>2, <1>4, <1>5 DEF n

(* It is an array if one inner shape remains.                                 *)
LEMMA CompactForm ==
  ASSUME NEW v, v.shapes \in Seq(Seq(Nat))
  PROVE  StackOrObject(v, Left(v)).form = "array"
           <=> \A s, t \in InnerShapes(v) : s = t
<1>1. \A k \in DOMAIN Left(v) : Left(v)[k] \in NotEmpty(v)
  BY LeftEntries
<1>2. \A s : s \in InnerShapes(v) <=> \E k \in DOMAIN Left(v) : s = v.shapes[Left(v)[k]]
  <2>1. \A s : s \in InnerShapes(v) <=> \E i \in NotEmpty(v) : s = v.shapes[i]
    BY DEF InnerShapes, NotEmpty
  <2>2. \A i \in NotEmpty(v) : \E k \in DOMAIN Left(v) : Left(v)[k] = i
    BY LeftEntries
  <2> QED BY <1>1, <2>1, <2>2
<1>3. CASE Left(v) = <<>>
  BY <1>2, <1>3 DEF StackOrObject
<1>4. CASE Left(v) # <<>>
  <2>1. 1 \in DOMAIN Left(v)
    BY <1>4, LeftEntries
  <2>2. StackOrObject(v, Left(v)).form = "array"
          <=> \A k \in DOMAIN Left(v) : v.shapes[Left(v)[k]] = v.shapes[Left(v)[1]]
    BY <1>4 DEF StackOrObject, ObjectArray
  <2>3. \A k \in DOMAIN Left(v) : v.shapes[Left(v)[k]] \in InnerShapes(v)
    BY <1>2
  <2>4. ASSUME \A s, t \in InnerShapes(v) : s = t
        PROVE  StackOrObject(v, Left(v)).form = "array"
    BY <2>1, <2>2, <2>3, <2>4
  <2>5. ASSUME StackOrObject(v, Left(v)).form = "array",
               NEW s \in InnerShapes(v), NEW t \in InnerShapes(v)
        PROVE  s = t
    <3>1. s = v.shapes[Left(v)[1]]
      BY <1>2, <2>2, <2>5
    <3>2. t = v.shapes[Left(v)[1]]
      BY <1>2, <2>2, <2>5
    <3> QED BY <3>1, <3>2
  <2> QED BY <2>4, <2>5
<1> QED BY <1>3, <1>4

(* Only cells of padding are filled (_filled).                                *)
Honest(v, data) ==
    \A i \in DOMAIN data.cells : data.cells[i] = 0 =>
        /\ v.kind = "float" /\ i \in Holes(v)
        /\ InnerShapes(v) = {Tail(data.shape)}

LEMMA NoZeroHonest ==
  ASSUME NEW v, NEW data, \A i \in DOMAIN data.cells : data.cells[i] # 0
  PROVE  Honest(v, data)
BY DEF Honest

LEMMA PositionsHonest ==
  ASSUME NEW v, v.shapes \in Seq(Seq(Nat)), NEW data,
         data.cells \in {Positions(Len(v.shapes)), << 1 >>}
  PROVE  Honest(v, data)
<1>1. CASE data.cells = Positions(Len(v.shapes))
  <2>1. \A n \in Nat : \A i \in DOMAIN Positions(n) : Positions(n)[i] # 0
    BY DEF Positions
  <2>2. Len(v.shapes) \in Nat
    OBVIOUS
  <2> QED BY <1>1, <2>1, <2>2, NoZeroHonest
<1>2. CASE data.cells = << 1 >>
  <2>1. \A i \in DOMAIN << 1 >> : << 1 >>[i] # 0
    OBVIOUS
  <2> QED BY <1>2, <2>1, NoZeroHonest
<1> QED BY <1>1, <1>2

LEMMA TailOfRest ==
  ASSUME NEW n \in Nat, NEW s \in Seq(Nat)
  PROVE  Tail(<<n>> \o s) = s
<1> DEFINE t == <<n>> \o s
<1>1. t \in Seq(Nat) /\ Len(t) = Len(s) + 1 /\ Len(s) \in Nat
  OBVIOUS
<1>2. \A i \in 1..Len(s) : t[i + 1] = s[i]
  OBVIOUS
<1> HIDE DEF t
<1>3. Tail(t) \in Seq(Nat) /\ Len(Tail(t)) = Len(s)
  BY <1>1
<1>4. \A i \in 1..Len(s) : Tail(t)[i] = s[i]
  BY <1>1, <1>2
<1> QED BY <1>3, <1>4 DEF t

LEMMA FilledHonest ==
  ASSUME NEW v, v.shapes \in Seq(Seq(Nat))
  PROVE  Honest(v, Filled(v))
<1>1. CASE Filled(v).cells = Positions(Len(v.shapes))
  BY <1>1, PositionsHonest
<1>2. CASE Filled(v).cells # Positions(Len(v.shapes))
  <2> DEFINE s == CHOOSE s \in InnerShapes(v) : TRUE
             n == Len(v.shapes)
  <2>1. /\ Holes(v) # Slots(v) /\ v.kind = "float"
        /\ \A t, u \in InnerShapes(v) : t = u
        /\ Filled(v).shape = <<n>> \o s /\ Filled(v).cells = Padded(v)
    BY <1>2, StackCells DEF Filled
  <2>2. InnerShapes(v) # {} /\ InnerShapes(v) \subseteq Seq(Nat)
    <3>1. Slots(v) \ Holes(v) # {}
      BY <2>1 DEF Holes
    <3>2. \A i \in Slots(v) : v.shapes[i] \in Seq(Nat)
      BY DEF Slots
    <3> QED BY <3>1, <3>2 DEF InnerShapes
  <2>3. s \in InnerShapes(v)
    BY <2>2
  <2>4. InnerShapes(v) = {s} /\ s \in Seq(Nat)
    BY <2>1, <2>2, <2>3
  <2> HIDE DEF s
  <2>5. Tail(<<n>> \o s) = s
    BY <2>4, TailOfRest
  <2>6. \A i \in DOMAIN Padded(v) : Padded(v)[i] = 0 => i \in Holes(v)
    BY DEF Padded, Holes, Slots
  <2> QED BY <2>1, <2>4, <2>5, <2>6 DEF Honest
<1> QED BY <1>1, <1>2

LEMMA ToNumpyCells ==
  ASSUME NEW v
  PROVE  ToNumpy(v).cells \in {Positions(Len(v.shapes)), << 1 >>}
BY StackCells DEF ToNumpy, ObjectArray

(* Each layout of a leaf, on the time axis or off it.                         *)
LEMMA LayoutCases ==
  ASSUME NEW v, NEW times, times # None => IsValue(times), NEW layout \in Layout,
         NEW split, NEW hint, NEW data,
         data = ApplyLayout(v, times, layout, split, hint).data
  PROVE  /\ ~IsTimeAxis(v, times, split, hint) \/ layout \in {"awkward", "ragged"}
              => data.cells = ToNumpy(v).cells
         /\ IsTimeAxis(v, times, split, hint) /\ layout = "compact"
              => data = StackOrObject(v, Left(v))
         /\ IsTimeAxis(v, times, split, hint) /\ layout = "filled"
              => data = Filled(v)
<1>1. ASSUME ~IsTimeAxis(v, times, split, hint) \/ layout \in {"awkward", "ragged"}
      PROVE  data.cells = ToNumpy(v).cells
  BY <1>1, AwkwardCells DEF ApplyLayout
<1>2. ASSUME IsTimeAxis(v, times, split, hint), layout = "compact"
      PROVE  data = StackOrObject(v, Left(v))
  <2>1. Len(times.shapes) = Len(v.shapes)
    BY <1>2, TimeAxisLength
  <2>2. data = Compact(v, times).data
    BY <1>2 DEF ApplyLayout
  <2> QED BY <2>1, <2>2 DEF Compact, Left
<1>3. ASSUME IsTimeAxis(v, times, split, hint), layout = "filled" PROVE data = Filled(v)
  BY <1>3 DEF ApplyLayout
<1> QED BY <1>1, <1>2, <1>3

(* Whatever a leaf is, its layout fills in nothing but empty slots, and is    *)
(* rectangular where it promises to be (_compact and _filled).                *)
THEOREM LayoutShapeAsPromised == XarraySpec => []ShapeAsPromised
<1>1. ASSUME Shaped, Out("leaf") PROVE NothingFabricated /\ Rectangular
  <2> DEFINE v == input.value
             onTime == IsTimeAxis(v, input.times, input.split, input.hint)
  <2>1. /\ v \in Values /\ input.times \in Times /\ input.layout \in Layout
        /\ output.data = ApplyLayout(v, input.times, input.layout, input.split,
                                     input.hint).data
    BY <1>1, LeafInput
  <2>2. v.shapes \in Seq(Seq(Nat)) /\ (input.times # None => IsValue(input.times))
    BY <2>1, ValuesAssumption DEF IsValue
  <2>3. /\ ~onTime \/ input.layout \in {"awkward", "ragged"}
             => output.data.cells = ToNumpy(v).cells
        /\ onTime /\ input.layout = "compact" => output.data = StackOrObject(v, Left(v))
        /\ onTime /\ input.layout = "filled" => output.data = Filled(v)
    BY <2>1, <2>2, LayoutCases
  <2>4. onTime => Compact(v, input.times).data = StackOrObject(v, Left(v))
    BY <2>2, TimeAxisLength DEF Compact, Left
  <2> HIDE DEF onTime
  <2>5. Honest(v, output.data)
    <3>1. CASE ~onTime \/ input.layout \in {"awkward", "ragged"}
      BY <2>2, <2>3, <3>1, ToNumpyCells, PositionsHonest
    <3>2. CASE onTime /\ input.layout = "compact"
      <4>1. output.data.cells = Left(v)
        BY <2>3, <3>2, StackCells
      <4>2. \A i \in DOMAIN Left(v) : Left(v)[i] # 0
        <5>1. Left(v) \in Seq(NotEmpty(v))
          BY <2>2, LeftEntries
        <5>2. 0 \notin NotEmpty(v)
          BY DEF NotEmpty, Slots
        <5> QED BY <5>1, <5>2
      <4> QED BY <4>1, <4>2, NoZeroHonest
    <3>3. CASE onTime /\ input.layout = "filled"
      BY <2>2, <2>3, <3>3, FilledHonest
    <3> QED BY <2>1, <3>1, <3>2, <3>3 DEF Layout
  <2>6. NothingFabricated
    BY <2>5 DEF NothingFabricated, Honest
  <2>7. onTime /\ input.layout = "compact" =>
          (output.data.form = "array" <=> \A s, t \in InnerShapes(v) : s = t)
    BY <2>2, <2>3, CompactForm
  <2>8. onTime /\ input.layout = "filled" /\ Holes(v) = {} /\ Slots(v) # {} =>
          output.data = Compact(v, input.times).data
    <3>1. Holes(v) = {} /\ Slots(v) # {} => Filled(v) = StackOrObject(v, Left(v))
      BY <2>2, LeftEntries DEF Filled
    <3> QED BY <2>3, <2>4, <3>1
  <2>9. Rectangular
    BY <2>7, <2>8 DEF Rectangular, onTime
  <2> QED BY <2>6, <2>9
<1>2. Shaped => ShapeAsPromised
  BY <1>1 DEF ShapeAsPromised, NothingFabricated, Rectangular
<1> QED BY <1>2, ShapedAlways, PTL

-----------------------------------------------------------------------------
(* The largest of a set of places.                                            *)
LEMMA LargestPlace ==
  ASSUME NEW n \in Nat, NEW S \in SUBSET (1..n), S # {}
  PROVE  Max(S) \in S /\ \A x \in S : x <= Max(S)
<1> DEFINE T == {n - x : x \in S}
<1>1. \A x \in S : n - x \in Nat
  OBVIOUS
<1>2. T \in SUBSET Nat
  BY <1>1
<1>3. PICK any \in S : TRUE
  OBVIOUS
<1>4. n - any \in T
  OBVIOUS
<1>5. T # {}
  BY <1>4
<1>6. \A y \in S : n - y \in T
  OBVIOUS
<1>7. \A t \in T : \E x \in S : t = n - x
  OBVIOUS
<1> HIDE DEF T
<1>8. PICK t \in T : \A y \in T : ~(y < t)
  BY <1>2, <1>5, LeastPlace
<1>9. PICK x \in S : t = n - x
  BY <1>7
<1>10. \A y \in S : y <= x
  <2> TAKE y \in S
  <2>1. ~(n - y < n - x)
    BY <1>6, <1>8, <1>9
  <2>2. x \in Int /\ y \in Int
    OBVIOUS
  <2> QED BY <2>1, <2>2
<1>11. \E z \in S : \A y \in S : z >= y
  BY <1>10
<1> QED BY <1>11 DEF Max

(* A value split by channel, and the dataset made of it.                      *)
Dataset(c) ==
    LET out == SplitByChannel(c.value, c.names) IN
    IF out = Invalid THEN Invalid ELSE ChannelDataset(c.value, c.dims, out.row)
Converted ==
    input.what = "channels" =>
        /\ input.channels \in Channelled
        /\ output # None => output = SplitByChannel(input.channels.value, input.channels.names)
        /\ array # None => array = Dataset(input.channels)

LEMMA ConvertedAlways == XarraySpec => []Converted
<1>1. XarrayInit => Converted
  BY DEF XarrayInit, Converted, Alone, Together, Split
<1>2. Converted /\ [XarrayNext]_<<vars, array>> => Converted'
  <2> SUFFICES ASSUME Converted, [XarrayNext]_<<vars, array>> PROVE Converted'
    OBVIOUS
  <2>1. CASE Next /\ UNCHANGED array
    BY <2>1 DEF Converted, Next, GatherLeaf, GatherPrefix
  <2>2. CASE UNCHANGED <<input, output, array>>
    BY <2>2 DEF Converted
  <2>3. CASE GatherChannels
    <3>1. array = None => array' = None
      BY <2>3 DEF GatherChannels
    <3> QED BY <2>3, <3>1 DEF Converted, GatherChannels
  <2>4. CASE FetchChannels
    BY <2>4 DEF Converted, FetchChannels, Dataset
  <2>5. CASE FetchPrefix \/ FetchLeaf
    BY <2>5 DEF Converted, FetchPrefix, FetchLeaf
  <2> QED BY <2>1, <2>2, <2>3, <2>4, <2>5 DEF XarrayNext, vars
<1> QED BY <1>1, <1>2, PTL DEF XarraySpec

(* A variable has its channel's row, and its times as a coordinate.           *)
LEMMA VariableOfChannel ==
  ASSUME NEW v, IsValue(v), NEW dims, AreDims(dims), NEW i \in Slots(v)
  PROVE  /\ AlignedVector(v, dims, i) => Variable(v, dims, i).form = "variable"
         /\ Variable(v, dims, i) # Invalid =>
              /\ Variable(v, dims, i).row = i
              /\ \A k \in Aligned(v, dims, i) :
                   dims[k].name \in Variable(v, dims, i).coords \ Variable(v, dims, i).attrs
<1> DEFINE aligned == Aligned(v, dims, i)
           others == Attributes(dims, i) \ aligned
           shape == v.shapes[i]
<1>1. aligned \subseteq DOMAIN dims /\ others \subseteq DOMAIN dims /\ aligned \cap others = {}
  BY DEF Aligned, Attributes, WithEntry
<1>2. Cardinality(aligned) \in Nat
  <2>1. Len(dims) \in Nat /\ aligned \subseteq 1..Len(dims)
    BY <1>1 DEF AreDims
  <2>2. IsFiniteSet(1..Len(dims))
    BY <2>1, FS_Interval
  <2> QED BY <2>1, <2>2, FS_Subset, FS_CardinalityType
<1> HIDE DEF aligned, others
<1>3. ASSUME AlignedVector(v, dims, i) PROVE Variable(v, dims, i).form = "variable"
  <2>1. Len(shape) = 1 /\ Cardinality(aligned) <= 1
    BY <1>3 DEF AlignedVector, aligned
  <2>2. Max({1, Cardinality(aligned)}) = 1
    <3>1. \A m \in {1, Cardinality(aligned)} : m <= 1 /\ m \in Nat
      BY <1>2, <2>1
    <3>2. Max({1, Cardinality(aligned)}) \in {1, Cardinality(aligned)}
            /\ Max({1, Cardinality(aligned)}) >= 1
      BY <3>1 DEF Max
    <3> QED BY <3>1, <3>2
  <2>3. shape \in Seq(Nat)
    BY DEF IsValue, Slots
  <2>4. shape # <<>>
    BY <2>1
  <2>5. DOMAIN shape = 1..1
    BY <2>1, <2>3
  <2>6. ~(\E ax \in DOMAIN shape : shape[ax] # shape[1])
    BY <2>5
  <2> QED BY <2>1, <2>2, <2>4, <2>6 DEF Variable, aligned
<1>4. ASSUME Variable(v, dims, i) # Invalid
      PROVE  Variable(v, dims, i) = [form |-> "variable", row |-> i,
                                     coords |-> {dims[k].name : k \in aligned},
                                     attrs |-> {dims[k].name : k \in others}]
  BY <1>4, Zenon DEF Variable, aligned, others
<1>5. ASSUME NEW k \in aligned
      PROVE  dims[k].name \in {dims[j].name : j \in aligned} \ {dims[j].name : j \in others}
  BY <1>1 DEF AreDims
<1> QED BY <1>3, <1>4, <1>5 DEF aligned

(* A key's row is a channel called so; no channel goes unless names are used  *)
(* twice or look like numbers of others.                                      *)
LEMMA RowsOfKeys ==
  ASSUME NEW v, IsValue(v), v.axis, NEW names, names \in Seq(Nat)
  PROVE  LET row == SplitByChannel(v, names).row IN
         /\ SplitByChannel(v, names).form = "channels"
         /\ \A key \in DOMAIN row : row[key] \in Slots(v) /\ key = ChannelKey(names, row[key])
         /\ (\A i \in DOMAIN names : /\ names[i] >= Len(v.shapes)
                                     /\ \A j \in DOMAIN names : names[i] = names[j] => i = j)
              => \A i \in Slots(v) : \E key \in DOMAIN row : row[key] = i
<1> DEFINE n == Len(v.shapes)
           Called(key) == {i \in Slots(v) : ChannelKey(names, i) = key}
           row == SplitByChannel(v, names).row
<1>1. n \in Nat /\ Slots(v) = 1..n
  BY DEF IsValue, Slots
<1>2. /\ SplitByChannel(v, names).form = "channels"
      /\ row = [key \in {ChannelKey(names, i) : i \in Slots(v)} |-> Max(Called(key))]
  BY DEF SplitByChannel
<1>3. \A key : \A i \in Called(key) : i \in Slots(v) /\ ChannelKey(names, i) = key
  OBVIOUS
<1>4. \A i \in Slots(v) : i \in Called(ChannelKey(names, i))
  OBVIOUS
<1>5. \A key : Called(key) \in SUBSET (1..n)
  BY <1>1
<1> HIDE DEF row, Called
<1>6. DOMAIN row = {ChannelKey(names, i) : i \in Slots(v)}
  BY <1>2
<1>7. ASSUME NEW key \in DOMAIN row PROVE row[key] \in Called(key)
  <2>1. PICK i \in Slots(v) : key = ChannelKey(names, i)
    BY <1>6
  <2>2. Called(key) # {}
    BY <1>4, <2>1
  <2>3. Max(Called(key)) \in Called(key)
    BY <1>1, <1>5, <2>2, LargestPlace
  <2> QED BY <1>2, <1>6, <2>3
<1>8. ASSUME \A i \in DOMAIN names : names[i] >= n
                /\ \A j \in DOMAIN names : names[i] = names[j] => i = j,
             NEW i \in Slots(v), NEW j \in Slots(v),
             ChannelKey(names, i) = ChannelKey(names, j)
      PROVE  i = j
  <2>1. i \in 1..n /\ j \in 1..n
    BY <1>1
  <2>2. DOMAIN names = 1..Len(names) /\ Len(names) \in Nat
    OBVIOUS
  <2>3. \A k \in 1..Len(names) : names[k] \in Nat
    OBVIOUS
  <2>4. CASE i <= Len(names) /\ j <= Len(names)
    BY <1>8, <2>1, <2>2, <2>4 DEF ChannelKey
  <2>5. CASE ~(i <= Len(names)) /\ ~(j <= Len(names))
    BY <1>8, <2>1, <2>2, <2>5 DEF ChannelKey
  <2>6. CASE i <= Len(names) /\ ~(j <= Len(names))
    <3>1. names[i] = j - 1
      BY <1>8, <2>6 DEF ChannelKey
    <3>2. names[i] >= n
      BY <1>8, <2>1, <2>2, <2>6
    <3> QED BY <1>1, <2>1, <3>1, <3>2
  <2>7. CASE ~(i <= Len(names)) /\ j <= Len(names)
    <3>1. names[j] = i - 1
      BY <1>8, <2>7 DEF ChannelKey
    <3>2. names[j] >= n
      BY <1>8, <2>1, <2>2, <2>7
    <3> QED BY <1>1, <2>1, <3>1, <3>2
  <2> QED BY <2>4, <2>5, <2>6, <2>7
<1>9. ASSUME \A i \in DOMAIN names : names[i] >= n
                /\ \A j \in DOMAIN names : names[i] = names[j] => i = j,
             NEW i \in Slots(v)
      PROVE  \E key \in DOMAIN row : row[key] = i
  <2>1. ChannelKey(names, i) \in DOMAIN row
    BY <1>6
  <2>2. /\ row[ChannelKey(names, i)] \in Slots(v)
        /\ ChannelKey(names, row[ChannelKey(names, i)]) = ChannelKey(names, i)
    BY <1>3, <1>7, <2>1
  <2>3. row[ChannelKey(names, i)] = i
    BY <1>8, <1>9, <2>2
  <2> QED BY <2>1, <2>3
<1>10. \A key \in DOMAIN row : row[key] \in Slots(v) /\ key = ChannelKey(names, row[key])
  BY <1>3, <1>7
<1> QED BY <1>2, <1>9, <1>10 DEF row, n

(* No channel is lost, mixed up or left without its times, however many there *)
(* are and whatever dimensions they have (_split_by_channel and               *)
(* _channel_result_to_dataset).                                               *)
THEOREM XarrayChannelsKept == XarraySpec => []ChannelsKept
<1>1. ASSUME Converted PROVE ChannelsKept
  <2> DEFINE c == input.channels
             v == c.value
             dims == c.dims
             row == SplitByChannel(v, c.names).row
  <2> SUFFICES ASSUME input.what = "channels", array # None, v.axis
               PROVE  /\ (\A i \in Slots(v) : AlignedVector(v, dims, i)) => array.form = "dataset"
                      /\ array.form = "dataset" =>
                           /\ \A key \in DOMAIN array.of : LET w == array.of[key] IN
                                /\ key = ChannelKey(c.names, w.row)
                                /\ \A k \in DOMAIN dims : k \in Aligned(v, dims, w.row)
                                     => dims[k].name \in w.coords \ w.attrs
                           /\ Usable(c.names) =>
                                {array.of[key].row : key \in DOMAIN array.of} = Slots(v)
    BY DEF ChannelsKept
  <2>1. c \in Channelled /\ array = Dataset(c)
    BY <1>1 DEF Converted
  <2>2. IsValue(v) /\ AreDims(dims) /\ c.names \in Seq(Nat)
    BY <2>1, ChannelledAssumption
  <2>3. /\ SplitByChannel(v, c.names).form = "channels"
        /\ \A key \in DOMAIN row : row[key] \in Slots(v) /\ key = ChannelKey(c.names, row[key])
        /\ Usable(c.names) => \A i \in Slots(v) : \E key \in DOMAIN row : row[key] = i
    BY <2>2, RowsOfKeys DEF Usable
  <2>4. array = ChannelDataset(v, dims, row)
    BY <2>1, <2>3 DEF Dataset, Invalid
  <2> HIDE DEF row, c
  <2>5. ASSUME \A i \in Slots(v) : AlignedVector(v, dims, i)
        PROVE  array.form = "dataset"
    <3>1. \A key \in DOMAIN row : Variable(v, dims, row[key]).form = "variable"
      BY <2>2, <2>3, <2>5, VariableOfChannel
    <3>2. ~\E key \in DOMAIN row : Variable(v, dims, row[key]) = Invalid
      BY <3>1 DEF Invalid
    <3> QED BY <2>4, <3>2 DEF ChannelDataset
  <2>6. ASSUME array.form = "dataset"
        PROVE  /\ array.of = [key \in DOMAIN row |-> Variable(v, dims, row[key])]
               /\ \A key \in DOMAIN row : Variable(v, dims, row[key]) # Invalid
    BY <2>4, <2>6 DEF ChannelDataset, Invalid
  <2>7. ASSUME array.form = "dataset", NEW key \in DOMAIN row
        PROVE  /\ array.of[key].row = row[key]
               /\ \A k \in Aligned(v, dims, row[key]) :
                    dims[k].name \in array.of[key].coords \ array.of[key].attrs
    <3>1. row[key] \in Slots(v) /\ Variable(v, dims, row[key]) # Invalid
      BY <2>3, <2>6, <2>7
    <3>2. array.of[key] = Variable(v, dims, row[key])
      BY <2>6, <2>7
    <3> QED BY <2>2, <3>1, <3>2, VariableOfChannel
  <2>8. array.form = "dataset" => DOMAIN array.of = DOMAIN row
    BY <2>6
  <2>9. ASSUME array.form = "dataset", Usable(c.names)
        PROVE  {array.of[key].row : key \in DOMAIN array.of} = Slots(v)
    BY <2>3, <2>7, <2>8, <2>9
  <2>10. ASSUME array.form = "dataset", NEW key \in DOMAIN array.of
         PROVE  /\ key = ChannelKey(c.names, array.of[key].row)
                /\ \A k \in DOMAIN dims : k \in Aligned(v, dims, array.of[key].row)
                     => dims[k].name \in array.of[key].coords \ array.of[key].attrs
    BY <2>3, <2>7, <2>8, <2>10
  <2> QED BY <2>5, <2>9, <2>10
<1> QED BY <1>1, ConvertedAlways, PTL

-----------------------------------------------------------------------------
(* A set of counts that has 0 and with each its successor has all of them.    *)
LEMMA CountedUp ==
  ASSUME NEW n \in Nat, NEW T, 0 \in T,
         \A k \in 0..n : k # n /\ k \in T => k + 1 \in T
  PROVE  \A k \in 0..n : k \in T
<1> DEFINE missing == (0..n) \ T
<1>1. SUFFICES ASSUME missing # {} PROVE FALSE
  OBVIOUS
<1>2. missing \in SUBSET Nat
  OBVIOUS
<1>3. \A k \in missing : k \in 0..n /\ k \notin T
  OBVIOUS
<1>4. \A k \in 0..n : k \notin T => k \in missing
  OBVIOUS
<1> HIDE DEF missing
<1>5. PICK k \in missing : \A j \in missing : ~(j < k)
  BY <1>1, <1>2, LeastPlace
<1>6. k # 0 /\ k \in 0..n /\ k - 1 \in 0..n /\ k - 1 # n /\ k - 1 < k /\ k - 1 + 1 = k
  BY <1>3, <1>5
<1>7. k - 1 \in T
  BY <1>4, <1>5, <1>6
<1> QED BY <1>3, <1>5, <1>6, <1>7

(* The labels of an array's axes after each dimension, as AxisDims computes   *)
(* them.                                                                      *)
LabelsOf(shape, dims, n) ==
    CHOOSE f : f = [k \in 0..n |-> IF k = 0 THEN <<>> ELSE Label(shape, f[k - 1], dims[k])]

LEMMA LabelsExist ==
  ASSUME NEW shape, NEW dims, NEW n \in Nat
  PROVE  LET f == LabelsOf(shape, dims, n) IN
         /\ f[0] = <<>>
         /\ \A k \in 1..n : f[k] = Label(shape, f[k - 1], dims[k])
<1> DEFINE Are(f, m) == f = [k \in 0..m |-> IF k = 0 THEN <<>>
                                           ELSE Label(shape, f[k - 1], dims[k])]
           T == {m \in 0..n : \E f : Are(f, m)}
<1>1. 0 \in T
  <2> DEFINE f == [k \in 0..0 |-> <<>>]
  <2>1. Are(f, 0)
    OBVIOUS
  <2>2. \E g : Are(g, 0)
    BY <2>1
  <2> QED BY <2>2
<1>2. ASSUME NEW m \in 0..n, m # n, m \in T PROVE m + 1 \in T
  <2>1. PICK f : Are(f, m)
    BY <1>2
  <2> DEFINE g == [k \in 0..(m + 1) |-> IF k = m + 1 THEN Label(shape, f[m], dims[m + 1])
                                        ELSE f[k]]
  <2>2. \A k \in 0..m : f[k] = IF k = 0 THEN <<>> ELSE Label(shape, f[k - 1], dims[k])
    <3> HIDE DEF g
    <3> QED BY <2>1
  <2>3. \A k \in 0..m : g[k] = f[k]
    OBVIOUS
  <2>4. g[m + 1] = Label(shape, f[m], dims[m + 1])
    OBVIOUS
  <2>5. g = [k \in 0..(m + 1) |-> g[k]]
    OBVIOUS
  <2> HIDE DEF g
  <2>6. ASSUME NEW k \in 0..(m + 1)
        PROVE  g[k] = IF k = 0 THEN <<>> ELSE Label(shape, g[k - 1], dims[k])
    <3>1. CASE k = m + 1
      <4>1. g[m] = f[m] /\ k # 0 /\ k - 1 = m
        BY <2>3, <3>1
      <4> QED BY <2>4, <3>1, <4>1
    <3>2. CASE k = 0
      BY <2>2, <2>3, <3>2
    <3>3. CASE k \in 1..m
      <4>1. k \in 0..m /\ k - 1 \in 0..m /\ k # 0
        BY <3>3
      <4>2. g[k] = f[k] /\ g[k - 1] = f[k - 1]
        BY <2>3, <4>1
      <4> QED BY <2>2, <4>1, <4>2
    <3> QED BY <3>1, <3>2, <3>3
  <2>7. Are(g, m + 1)
    BY <2>5, <2>6
  <2>8. m + 1 \in 0..n /\ \E h : Are(h, m + 1)
    BY <1>2, <2>7
  <2> QED BY <2>8
<1>3. n \in T
  <2>1. \A m \in 0..n : m # n /\ m \in T => m + 1 \in T
    BY <1>2
  <2> HIDE DEF T
  <2> QED BY <1>1, <2>1, CountedUp
<1>4. \E f : Are(f, n)
  BY <1>3
<1>5. Are(LabelsOf(shape, dims, n), n)
  BY <1>4, Zenon DEF LabelsOf
<1> DEFINE g == LabelsOf(shape, dims, n)
<1> HIDE DEF g
<1>6. g = [k \in 0..n |-> IF k = 0 THEN <<>> ELSE Label(shape, g[k - 1], dims[k])]
  BY <1>5 DEF g
<1>7. g[0] = <<>> /\ \A k \in 1..n : g[k] = Label(shape, g[k - 1], dims[k])
  BY <1>6
<1> QED BY <1>7 DEF g

LEMMA AxisDimsLast ==
  ASSUME NEW shape, NEW dims
  PROVE  AxisDims(shape, dims) = LabelsOf(shape, dims, Len(dims))[Len(dims)]
BY Zenon DEF AxisDims, LabelsOf

-----------------------------------------------------------------------------
(* Labels are of dimensions as long as their axes, no two alike, and the first*)
(* dimension keeps the first axis of its length.                              *)
Names(dims) == \A j, k \in DOMAIN dims : dims[j].name = dims[k].name => j = k
LabelsRight(shape, dims, labels, n) ==
    /\ DOMAIN labels \subseteq DOMAIN shape
    /\ \A ax \in DOMAIN labels : \E j \in 1..n :
         dims[j].name = labels[ax] /\ FlatLength(dims[j]) = shape[ax]
    /\ \A x, y \in DOMAIN labels : labels[x] = labels[y] => x = y
    /\ n > 0 => \A ax \in DOMAIN shape :
         /\ shape[ax] = FlatLength(dims[1])
         /\ \A x \in DOMAIN shape : shape[x] = FlatLength(dims[1]) => ax <= x
         => ax \in DOMAIN labels /\ labels[ax] = dims[1].name

LEMMA LeastFree ==
  ASSUME NEW S \in SUBSET Nat, S # {}
  PROVE  Min(S) \in S /\ \A x \in S : Min(S) <= x
<1>1. PICK x \in S : \A y \in S : ~(y < x)
  BY LeastPlace
<1>2. \A y \in S : x \in Int /\ y \in Int
  OBVIOUS
<1>3. \A y \in S : x <= y
  BY <1>1, <1>2
<1>4. \E z \in S : \A y \in S : z <= y
  BY <1>3
<1> QED BY <1>4 DEF Min

LEMMA LabelRight ==
  ASSUME NEW shape \in Seq(Nat), NEW dims, DOMAIN dims = 1..Len(dims), Len(dims) \in Nat,
         Names(dims), NEW n \in 1..Len(dims), NEW labels,
         LabelsRight(shape, dims, labels, n - 1)
  PROVE  LabelsRight(shape, dims, Label(shape, labels, dims[n]), n)
<1> DEFINE d == dims[n]
           free == Free(shape, labels, d)
           new == Label(shape, labels, d)
           ax == Min(free)
<1>1. DOMAIN shape = 1..Len(shape) /\ Len(shape) \in Nat
  OBVIOUS
<1>2. free \in SUBSET Nat /\ free \subseteq DOMAIN shape \ DOMAIN labels
  BY <1>1 DEF Free
<1>3. \A x : x \in free <=> x \in DOMAIN shape \ DOMAIN labels /\ shape[x] = FlatLength(d)
  BY DEF Free
<1>4. n - 1 \in Nat /\ n > 0 /\ n \in DOMAIN dims /\ \A j \in 1..(n - 1) : j \in 1..n /\ j # n
  OBVIOUS
<1>5. /\ DOMAIN labels \subseteq DOMAIN shape
      /\ \A x \in DOMAIN labels : \E j \in 1..(n - 1) :
           dims[j].name = labels[x] /\ FlatLength(dims[j]) = shape[x]
      /\ \A x, y \in DOMAIN labels : labels[x] = labels[y] => x = y
  BY DEF LabelsRight
<1>6. ASSUME n - 1 > 0, NEW x \in DOMAIN shape, shape[x] = FlatLength(dims[1]),
             \A y \in DOMAIN shape : shape[y] = FlatLength(dims[1]) => x <= y
      PROVE  x \in DOMAIN labels /\ labels[x] = dims[1].name
  BY <1>6 DEF LabelsRight
<1>7. CASE free = {}
  <2>1. new = labels
    BY <1>7 DEF Label
  <2>2. n = 1 => labels = labels /\ DOMAIN labels = {}
    <3> SUFFICES ASSUME n = 1 PROVE DOMAIN labels = {}
      OBVIOUS
    <3>1. 1..(n - 1) = {}
      OBVIOUS
    <3> QED BY <1>5, <3>1
  <2>3. ASSUME NEW x \in DOMAIN shape, shape[x] = FlatLength(dims[1]),
               \A y \in DOMAIN shape : shape[y] = FlatLength(dims[1]) => x <= y
        PROVE  x \in DOMAIN labels /\ labels[x] = dims[1].name
    <3>1. CASE n = 1
      BY <1>3, <1>7, <2>2, <2>3, <3>1
    <3>2. CASE n # 1
      BY <1>4, <1>6, <2>3, <3>2
    <3> QED BY <3>1, <3>2
  <2>4. \A x \in DOMAIN labels : \E j \in 1..n :
           dims[j].name = labels[x] /\ FlatLength(dims[j]) = shape[x]
    BY <1>4, <1>5
  <2> HIDE DEF new
  <2> QED BY <1>5, <2>1, <2>3, <2>4 DEF LabelsRight, new
<1>8. CASE free # {}
  <2>1. ax \in free /\ \A x \in free : ax <= x
    BY <1>2, <1>8, LeastFree
  <2>2. new = [x \in DOMAIN labels \cup {ax} |-> IF x \in DOMAIN labels THEN labels[x] ELSE d.name]
    BY <1>8, Zenon DEF Label
  <2> HIDE DEF new, free, ax, d
  <2>3. /\ ax \in DOMAIN shape /\ ax \notin DOMAIN labels /\ shape[ax] = FlatLength(d)
        /\ DOMAIN new = DOMAIN labels \cup {ax} /\ new[ax] = d.name
        /\ \A x \in DOMAIN labels : new[x] = labels[x]
    BY <1>3, <2>1, <2>2
  <2>4. \A x \in DOMAIN labels : labels[x] # d.name
    <3> TAKE x \in DOMAIN labels
    <3>1. PICK j \in 1..(n - 1) : dims[j].name = labels[x]
      BY <1>5
    <3>2. j \in DOMAIN dims /\ n \in DOMAIN dims /\ j # n
      BY <1>4
    <3> QED BY <3>1, <3>2 DEF Names, d
  <2>5. \A x, y \in DOMAIN new : new[x] = new[y] => x = y
    BY <1>5, <2>3, <2>4
  <2>6. ASSUME NEW x \in DOMAIN new
        PROVE  \E j \in 1..n : dims[j].name = new[x] /\ FlatLength(dims[j]) = shape[x]
    <3>1. CASE x = ax
      <4>1. n \in 1..n
        BY <1>4
      <4> QED BY <2>3, <3>1, <4>1 DEF d
    <3>2. CASE x # ax
      BY <1>4, <1>5, <2>3, <2>6, <3>2
    <3> QED BY <3>1, <3>2
  <2>7. ASSUME NEW x \in DOMAIN shape, shape[x] = FlatLength(dims[1]),
               \A y \in DOMAIN shape : shape[y] = FlatLength(dims[1]) => x <= y
        PROVE  x \in DOMAIN new /\ new[x] = dims[1].name
    <3>1. CASE n = 1
      <4>1. 1..(n - 1) = {}
        BY <3>1
      <4>2. x \in free
        BY <1>3, <1>5, <2>7, <3>1, <4>1 DEF d, free
      <4>3. ax <= x /\ x <= ax /\ ax \in Int /\ x \in Int
        BY <1>1, <2>1, <2>3, <2>7, <3>1, <4>2 DEF d
      <4>4. ax = x
        BY <4>3
      <4> QED BY <2>3, <3>1, <4>4 DEF d
    <3>2. CASE n # 1
      BY <1>4, <1>6, <2>3, <2>7, <3>2
    <3> QED BY <3>1, <3>2
  <2>8. DOMAIN new \subseteq DOMAIN shape
    BY <1>5, <2>3
  <2> QED BY <2>5, <2>6, <2>7, <2>8 DEF LabelsRight, new, d
<1> QED BY <1>7, <1>8

LEMMA AxisDimsRight ==
  ASSUME NEW shape \in Seq(Nat), NEW dims, DOMAIN dims = 1..Len(dims), Len(dims) \in Nat,
         Names(dims)
  PROVE  LabelsRight(shape, dims, AxisDims(shape, dims), Len(dims))
<1> DEFINE n == Len(dims)
           f == LabelsOf(shape, dims, n)
           T == {k \in 0..n : LabelsRight(shape, dims, f[k], k)}
<1>1. f[0] = <<>> /\ \A k \in 1..n : f[k] = Label(shape, f[k - 1], dims[k])
  BY LabelsExist
<1>2. AxisDims(shape, dims) = f[n]
  BY AxisDimsLast
<1> HIDE DEF f
<1>3. \A k : k \in T <=> k \in 0..n /\ LabelsRight(shape, dims, f[k], k)
  OBVIOUS
<1> HIDE DEF T, n
<1>4. n \in Nat
  BY DEF n
<1>5. 0 \in T
  <2>1. DOMAIN <<>> = {} /\ ~(0 > 0)
    OBVIOUS
  <2>2. LabelsRight(shape, dims, <<>>, 0)
    BY <2>1 DEF LabelsRight
  <2>3. 0 \in 0..n
    BY <1>4
  <2> QED BY <1>1, <1>3, <2>2, <2>3
<1>6. ASSUME NEW k \in 0..n, k # n, k \in T PROVE k + 1 \in T
  <2>1. k + 1 \in 1..n /\ k + 1 - 1 = k /\ k + 1 \in 0..n
    <3>1. k \in Int /\ 0 <= k /\ k < n
      BY <1>4, <1>6
    <3> QED BY <1>4, <3>1
  <2>2. LabelsRight(shape, dims, f[k], k)
    BY <1>3, <1>6
  <2>3. LabelsRight(shape, dims, Label(shape, f[k], dims[k + 1]), k + 1)
    <3> DEFINE m == k + 1
    <3>1. m \in 1..Len(dims) /\ m - 1 = k
      BY <2>1 DEF n
    <3> HIDE DEF m
    <3>2. LabelsRight(shape, dims, f[k], m - 1)
      BY <2>2, <3>1
    <3>3. LabelsRight(shape, dims, Label(shape, f[k], dims[m]), m)
      BY <3>1, <3>2, LabelRight
    <3> QED BY <3>3 DEF m
  <2>4. f[k + 1] = Label(shape, f[k], dims[k + 1])
    BY <1>1, <2>1
  <2> QED BY <1>3, <2>1, <2>3, <2>4
<1>7. \A k \in 0..n : k # n /\ k \in T => k + 1 \in T
  BY <1>6
<1>8. n \in T
  <2>1. \A k \in 0..n : k \in T
    BY <1>4, <1>5, <1>7, CountedUp
  <2>2. n \in 0..n
    BY <1>4
  <2> QED BY <2>1, <2>2
<1> QED BY <1>2, <1>3, <1>8 DEF n

-----------------------------------------------------------------------------
(* The axes that are kept, in order; the first and the last stay at the ends. *)
LEMMA KeptAxes ==
  ASSUME NEW shape \in Seq(Nat), NEW gone
  PROVE  LET at == Kept(shape, gone)
             axes == DOMAIN shape \ gone IN
         /\ at \in Seq(axes)
         /\ \A ax \in axes : \E k \in DOMAIN at : at[k] = ax
         /\ \A x, y \in DOMAIN at : x < y => at[x] < at[y]
         /\ 1 \in axes => 1 \in DOMAIN at /\ at[1] = 1
         /\ Len(shape) \in axes => Len(at) \in DOMAIN at /\ at[Len(at)] = Len(shape)
<1> DEFINE n == Len(shape)
           keep == [ax \in 1..n |-> ax \notin gone]
           axes == DOMAIN shape \ gone
           at == Kept(shape, gone)
<1>1. n \in Nat /\ DOMAIN keep = 1..n /\ DOMAIN shape = 1..n
  OBVIOUS
<1>2. Where(keep) = axes
  BY <1>1 DEF Where
<1>3. at = Masked(Positions(n), keep)
  BY DEF Kept
<1> HIDE DEF keep, at, axes, n
<1>4. /\ at \in Seq(axes)
      /\ \A k \in DOMAIN at : Rank(axes, at[k]) = k
      /\ \A ax \in axes : \E k \in DOMAIN at : at[k] = ax
  BY <1>1, <1>2, <1>3, MaskedPositions
<1>5. axes \subseteq 1..n
  BY <1>1 DEF axes
<1>5a. Within(axes, n)
  BY <1>1, <1>5 DEF Within
<1>6. DOMAIN at = 1..Len(at) /\ Len(at) \in Nat /\ \A k \in DOMAIN at : at[k] \in axes
  BY <1>4
<1>7. \A k \in DOMAIN at : at[k] \in 1..n /\ at[k] \in Int /\ k \in Int
  <2>1. \A i \in 1..n : i \in Int
    BY <1>1
  <2>2. \A k \in DOMAIN at : k \in Int
    BY <1>6
  <2> QED BY <1>5, <1>6, <2>1, <2>2
<1>8. ASSUME NEW x \in DOMAIN at, NEW y \in DOMAIN at, x < y PROVE at[x] < at[y]
  <2>1. CASE at[y] <= at[x]
    <3>1. Rank(axes, at[y]) <= Rank(axes, at[x])
      <4>1. at[x] \in Int /\ at[y] \in Int
        BY <1>7
      <4> QED BY <1>5a, <2>1, <4>1, RankGrows
    <3>2. y <= x
      BY <1>4, <3>1
    <3> QED BY <1>7, <1>8, <3>2
  <2> QED BY <1>7, <2>1
<1>9. ASSUME 1 \in axes PROVE 1 \in DOMAIN at /\ at[1] = 1
  <2>1. PICK k \in DOMAIN at : at[k] = 1
    BY <1>4, <1>9
  <2>2. k \in 1..Len(at) /\ 1 \in DOMAIN at
    BY <1>6
  <2>3. CASE k = 1
    BY <2>1, <2>2, <2>3
  <2>4. CASE k # 1
    <3>1. 1 < k
      BY <1>6, <2>2, <2>4
    <3>2. at[1] < 1 /\ at[1] \in 1..n
      BY <1>7, <1>8, <2>1, <2>2, <3>1
    <3> QED BY <1>1, <3>2
  <2> QED BY <2>3, <2>4
<1>10. ASSUME n \in axes PROVE Len(at) \in DOMAIN at /\ at[Len(at)] = n
  <2>1. PICK k \in DOMAIN at : at[k] = n
    BY <1>4, <1>10
  <2>2. k \in 1..Len(at) /\ Len(at) \in DOMAIN at
    BY <1>6
  <2>3. CASE k = Len(at)
    BY <2>1, <2>2, <2>3
  <2>4. CASE k # Len(at)
    <3>1. k < Len(at)
      BY <1>6, <2>2, <2>4
    <3>2. n < at[Len(at)] /\ at[Len(at)] \in 1..n
      BY <1>7, <1>8, <2>1, <2>2, <3>1
    <3> QED BY <1>1, <3>2
  <2> QED BY <2>3, <2>4
<1> QED BY <1>4, <1>8, <1>9, <1>10 DEF at, axes, n

(* An array whose labels are right stays so when its axes of one entry go.    *)
Squeezes(shape, made, dims) ==
    /\ made.form = "array" /\ made.dims = dims
    /\ \E at \in [DOMAIN made.shape -> DOMAIN shape] : LongAxesKept(shape, made.shape, at)
    /\ \A x, y \in DOMAIN made.labels : made.labels[x] = made.labels[y] => x = y
    /\ \A x \in DOMAIN made.labels : \E k \in DOMAIN dims :
         dims[k].name = made.labels[x] /\ FlatLength(dims[k]) = made.shape[x]

LEMMA LabelledRight ==
  ASSUME NEW shape \in Seq(Nat), NEW dims, DOMAIN dims = 1..Len(dims), Len(dims) \in Nat,
         Names(dims)
  PROVE  LET made == Labelled(shape, dims)
             first == {ax \in DOMAIN shape : shape[ax] = FlatLength(dims[1])} IN
         /\ Squeezes(shape, made, dims)
         /\ dims # <<>> /\ 1 \in first
              => 1 \in DOMAIN made.labels /\ made.labels[1] = dims[1].name
         /\ dims # <<>> /\ first = {Len(shape)}
              => Len(made.shape) \in DOMAIN made.labels
                   /\ made.labels[Len(made.shape)] = dims[1].name
<1> DEFINE labels == AxisDims(shape, dims)
           gone == SqueezeAxes(shape, labels)
           at == Kept(shape, gone)
           axes == DOMAIN shape \ gone
           rest == Squeezed(shape, gone)
           renamed == Renumbered(shape, labels, gone)
           made == Labelled(shape, dims)
           first == {ax \in DOMAIN shape : shape[ax] = FlatLength(dims[1])}
<1>1. LabelsRight(shape, dims, labels, Len(dims))
  BY AxisDimsRight
<1>2. /\ at \in Seq(axes)
      /\ \A ax \in axes : \E k \in DOMAIN at : at[k] = ax
      /\ \A x, y \in DOMAIN at : x < y => at[x] < at[y]
      /\ 1 \in axes => 1 \in DOMAIN at /\ at[1] = 1
      /\ Len(shape) \in axes => Len(at) \in DOMAIN at /\ at[Len(at)] = Len(shape)
  BY KeptAxes
<1>3. DOMAIN shape = 1..Len(shape) /\ Len(shape) \in Nat
  OBVIOUS
<1>4. \A ax \in DOMAIN shape : ax \in gone <=> ax \notin DOMAIN labels /\ shape[ax] = 1
  BY DEF SqueezeAxes
<1>5. rest = [k \in DOMAIN at |-> shape[at[k]]]
  BY DEF Squeezed
<1>6. renamed = [k \in {k \in DOMAIN at : at[k] \in DOMAIN labels} |-> labels[at[k]]]
  BY DEF Renumbered
<1>7. made = DataArray(rest, renamed, dims)
  BY DEF Labelled
<1> HIDE DEF made, renamed, rest, at, gone, labels
<1>8. \A k \in DOMAIN at : at[k] \in axes /\ at[k] \in DOMAIN shape
  BY <1>2
<1>9. \A x, y \in DOMAIN at : at[x] = at[y] => x = y
  <2>1. \A x \in DOMAIN at : x \in Int /\ at[x] \in Int
    BY <1>2, <1>3, <1>8
  <2> TAKE x, y \in DOMAIN at
  <2>2. ~(at[x] < at[x]) /\ ~(at[y] < at[y])
    BY <2>1
  <2>3. at[x] = at[y] => ~(x < y) /\ ~(y < x)
    BY <1>2, <2>2
  <2> QED BY <2>1, <2>3
<1>10. \A x : x \in DOMAIN renamed <=> x \in DOMAIN at /\ at[x] \in DOMAIN labels
  BY <1>6
<1>11. \A x \in DOMAIN renamed : renamed[x] = labels[at[x]]
  BY <1>6, <1>10
<1>12. \A x \in DOMAIN rest : rest[x] = shape[at[x]]
  BY <1>5
<1>13. DOMAIN rest = DOMAIN at
  BY <1>5
<1>14. ASSUME NEW x \in DOMAIN renamed
       PROVE  \E k \in DOMAIN dims : dims[k].name = renamed[x] /\ FlatLength(dims[k]) = rest[x]
  <2>1. at[x] \in DOMAIN labels
    BY <1>10
  <2>2. PICK k \in 1..Len(dims) : dims[k].name = labels[at[x]] /\ FlatLength(dims[k]) = shape[at[x]]
    BY <1>1, <2>1 DEF LabelsRight
  <2> QED BY <1>10, <1>11, <1>12, <1>13, <2>2
<1>15. made = [form |-> "array", shape |-> rest, labels |-> renamed, dims |-> dims]
  BY <1>7, <1>10, <1>13, <1>14 DEF DataArray
<1>16. LongAxesKept(shape, rest, at)
  <2>1. ASSUME NEW ax \in DOMAIN shape, shape[ax] # 1
        PROVE  \E x \in DOMAIN rest : at[x] = ax
    <3>1. ax \in axes
      BY <1>4, <2>1
    <3> QED BY <1>2, <1>13, <3>1
  <2>2. \A x, y \in DOMAIN rest : x < y => at[x] < at[y]
    BY <1>2, <1>13
  <2> QED BY <1>12, <2>1, <2>2 DEF LongAxesKept
<1>17. at \in [DOMAIN rest -> DOMAIN shape]
  BY <1>2, <1>8, <1>13
<1>18. \A x, y \in DOMAIN renamed : renamed[x] = renamed[y] => x = y
  <2>1. \A x, y \in DOMAIN labels : labels[x] = labels[y] => x = y
    BY <1>1 DEF LabelsRight
  <2> QED BY <1>9, <1>10, <1>11, <2>1
<1>19. Squeezes(shape, made, dims)
  BY <1>14, <1>15, <1>16, <1>17, <1>18 DEF Squeezes
<1>20. ASSUME dims # <<>>, NEW ax \in first, \A x \in first : ax <= x
       PROVE  ax \in axes /\ ax \in DOMAIN labels /\ labels[ax] = dims[1].name
  <2>1. Len(dims) > 0
    BY <1>20
  <2>2. ax \in DOMAIN shape /\ shape[ax] = FlatLength(dims[1])
    OBVIOUS
  <2>3. \A x \in DOMAIN shape : shape[x] = FlatLength(dims[1]) => ax <= x
    BY <1>20
  <2>4. \A y \in DOMAIN shape :
            /\ shape[y] = FlatLength(dims[1])
            /\ \A x \in DOMAIN shape : shape[x] = FlatLength(dims[1]) => y <= x
            => y \in DOMAIN labels /\ labels[y] = dims[1].name
    BY <1>1, <2>1, Zenon DEF LabelsRight
  <2>5. ax \in DOMAIN labels /\ labels[ax] = dims[1].name
    BY <2>2, <2>3, <2>4
  <2> QED BY <1>4, <2>2, <2>5
<1>21. ASSUME dims # <<>>, 1 \in first
       PROVE  1 \in DOMAIN made.labels /\ made.labels[1] = dims[1].name
  <2>1. \A x \in first : 1 <= x
    BY <1>3
  <2>2. 1 \in axes /\ 1 \in DOMAIN labels /\ labels[1] = dims[1].name
    BY <1>20, <1>21, <2>1
  <2>3. 1 \in DOMAIN renamed /\ renamed[1] = dims[1].name
    BY <1>2, <1>10, <1>11, <2>2
  <2> QED BY <1>15, <2>3
<1>22. ASSUME dims # <<>>, first = {Len(shape)}
       PROVE  Len(made.shape) \in DOMAIN made.labels
                /\ made.labels[Len(made.shape)] = dims[1].name
  <2>1. Len(shape) \in first /\ \A x \in first : Len(shape) <= x
    BY <1>3, <1>22
  <2> HIDE DEF first
  <2>2. /\ Len(shape) \in axes /\ Len(shape) \in DOMAIN labels
        /\ labels[Len(shape)] = dims[1].name
    BY <1>20, <1>22, <2>1
  <2>3. Len(at) \in DOMAIN renamed /\ renamed[Len(at)] = dims[1].name
    BY <1>2, <1>10, <1>11, <2>2
  <2>4. Len(rest) = Len(at)
    BY <1>2, <1>5
  <2> QED BY <1>15, <2>3, <2>4
<1> QED BY <1>19, <1>21, <1>22 DEF made

-----------------------------------------------------------------------------
(* What an array is shaped like: its first axis, if any, holds the cells.     *)
Arrayed(v, data) ==
    /\ data.shape \in Seq(Nat)
    /\ v.axis => data.shape # <<>> /\ data.shape[1] = Len(data.cells)

LEMMA FirstAxis ==
  ASSUME NEW n \in Nat, NEW s \in Seq(Nat)
  PROVE  LET shape == << n >> \o s IN
         shape \in Seq(Nat) /\ Len(shape) = Len(s) + 1 /\ shape # <<>> /\ shape[1] = n
<1> DEFINE shape == << n >> \o s
<1>1. shape \in Seq(Nat) /\ Len(shape) = Len(s) + 1 /\ Len(s) \in Nat
  OBVIOUS
<1>2. shape[1] = n
  OBVIOUS
<1> HIDE DEF shape
<1>3. shape # <<>>
  BY <1>1
<1> QED BY <1>1, <1>2, <1>3 DEF shape

LEMMA StackArrayed ==
  ASSUME NEW v, v.shapes \in Seq(Seq(Nat)), NEW cells \in Seq(Slots(v))
  PROVE  Arrayed(v, StackOrObject(v, cells))
<1>1. Len(cells) \in Nat
  OBVIOUS
<1>2. CASE cells = <<>>
  BY <1>2 DEF StackOrObject, Arrayed
<1>3. CASE cells # <<>>
  <2>1. v.shapes[cells[1]] \in Seq(Nat)
    <3>1. cells[1] \in Slots(v)
      BY <1>3
    <3> QED BY <3>1 DEF Slots
  <2>2. StackOrObject(v, cells).shape
           \in {<<Len(cells)>>, <<Len(cells)>> \o v.shapes[cells[1]]}
    BY <1>3 DEF StackOrObject, ObjectArray
  <2>3. <<Len(cells)>> \in Seq(Nat) /\ <<Len(cells)>> # <<>> /\ <<Len(cells)>>[1] = Len(cells)
    BY <1>1
  <2>4. LET shape == <<Len(cells)>> \o v.shapes[cells[1]] IN
        shape \in Seq(Nat) /\ shape # <<>> /\ shape[1] = Len(cells)
    BY <1>1, <2>1, FirstAxis
  <2> QED BY <2>2, <2>3, <2>4, StackCells DEF Arrayed
<1> QED BY <1>2, <1>3

LEMMA ToNumpyArrayed ==
  ASSUME NEW v, v.shapes \in Seq(Seq(Nat))
  PROVE  Arrayed(v, ToNumpy(v))
<1> DEFINE cells == Positions(Len(v.shapes))
<1>1. cells \in Seq(Slots(v))
  BY DEF Positions, Slots
<1>2. CASE ~v.axis
  BY <1>2 DEF ToNumpy, Arrayed
<1>3. CASE v.axis /\ v.boxed
  <2>1. ToNumpy(v).shape = <<Len(cells)>> /\ ToNumpy(v).cells = cells
    BY <1>3 DEF ToNumpy, ObjectArray
  <2> HIDE DEF cells
  <2>2. Len(cells) \in Nat
    BY <1>1
  <2>3. <<Len(cells)>> \in Seq(Nat) /\ <<Len(cells)>> # <<>> /\ <<Len(cells)>>[1] = Len(cells)
    BY <2>2
  <2> QED BY <2>1, <2>3 DEF Arrayed
<1>4. CASE v.axis /\ ~v.boxed
  BY <1>1, <1>4, StackArrayed DEF ToNumpy
<1> QED BY <1>2, <1>3, <1>4

LEMMA FilledArrayed ==
  ASSUME NEW v, v.shapes \in Seq(Seq(Nat))
  PROVE  Arrayed(v, Filled(v))
<1> DEFINE n == Len(v.shapes)
<1>1. n \in Nat /\ Positions(n) \in Seq(Slots(v)) /\ Len(Positions(n)) = n /\ Len(Padded(v)) = n
  BY DEF Positions, Padded, Slots
<1>2. CASE Holes(v) = Slots(v)
  <2>1. Filled(v).shape = <<n, 0>> /\ Filled(v).cells = Positions(n)
    BY <1>2 DEF Filled
  <2> HIDE DEF n
  <2>2. <<n, 0>> \in Seq(Nat) /\ <<n, 0>> # <<>> /\ <<n, 0>>[1] = n
    BY <1>1
  <2> QED BY <1>1, <2>1, <2>2 DEF Arrayed
<1>3. CASE Holes(v) # Slots(v) /\ Filled(v) = StackOrObject(v, Positions(n))
  BY <1>1, <1>3, StackArrayed
<1>4. CASE Holes(v) # Slots(v) /\ Filled(v) # StackOrObject(v, Positions(n))
  <2> DEFINE inner == CHOOSE s \in InnerShapes(v) : TRUE
  <2>1. Filled(v).shape = <<n>> \o inner /\ Filled(v).cells = Padded(v)
    BY <1>4 DEF Filled
  <2>2. InnerShapes(v) # {}
    BY <1>4 DEF InnerShapes, Holes
  <2>3. InnerShapes(v) \subseteq Seq(Nat)
    BY DEF InnerShapes, Slots
  <2>4. inner \in Seq(Nat)
    BY <2>2, <2>3
  <2> HIDE DEF n, inner
  <2>5. LET shape == <<n>> \o inner IN
        shape \in Seq(Nat) /\ shape # <<>> /\ shape[1] = n
    BY <1>1, <2>4, FirstAxis
  <2> QED BY <1>1, <2>1, <2>5 DEF Arrayed
<1> QED BY <1>2, <1>3, <1>4

(* Whatever a leaf's layout.                                                  *)
LEMMA LayoutArrayed ==
  ASSUME NEW v, v.shapes \in Seq(Seq(Nat)), NEW times, times # None => IsValue(times),
         NEW layout \in Layout, NEW split, NEW hint,
         NEW out, out = ApplyLayout(v, times, layout, split, hint)
  PROVE  Arrayed(v, out.data)
<1> DEFINE onTime == IsTimeAxis(v, times, split, hint)
<1>1. CASE layout \in {"awkward", "ragged"} \/ ~onTime
  <2>1. out.data.shape = ToNumpy(v).shape /\ out.data.cells = ToNumpy(v).cells
    <3>1. /\ [ToNumpy(v) EXCEPT !.form = "same"].shape = ToNumpy(v).shape
          /\ [ToNumpy(v) EXCEPT !.form = "same"].cells = ToNumpy(v).cells
      BY DEF ToNumpy, ObjectArray, StackOrObject
    <3> QED BY <1>1, <3>1 DEF ApplyLayout
  <2> QED BY <2>1, ToNumpyArrayed DEF Arrayed
<1>2. CASE layout = "compact" /\ onTime
  <2>1. out.data = StackOrObject(v, Left(v))
    BY <1>2, LayoutCases
  <2>2. Left(v) \in Seq(Slots(v))
    <3>1. NotEmpty(v) \subseteq Slots(v) /\ Left(v) \in Seq(NotEmpty(v))
      BY LeftEntries DEF NotEmpty
    <3> QED BY <3>1
  <2> QED BY <2>1, <2>2, StackArrayed
<1>3. CASE layout = "filled" /\ onTime
  BY <1>3, LayoutCases, FilledArrayed
<1> QED BY <1>1, <1>2, <1>3 DEF Layout

LEMMA TailOfOne ==
  ASSUME NEW s \in Seq(Nat), Len(s) = 1
  PROVE  Tail(s) \in Seq(Nat) /\ Len(Tail(s)) = 0
<1>1. s # <<>>
  <2>1. s = <<>> => Len(s) = 0
    BY EmptySeq
  <2> QED BY <2>1
<1>2. Tail(s) \in Seq(Nat) /\ Len(Tail(s)) = Len(s) - 1
  BY <1>1, HeadTailProperties
<1> QED BY <1>2

(* The times of a result label what is as long as they are.                   *)
LEMMA TimesLength ==
  ASSUME NEW v, NEW times, times # None => IsValue(times), NEW split, NEW hint,
         IsTimeAxis(v, times, split, hint), NEW d, d.name = "times", NEW left,
         Len(left) \in Nat
  PROVE  FlatLength(Gathered(d, times, left)) = Len(left)
<1> DEFINE s == ToNumpy(times).shape
           shape == <<Len(left)>> \o Tail(s)
<1>1. times # None /\ Len(s) = 1 /\ IsValue(times)
  BY DEF IsTimeAxis
<1>2. times.axis
  BY <1>1 DEF ToNumpy, IsValue
<1>3. Gathered(d, times, left).shape = shape
  BY <1>1, <1>2 DEF Gathered
<1>4. s \in Seq(Nat)
  BY <1>1, ToNumpyArrayed DEF Arrayed, IsValue
<1> HIDE DEF s
<1>5. Tail(s) \in Seq(Nat) /\ Len(Tail(s)) = 0
  BY <1>1, <1>4, TailOfOne
<1>6. Len(shape) = 1 /\ shape[1] = Len(left)
  BY <1>5, FirstAxis
<1> HIDE DEF shape
<1> QED BY <1>3, <1>6 DEF FlatLength
(* An array is the labelled one of its gathered value and dimensions.         *)
ArrayMade ==
    input.what = "leaf" /\ array # None /\ array # NotImplemented =>
        /\ output # None
        /\ \E dims \in Dims :
             array = Labelled(output.data.shape, Result(dims, input.times, output.times))

LEMMA ArrayMadeAlways == XarraySpec => []ArrayMade
<1>1. XarrayInit => ArrayMade
  BY DEF XarrayInit, ArrayMade
<1>2. ArrayMade /\ [XarrayNext]_<<vars, array>> => ArrayMade'
  <2> SUFFICES ASSUME ArrayMade, [XarrayNext]_<<vars, array>> PROVE ArrayMade'
    OBVIOUS
  <2>1. CASE array = None /\ Next /\ UNCHANGED array
    BY <2>1 DEF ArrayMade
  <2>2. CASE UNCHANGED <<input, output, array>>
    BY <2>2 DEF ArrayMade
  <2>3. CASE FetchLeaf
    BY <2>3 DEF ArrayMade, FetchLeaf
  <2>4. CASE FetchPrefix \/ GatherChannels \/ FetchChannels
    BY <2>4 DEF ArrayMade, FetchPrefix, GatherChannels, FetchChannels
  <2> QED BY <2>1, <2>2, <2>3, <2>4 DEF XarrayNext, vars
<1> QED BY <1>1, <1>2, PTL DEF XarraySpec

LEMMA ResultNames ==
  ASSUME NEW dims, AreDims(dims), NEW times, NEW left
  PROVE  LET result == Result(dims, times, left) IN
         /\ DOMAIN result = 1..Len(result) /\ Len(result) \in Nat /\ Names(result)
         /\ result # <<>> => 1 \in DOMAIN result /\ result[1] = Gathered(dims[1], times, left)
                               /\ result[1].name = dims[1].name
<1> DEFINE result == Result(dims, times, left)
<1>1. result = [k \in DOMAIN dims |-> Gathered(dims[k], times, left)]
  BY DEF Result
<1>2. DOMAIN dims = 1..Len(dims) /\ Len(dims) \in Nat
  BY DEF AreDims
<1> HIDE DEF result
<1>3. Len(result) = Len(dims) /\ DOMAIN result = DOMAIN dims
  BY <1>1, <1>2
<1>4. \A k \in DOMAIN dims : result[k] = Gathered(dims[k], times, left)
                               /\ result[k].name = dims[k].name
  BY <1>1 DEF Gathered
<1>5. Names(result)
  BY <1>3, <1>4 DEF Names, AreDims
<1>6. result # <<>> => 1 \in DOMAIN dims
  <2>1. CASE Len(dims) = 0
    <3>1. DOMAIN dims = {}
      BY <1>2, <2>1
    <3>2. result = [k \in {} |-> Gathered(dims[k], times, left)]
      BY <1>1, <3>1
    <3> QED BY <3>2
  <2>2. CASE Len(dims) # 0
    BY <1>2, <2>2
  <2> QED BY <2>1, <2>2
<1> QED BY <1>2, <1>3, <1>4, <1>5, <1>6 DEF result

(* Whatever a leaf's value, layout and dimensions are, the labels of its      *)
(* array are those of its axes, the time axis among them, and no axis of more *)
(* or less than one entry is lost (_build_axis_dims and                       *)
(* fetch_as_xarray).                                                          *)
THEOREM XarrayAxesLabelled == XarraySpec => []AxesLabelled
<1>1. ASSUME Shaped, ArrayMade PROVE AxesLabelled
  <2> DEFINE v == input.value
             times == input.times
             left == output.times
             shape == output.data.shape
             onTime == IsTimeAxis(v, times, input.split, input.hint)
  <2> SUFFICES ASSUME input.what = "leaf", array # None, array # NotImplemented
               PROVE  /\ array.form = "array"
                      /\ \E at \in [DOMAIN array.shape -> DOMAIN shape] :
                           LongAxesKept(shape, array.shape, at)
                      /\ \A x, y \in DOMAIN array.labels :
                           array.labels[x] = array.labels[y] => x = y
                      /\ \A x \in DOMAIN array.labels : \E k \in DOMAIN array.dims :
                           /\ array.dims[k].name = array.labels[x]
                           /\ FlatLength(array.dims[k]) = array.shape[x]
                      /\ array.dims # <<>> /\ array.dims[1].name = "times" =>
                           /\ onTime => LabelledTimes(1)
                           /\ array.dims[1].same /\ array.dims[1].shape = shape
                                /\ Len(shape) = 2 /\ shape[1] # shape[2]
                                => LabelledTimes(Len(array.shape))
    BY DEF AxesLabelled
  <2>1. output # None
    BY <1>1 DEF ArrayMade
  <2>2. PICK dims \in Dims : array = Labelled(shape, Result(dims, times, left))
    BY <1>1 DEF ArrayMade
  <2>3. /\ v \in Values /\ times \in Times /\ input.layout \in Layout
        /\ output = ApplyLayout(v, times, input.layout, input.split, input.hint)
    BY <1>1, <2>1, LeafInput DEF Out
  <2>4. v.shapes \in Seq(Seq(Nat)) /\ v.axis \in BOOLEAN /\ (times # None => IsValue(times))
    BY <2>3, ValuesAssumption DEF IsValue
  <2>5. Arrayed(v, output.data)
    BY <2>3, <2>4, LayoutArrayed
  <2>6. AreDims(dims)
    BY <2>2, DimsAssumption
  <2> DEFINE result == Result(dims, times, left)
             first == {ax \in DOMAIN shape : shape[ax] = FlatLength(result[1])}
  <2> HIDE DEF v, times, left, shape, onTime
  <2>7. shape \in Seq(Nat)
    BY <2>5 DEF Arrayed, shape
  <2>8. /\ DOMAIN result = 1..Len(result) /\ Len(result) \in Nat /\ Names(result)
        /\ result # <<>> => 1 \in DOMAIN result /\ result[1] = Gathered(dims[1], times, left)
                               /\ result[1].name = dims[1].name
    BY <2>6, ResultNames
  <2>9. /\ Squeezes(shape, array, result)
        /\ result # <<>> /\ 1 \in first
             => 1 \in DOMAIN array.labels /\ array.labels[1] = result[1].name
        /\ result # <<>> /\ first = {Len(shape)}
             => Len(array.shape) \in DOMAIN array.labels
                  /\ array.labels[Len(array.shape)] = result[1].name
    BY <2>2, <2>7, <2>8, LabelledRight
  <2>10. array.dims = result
    BY <2>9 DEF Squeezes
  <2>11. ASSUME result # <<>>, result[1].name = "times", onTime PROVE 1 \in first
    <3>1. v.axis /\ Len(output.data.cells) = Len(left)
      <4>1. AlongTimes(v, times, input.split, input.hint, output)
        BY <2>3, <2>4, TimesKept
      <4>2. v.axis
        BY <2>11 DEF onTime, IsTimeAxis
      <4> QED BY <2>11, <4>1, <4>2 DEF AlongTimes, onTime, left
    <3>2. shape # <<>> /\ shape[1] = Len(left)
      BY <2>5, <3>1 DEF Arrayed, shape
    <3>3. 1 \in DOMAIN shape /\ Len(left) \in Nat
      BY <2>7, <3>2
    <3>4. FlatLength(result[1]) = Len(left)
      BY <2>4, <2>8, <2>11, <3>3, TimesLength DEF onTime
    <3> QED BY <3>2, <3>3, <3>4
  <2>12. ASSUME result[1].same, result[1].shape = shape, Len(shape) = 2, shape[1] # shape[2]
         PROVE  first = {Len(shape)}
    <3>1. FlatLength(result[1]) = shape[2]
      BY <2>12 DEF FlatLength
    <3>2. DOMAIN shape = {1, 2}
      BY <2>7, <2>12
    <3> QED BY <2>12, <3>1, <3>2
  <2> HIDE DEF result, first
  <2> QED BY <2>9, <2>10, <2>11, <2>12 DEF Squeezes, LabelledTimes
<1> QED BY <1>1, ShapedAlways, ArrayMadeAlways, PTL
=============================================================================
