------------------------------ MODULE ImasLayout ------------------------------
(* The shapes an ImasSignal gives a composed value: apply_layout for a leaf,  *)
(* apply_layout_prefix for a batch of leaves, from                            *)
(* src/toksearch_d3d/signal/imas_layout.py.                                   *)
(*                                                                            *)
(* A value is the shapes of its outer entries; an entry is followed by its    *)
(* position, and a cell 0 is one that was filled with NaN.                    *)
EXTENDS Integers, Sequences, FiniteSets

CONSTANTS Values,  \* the values asked for alone
          Times,   \* the times dimensions they come with, None if absent
          Batches, \* the batches of a prefix: sequences of leaves
          None

Kind == {"float", "int", "text"}
(* boxed: an object array of entries, not an ak.Array or a list of them;      *)
(* axis: FALSE for a scalar, which has no outer axis.                         *)
IsValue(v) == /\ v.kind \in Kind /\ v.boxed \in BOOLEAN /\ v.axis \in BOOLEAN
              /\ v.shapes \in Seq(Seq(Nat))
ASSUME ValuesAssumption == \A v \in Values \cup (Times \ {None}) : IsValue(v)
ASSUME BatchesAssumption ==
    \A batch \in Batches : \A i \in DOMAIN batch :
        IsValue(batch[i].value) /\ batch[i].time \in BOOLEAN /\ batch[i].hint \in BOOLEAN

VARIABLES input, output

vars == <<input, output>>

Layout == {"compact", "filled", "ragged", "awkward"}
PrefixLayout == Layout \ {"compact"}

-----------------------------------------------------------------------------
Slots(v) == 1..Len(v.shapes)
NonEmpty(v, i) == \A k \in DOMAIN v.shapes[i] : v.shapes[i][k] # 0
Holes(v) == {i \in Slots(v) : ~NonEmpty(v, i)}
InnerShapes(v) == {v.shapes[i] : i \in Slots(v) \ Holes(v)}

Positions(n) == [i \in 1..n |-> i]

(* The array of some of a value's entries: rectangular, or entry by entry.    *)
ObjectArray(v, cells) ==
    [form |-> "object", shape |-> <<Len(cells)>>, cells |-> cells]
StackOrObject(v, cells) ==
    IF cells = <<>> THEN [form |-> "array", shape |-> <<0>>, cells |-> <<>>]
    ELSE IF \A i \in DOMAIN cells : v.shapes[cells[i]] = v.shapes[cells[1]]
    THEN [form |-> "array", shape |-> <<Len(cells)>> \o v.shapes[cells[1]],
          cells |-> cells]
    ELSE ObjectArray(v, cells)

(* to_numpy leaves an object array what it is.                                *)
ToNumpy(v) ==
    IF ~v.axis THEN [form |-> "array", shape |-> <<>>, cells |-> <<1>>]
    ELSE IF v.boxed THEN ObjectArray(v, Positions(Len(v.shapes)))
    ELSE StackOrObject(v, Positions(Len(v.shapes)))

(* Faulty variant: a flat array of the same length is enough.                 *)
LengthMatches(v, times, split, hint) ==
    /\ ~split /\ times # None
    /\ LET t == ToNumpy(times) IN
         /\ t.form = "array" /\ Len(t.shape) = 1 /\ times.kind # "text"
         /\ v.axis /\ Len(v.shapes) = t.shape[1]

IsTimeAxis(v, times, split, hint) ==
    /\ ~split /\ ~hint /\ times # None
    /\ LET t == ToNumpy(times) IN
         /\ t.form = "array" /\ Len(t.shape) = 1 /\ times.kind # "text"
         /\ v.axis /\ Len(v.shapes) = t.shape[1]

-----------------------------------------------------------------------------
Failure == [form |-> "error", shape |-> <<>>, cells |-> <<>>]

(* An array indexed by a mask, which must be as long as its first axis: the   *)
(* entries where the mask is set, in order.                                   *)
Rank(kept, i) == Cardinality(kept \cap 1..i)
Masked(cells, keep) ==
    LET kept == {i \in DOMAIN keep : keep[i]} IN
    [k \in 1..Cardinality(kept) |->
        cells[CHOOSE i \in kept : Rank(kept, i) = k]]

(* Faulty variants: the times keep the empty slots' entries; the entries left *)
(* are not stacked.                                                           *)
CompactDataOnly(v, times) ==
    LET keep == [i \in Slots(v) |-> NonEmpty(v, i)] IN
    [data |-> StackOrObject(v, Masked(Positions(Len(v.shapes)), keep)),
     times |-> Positions(Len(times.shapes))]

CompactUnstacked(v, times) ==
    LET keep == [i \in Slots(v) |-> NonEmpty(v, i)] IN
    [data |-> ObjectArray(v, Masked(Positions(Len(v.shapes)), keep)),
     times |-> Masked(Positions(Len(times.shapes)), keep)]

Compact(v, times) ==
    LET keep == [i \in Slots(v) |-> NonEmpty(v, i)] IN
    IF Len(times.shapes) # Len(v.shapes) THEN [data |-> Failure, times |-> <<>>]
    ELSE [data |-> StackOrObject(v, Masked(Positions(Len(v.shapes)), keep)),
          times |-> Masked(Positions(Len(times.shapes)), keep)]

Padded(v) == [i \in Slots(v) |-> IF NonEmpty(v, i) THEN i ELSE 0]

(* Faulty variants: ragged entries are padded too; holes are dropped.         *)
FilledRagged(v) ==
    IF Holes(v) = {} THEN StackOrObject(v, Positions(Len(v.shapes)))
    ELSE [form |-> "array", shape |-> <<Len(v.shapes), 0>>, cells |-> Padded(v)]
FilledByDropping(v) ==
    StackOrObject(v, SelectSeq(Positions(Len(v.shapes)), LAMBDA i : NonEmpty(v, i)))

(* Padding takes one inner shape to pad to, and a kind that has a NaN.        *)
Filled(v) ==
    IF Holes(v) = Slots(v)
    THEN [form |-> "array", shape |-> <<Len(v.shapes), 0>>,
          cells |-> Positions(Len(v.shapes))]
    ELSE IF \/ Holes(v) = {}
            \/ \E s, t \in InnerShapes(v) : s # t
            \/ v.kind # "float"
    THEN StackOrObject(v, Positions(Len(v.shapes)))
    ELSE [form |-> "array",
          shape |-> <<Len(v.shapes)>> \o (CHOOSE s \in InnerShapes(v) : TRUE),
          cells |-> Padded(v)]

TimesOf(times) == IF times = None THEN <<>> ELSE Positions(Len(times.shapes))
ApplyLayout(v, times, layout, split, hint) ==
    IF layout = "awkward"
    THEN [data |-> [ToNumpy(v) EXCEPT !.form = "same"], times |-> TimesOf(times)]
    ELSE IF layout = "ragged" \/ ~IsTimeAxis(v, times, split, hint)
    THEN [data |-> ToNumpy(v), times |-> TimesOf(times)]
    ELSE IF layout = "compact" THEN Compact(v, times)
    ELSE [data |-> Filled(v), times |-> TimesOf(times)]

-----------------------------------------------------------------------------
(* The first flat array among the leaves whose path ends in .time.            *)
FlatTime(leaf) == /\ leaf.time /\ Len(ToNumpy(leaf.value).shape) = 1
                  /\ ToNumpy(leaf.value).form = "array"
SharedTime(batch) ==
    LET flat == {i \in DOMAIN batch : FlatTime(batch[i])} IN
    IF flat = {} THEN None
    ELSE batch[CHOOSE i \in flat : \A j \in flat : i <= j].value

(* Faulty variant: the entity names are not looked at.                        *)
PrefixWithoutHints(batch, layout) ==
    LET shared == SharedTime(batch) IN
    [i \in DOMAIN batch |->
       ApplyLayout(batch[i].value, shared, layout, FALSE, FALSE).data]

ApplyLayoutPrefix(batch, layout) ==
    LET shared == SharedTime(batch) IN
    [i \in DOMAIN batch |->
       LET v == batch[i].value IN
       IF layout = "awkward" THEN [ToNumpy(v) EXCEPT !.form = "same"]
       ELSE IF layout = "ragged" \/ ~IsTimeAxis(v, shared, FALSE, batch[i].hint)
       THEN ToNumpy(v)
       ELSE ApplyLayout(v, shared, layout, FALSE, FALSE).data]

-----------------------------------------------------------------------------
Alone == [what : {"leaf"}, value : Values, times : Times, layout : Layout,
          split : BOOLEAN, hint : BOOLEAN]
Together == [what : {"prefix"}, batch : Batches, layout : PrefixLayout]

Init == input \in Alone \cup Together /\ output = None

GatherLeaf ==
    /\ output = None /\ input.what = "leaf"
    /\ output' = ApplyLayout(input.value, input.times, input.layout, input.split,
                             input.hint)
    /\ UNCHANGED input
GatherPrefix ==
    /\ output = None /\ input.what = "prefix"
    /\ output' = ApplyLayoutPrefix(input.batch, input.layout)
    /\ UNCHANGED input

Next == GatherLeaf \/ GatherPrefix

Spec == Init /\ [][Next]_vars

-----------------------------------------------------------------------------
Out(what) == output # None /\ input.what = what

(* Entry i of the data belongs to entry i of the times, whatever was dropped  *)
(* or filled: the position of each entry is that of its time, if the outer    *)
(* axis is one, and no layout fails.                                          *)
DataMatchesTimes ==
    Out("leaf") =>
        /\ output.data.form # "error"
        /\ IsTimeAxis(input.value, input.times, input.split, input.hint) =>
             /\ Len(output.data.cells) = Len(output.times)
             /\ \A i \in DOMAIN output.times : output.data.cells[i] \in {0, output.times[i]}

(* On an axis that is not known to be time nothing moves, so that entries     *)
(* still match the sibling names by position.                                 *)
NamesMatch ==
    Out("leaf") /\ input.value.axis
      /\ (input.split \/ input.hint \/ input.times = None
            \/ Len(input.times.shapes) # Len(input.value.shapes))
      => output.data.cells = Positions(Len(input.value.shapes))

(* No layout invents data: only an empty slot is ever filled, one of a kind   *)
(* that has a NaN, and only when all others have the inner shape of the       *)
(* result.                                                                    *)
NothingFabricated ==
    Out("leaf") => \A i \in DOMAIN output.data.cells :
        output.data.cells[i] = 0 =>
            /\ input.value.kind = "float" /\ i \in Holes(input.value)
            /\ InnerShapes(input.value) = {Tail(output.data.shape)}

(* compact gives a rectangular array when one inner shape remains, and        *)
(* filled the same wherever there are entries and none is empty.              *)
Rectangular ==
    Out("leaf") /\ IsTimeAxis(input.value, input.times, input.split, input.hint) =>
        /\ input.layout = "compact" =>
             (output.data.form = "array"
                <=> \A s, t \in InnerShapes(input.value) : s = t)
        /\ input.layout = "filled" /\ Holes(input.value) = {} /\ Slots(input.value) # {} =>
             output.data = Compact(input.value, input.times).data

(* Entries keep to their times or names, in every layout.                     *)
EntriesKept == DataMatchesTimes /\ NamesMatch

(* A layout is as rectangular as it promises, and makes nothing up for it.    *)
ShapeAsPromised == NothingFabricated /\ Rectangular

(* The leaves of a batch that are indexed by its time axis stay so.           *)
BatchAligned ==
    Out("prefix") /\ SharedTime(input.batch) # None =>
        \A i \in DOMAIN input.batch :
            LET v == input.batch[i].value IN
            v.axis => output[i].cells \in [Slots(v) -> {0} \cup Slots(v)]
                      /\ Len(output[i].cells) = Len(v.shapes)

(* A leaf has the same shape in a batch as alone with the same time axis.     *)
BatchAsAlone ==
    Out("prefix") => \A i \in DOMAIN input.batch :
        output[i] = ApplyLayout(input.batch[i].value, SharedTime(input.batch),
                                input.layout, FALSE, input.batch[i].hint).data

(* A batch of leaves keeps its common axis, and none is shaped unlike alone.  *)
BatchKept == BatchAligned /\ BatchAsAlone
=============================================================================
