------------------------------ MODULE ImasXarray ------------------------------
(* What ImasSignal.fetch_as_xarray makes of a gathered value: a DataArray     *)
(* whose axes are labelled by the dimension arrays, or with split_by =        *)
(* "channel" a Dataset of one variable per channel, from                      *)
(* src/toksearch_d3d/signal/imas.py.                                          *)
(*                                                                            *)
(* A name is a number; one below the number of channels is its own numeral.   *)
(* External: xarray, which refuses a coordinate unlike its axis.              *)
EXTENDS ImasLayout, FiniteSetsExt

CONSTANTS Dims,       \* the dims of a signal: in order, with those it has times
          Channelled  \* values split by channel, with their names and dims

(* same: a matrix all of whose rows are equal.  The value of "times" is the   *)
(* input's when a leaf is gathered.                                           *)
IsDim(d) == d.name \in STRING /\ IsValue(d.value) /\ d.same \in BOOLEAN
(* dims is a dictionary: its names differ.                                    *)
AreDims(dims) == /\ Len(dims) \in Nat /\ DOMAIN dims = 1..Len(dims)
                 /\ \A k \in DOMAIN dims : IsDim(dims[k])
                 /\ \A j, k \in DOMAIN dims : dims[j].name = dims[k].name => j = k
ASSUME DimsAssumption == \A dims \in Dims : AreDims(dims)
ASSUME ChannelledAssumption ==
    \A split \in Channelled :
        /\ IsValue(split.value) /\ split.names \in Seq(Nat)
        /\ AreDims(split.dims)

VARIABLE array \* what fetch_as_xarray returns

NotImplemented == [form |-> "not implemented"]
Invalid == [form |-> "error"]

-----------------------------------------------------------------------------
(* A dimension array as it is in the gathered result, where times may have    *)
(* been filtered; an absent one labels nothing, like one without an axis.     *)
Gathered(d, times, left) ==
    [name |-> d.name, same |-> d.same,
     shape |-> IF d.name # "times" THEN ToNumpy(d.value).shape
               ELSE IF times = None \/ ~times.axis THEN <<>>
               ELSE <<Len(left)>> \o Tail(ToNumpy(times).shape)]
Result(dims, times, left) == [k \in DOMAIN dims |-> Gathered(dims[k], times, left)]

(* The length of the axis a dimension can label, -1 if none: a flat array, or *)
(* the one row that all channels share.                                       *)
FlatLength(d) ==
    CASE Len(d.shape) = 1 -> d.shape[1]
      [] Len(d.shape) = 2 /\ (d.shape[1] = 1 \/ d.same) -> d.shape[2]
      [] OTHER -> -1

(* Each dimension labels the first axis of its length that has no label yet.  *)
Free(shape, labels, d) ==
    {ax \in DOMAIN shape \ DOMAIN labels : shape[ax] = FlatLength(d)}
Label(shape, labels, d) ==
    LET free == Free(shape, labels, d) IN
    IF free = {} THEN labels
    ELSE [ax \in DOMAIN labels \cup {Min(free)} |->
            IF ax \in DOMAIN labels THEN labels[ax] ELSE d.name]
AxisDims(shape, dims) ==
    LET Labels[k \in 0..Len(dims)] ==
          IF k = 0 THEN <<>> ELSE Label(shape, Labels[k - 1], dims[k])
    IN Labels[Len(dims)]

(* Axes of one entry without a label are dropped, and the labels of the axes  *)
(* after them renumbered.                                                     *)
SqueezeAxes(shape, labels) == {ax \in DOMAIN shape \ DOMAIN labels : shape[ax] = 1}
Kept(shape, gone) ==
    Masked(Positions(Len(shape)), [ax \in 1..Len(shape) |-> ax \notin gone])
Squeezed(shape, gone) ==
    [k \in DOMAIN Kept(shape, gone) |-> shape[Kept(shape, gone)[k]]]

(* Faulty variant: the labels stay where they were.                           *)
NotRenumbered(shape, labels, gone) == labels

Renumbered(shape, labels, gone) ==
    [k \in {k \in DOMAIN Kept(shape, gone) : Kept(shape, gone)[k] \in DOMAIN labels} |->
        labels[Kept(shape, gone)[k]]]

DataArray(shape, labels, dims) ==
    IF \A ax \in DOMAIN labels : /\ ax \in DOMAIN shape
                                 /\ \E k \in DOMAIN dims : /\ dims[k].name = labels[ax]
                                                           /\ FlatLength(dims[k]) = shape[ax]
    THEN [form |-> "array", shape |-> shape, labels |-> labels, dims |-> dims]
    ELSE Invalid

Labelled(shape, dims) ==
    LET labels == AxisDims(shape, dims)
        gone == SqueezeAxes(shape, labels) IN
    DataArray(Squeezed(shape, gone), Renumbered(shape, labels, gone), dims)

-----------------------------------------------------------------------------
(* _split_by_channel: a channel's key is its name, or else its index.         *)
ChannelKey(names, i) == IF i <= Len(names) THEN names[i] ELSE i - 1

(* Channels of one key: the last of them.                                     *)
SplitByChannel(v, names) ==
    IF ~v.axis THEN Invalid
    ELSE [form |-> "channels",
          row |-> [key \in {ChannelKey(names, i) : i \in Slots(v)} |->
                     Max({i \in Slots(v) : ChannelKey(names, i) = key})]]

(* A dimension has an entry for a channel unless it is too short.             *)
WithEntry(dims, i) ==
    {k \in DOMAIN dims : dims[k].value.axis /\ i \in Slots(dims[k].value)}
Entry(dims, k, i) == dims[k].value.shapes[i]

(* A flat entry as long as the channel is a coordinate; other entries of one  *)
(* number are attributes.                                                     *)
Aligned(v, dims, i) ==
    {k \in WithEntry(dims, i) : Entry(dims, k, i) = <<v.shapes[i][1]>>}
Attributes(dims, i) == {k \in WithEntry(dims, i) : Entry(dims, k, i) \in {<<>>, <<1>>}}

(* Faulty variant: an entry of one number is never a coordinate.              *)
VariableScalarsFirst(v, dims, i) ==
    LET aligned == Aligned(v, dims, i) \ Attributes(dims, i) IN
    IF v.shapes[i] = <<>> \/ Len(v.shapes[i]) # Max({1, Cardinality(aligned)}) THEN Invalid
    ELSE [form |-> "variable", row |-> i, coords |-> {dims[k].name : k \in aligned},
          attrs |-> {dims[k].name : k \in Attributes(dims, i)}]

(* xarray wants a name for each axis, and a coordinate as long as its own.    *)
Variable(v, dims, i) ==
    LET shape == v.shapes[i]
        aligned == Aligned(v, dims, i) IN
    IF shape = <<>> THEN Invalid
    ELSE IF \/ Len(shape) # Max({1, Cardinality(aligned)})
            \/ \E ax \in DOMAIN shape : shape[ax] # shape[1]
    THEN Invalid
    ELSE [form |-> "variable", row |-> i, coords |-> {dims[k].name : k \in aligned},
          attrs |-> {dims[k].name : k \in Attributes(dims, i) \ aligned}]

ChannelDataset(v, dims, row) ==
    LET of == [key \in DOMAIN row |-> Variable(v, dims, row[key])] IN
    IF \E key \in DOMAIN row : of[key] = Invalid THEN Invalid
    ELSE [form |-> "dataset", of |-> of]

-----------------------------------------------------------------------------
Split == [what : {"channels"}, channels : Channelled]

XarrayInit == input \in Alone \cup Together \cup Split /\ output = None /\ array = None

(* A prefix is refused before anything is gathered.                           *)
FetchPrefix ==
    /\ input.what = "prefix" /\ output = None /\ array = None
    /\ array' = NotImplemented
    /\ UNCHANGED <<input, output>>

(* Object arrays are refused, and so is what is no numpy array: an awkward    *)
(* layout is whatever was composed.                                           *)
FetchLeaf ==
    /\ input.what = "leaf" /\ output # None /\ array = None
    /\ \/ /\ output.data.form # "array"
          /\ array' = NotImplemented
       \/ /\ \/ output.data.form = "array"
             \/ output.data.form = "same" /\ ToNumpy(input.value).form = "array"
          /\ \E dims \in Dims :
               array' = Labelled(output.data.shape, Result(dims, input.times, output.times))
    /\ UNCHANGED <<input, output>>

GatherChannels ==
    /\ input.what = "channels" /\ output = None
    /\ output' = SplitByChannel(input.channels.value, input.channels.names)
    /\ UNCHANGED <<input, array>>

FetchChannels ==
    /\ input.what = "channels" /\ output # None /\ array = None
    /\ array' = IF output = Invalid THEN Invalid
                ELSE ChannelDataset(input.channels.value, input.channels.dims, output.row)
    /\ UNCHANGED <<input, output>>

XarrayNext ==
    \/ array = None /\ Next /\ UNCHANGED array
    \/ FetchPrefix \/ FetchLeaf \/ GatherChannels \/ FetchChannels

XarraySpec == XarrayInit /\ [][XarrayNext]_<<vars, array>>

-----------------------------------------------------------------------------
(* A label is right: it stands on one axis, as long as its coordinate, and    *)
(* only axes of one entry are dropped.  The time axis is the one labelled     *)
(* "times" whatever its layout left of it, if times come first; so is the     *)
(* axis of the times that channels share, if there are not as many channels.  *)
LongAxesKept(shape, rest, at) ==
    /\ \A x, y \in DOMAIN rest : x < y => at[x] < at[y]
    /\ \A x \in DOMAIN rest : rest[x] = shape[at[x]]
    /\ \A ax \in DOMAIN shape : shape[ax] # 1 => \E x \in DOMAIN rest : at[x] = ax
LabelledTimes(ax) == ax \in DOMAIN array.labels /\ array.labels[ax] = "times"
AxesLabelled ==
    input.what = "leaf" /\ array # None /\ array # NotImplemented =>
        LET shape == output.data.shape IN
        /\ array.form = "array"
        /\ \E at \in [DOMAIN array.shape -> DOMAIN shape] :
             LongAxesKept(shape, array.shape, at)
        /\ \A x, y \in DOMAIN array.labels : array.labels[x] = array.labels[y] => x = y
        /\ \A x \in DOMAIN array.labels : \E k \in DOMAIN array.dims :
             array.dims[k].name = array.labels[x] /\ FlatLength(array.dims[k]) = array.shape[x]
        /\ array.dims # <<>> /\ array.dims[1].name = "times" =>
             /\ IsTimeAxis(input.value, input.times, input.split, input.hint)
                  => LabelledTimes(1)
             /\ array.dims[1].same /\ array.dims[1].shape = shape
                  /\ Len(shape) = 2 /\ shape[1] # shape[2]
                  => LabelledTimes(Len(array.shape))

(* No channel of a split is lost while names differ and are no numerals, none *)
(* has another's data, and the times of each, if as long as its data, are its *)
(* coordinate.  The conversion fails only on a channel that is no vector, or  *)
(* one with several dimensions as long as its data.                           *)
Usable(names) ==
    \A i \in DOMAIN names : names[i] >= Len(input.channels.value.shapes)
                            /\ \A j \in DOMAIN names : names[i] = names[j] => i = j
AlignedVector(v, dims, i) ==
    Len(v.shapes[i]) = 1 /\ Cardinality(Aligned(v, dims, i)) <= 1
ChannelsKept ==
    input.what = "channels" /\ array # None /\ input.channels.value.axis =>
        LET v == input.channels.value
            dims == input.channels.dims IN
        /\ (\A i \in Slots(v) : AlignedVector(v, dims, i)) => array.form = "dataset"
        /\ array.form = "dataset" =>
             /\ \A key \in DOMAIN array.of : LET w == array.of[key] IN
                  /\ key = ChannelKey(input.channels.names, w.row)
                  /\ \A k \in DOMAIN dims : k \in Aligned(v, dims, w.row)
                       => dims[k].name \in w.coords \ w.attrs
             /\ Usable(input.channels.names) =>
                  {array.of[key].row : key \in DOMAIN array.of} = Slots(v)
=============================================================================
