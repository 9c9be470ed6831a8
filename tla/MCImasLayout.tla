----------------------------- MODULE MCImasLayout -----------------------------
(* ImasXarray on all values of up to three entries: scalars, vectors of no,   *)
(* one, two or three numbers, and a matrix; on batches of up to three leaves; *)
(* and on values of up to two channels with names, times and positions.       *)
EXTENDS ImasXarray

Shape == {<<>>, <<0>>, <<1>>, <<2>>, <<3>>, <<1, 2>>}
UpTo(n, S) == UNION {[1..m -> S] : m \in 0..n}
MCValue(kinds, boxings, n, shapes) ==
    [kind : kinds, boxed : boxings, axis : {TRUE}, shapes : UpTo(n, shapes)]
Scalar == [kind |-> "float", boxed |-> FALSE, axis |-> FALSE, shapes |-> <<>>]

MCValues == MCValue(Kind, BOOLEAN, 3, Shape) \cup {Scalar}

(* Flat numbers, rows of a matrix, and ragged rows.                           *)
MCTimes ==
    MCValue({"float"}, {FALSE}, 3, {<<>>})
      \cup MCValue({"float"}, {FALSE}, 2, {<<2>>, <<3>>}) \cup {None}

Leaf(v, time, hint) == [value |-> v, time |-> time, hint |-> hint]
MCLeaves ==
    {Leaf(v, TRUE, FALSE) : v \in MCValue({"float", "text"}, {FALSE}, 2, {<<>>})}
      \cup {Leaf(v, FALSE, hint) : hint \in BOOLEAN,
              v \in MCValue({"float"}, {FALSE}, 2, {<<0>>, <<2>>, <<3>>}) \cup {Scalar}}
MCBatches == UpTo(3, MCLeaves) \ {<<>>}

(* times alone, before or after a flat dimension, and beside a matrix.        *)
Dim(name, v, same) == [name |-> name, value |-> v, same |-> same]
Numbers(shapes) == [kind |-> "float", boxed |-> FALSE, axis |-> TRUE, shapes |-> shapes]
MCDims ==
    LET times == {Dim("times", Scalar, same) : same \in BOOLEAN}
        flat == Dim("rho", Numbers(<<<<>>, <<>>>>), FALSE)
        matrix == Dim("rho", Numbers(<<<<2>>, <<2>>>>), TRUE) IN
    {<<>>} \cup {<<t>> : t \in times} \cup {<<t, flat>> : t \in times}
      \cup {<<flat, t>> : t \in times} \cup {<<t, matrix>> : t \in times}

MCChannelled ==
    LET channels == MCValue({"float"}, {FALSE}, 2, {<<>>, <<1>>, <<2>>, <<2, 2>>})
        times == MCValue({"float"}, {FALSE}, 2, {<<>>, <<1>>, <<2>>})
        positions == MCValue({"float"}, {FALSE}, 2, {<<>>, <<2>>})
    IN [value : channels \cup {Scalar}, names : UpTo(2, {1, 5, 6}),
        dims : {<<>>} \cup {<<Dim("times", t, FALSE)>> : t \in times}
                 \cup {<<Dim("times", t, FALSE), Dim("r", r, FALSE)>> :
                          t \in times, r \in positions}]
=============================================================================
