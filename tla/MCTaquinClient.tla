----------------------------- MODULE MCTaquinClient -----------------------------
(* TaquinClient for TLC: the graph of the other size is that of 2 x 2, a ring   *)
(* of twelve boards, numbered as creatGraph meets them.                         *)
EXTENDS TaquinClient

Cells(row1, row2) == [pos \in 0..3 |-> (row1 \o row2)[pos + 1]]

RingBoards ==
    <<Cells(<<1, 2>>, <<3, 0>>),
      Cells(<<1, 0>>, <<3, 2>>), Cells(<<1, 2>>, <<0, 3>>),
      Cells(<<0, 1>>, <<3, 2>>), Cells(<<0, 2>>, <<1, 3>>),
      Cells(<<3, 1>>, <<0, 2>>), Cells(<<2, 0>>, <<1, 3>>),
      Cells(<<3, 1>>, <<2, 0>>), Cells(<<2, 3>>, <<1, 0>>),
      Cells(<<3, 0>>, <<2, 1>>), Cells(<<2, 3>>, <<0, 1>>),
      Cells(<<0, 3>>, <<2, 1>>)>>

RingNodes ==
    [n \in 1..12 |->
        LET b == RingBoards[n]
            blank == CHOOSE pos \in 0..3 : b[pos] = 0
        IN  [bs |-> Convert(2, 8, b), i |-> blank \div 2, j |-> blank % 2]]

\* A move away, six moves away, and one that has no solution.
RingAsked == {RingBoards[2], RingBoards[12], Cells(<<2, 1>>, <<3, 0>>)}

RingParents == [n \in 0..11 |-> IF n <= 2 THEN 0 ELSE n - 2]
===============================================================================
