------------------------------ MODULE TaquinBoard ------------------------------
(***************************************************************************)
(* A board of the sliding puzzle as the Java client stores it: a BitSet    *)
(* with a field of NBits bits for each position, position 0 in the highest *)
(* bits (Taquin.java, Utils.java).  A BitSet is the set of its set bits.   *)
(*                                                                         *)
(* The code has n rows and n columns; keeping the two apart lets TLC play  *)
(* a puzzle whose boards branch (2 x 3: 360 boards; 3 x 3 has 181440).     *)
(***************************************************************************)
EXTENDS Integers, FiniteSetsExt, Functions

CONSTANTS Rows, Cols          \* both are n in the code

ASSUME SizeAssumption ==
    Rows \in Nat \ {0} /\ Cols \in Nat \ {0} /\ Rows * Cols > 1

\* maskBits is a char: with more tiles nBits would not end.
ASSUME BitsAssumption == Rows * Cols <= 65536

Positions == 0 .. Rows * Cols - 1
Tiles == 0 .. Rows * Cols - 1

Pow2[k \in Nat] == IF k = 0 THEN 1 ELSE 2 * Pow2[k - 1]

Bit(value, k) == (value \div Pow2[k]) % 2

\* The first number of bits whose mask can hold every tile.
NBits ==
    CHOOSE b \in 0..16 :
        /\ Pow2[b] - 1 >= Rows * Cols - 1
        /\ \A c \in 0 .. b - 1 : Pow2[c] - 1 < Rows * Cols - 1

SizeBS == NBits * Rows * Cols

Position(i, j) == i * Cols + j

\* Mutant: the fields begin one bit too high.
BitAt_OneHigh(pos, k) == SizeBS - (pos + 1) * NBits + k + 1

\* The index of bit k of the field at pos.
BitAt(pos, k) == SizeBS - (pos + 1) * NBits + k

GetValue(bs, pos) ==
    LET value[k \in 0 .. NBits] ==
            IF k = 0 THEN 0
            ELSE value[k - 1] + IF BitAt(pos, k - 1) \in bs THEN Pow2[k - 1] ELSE 0
    IN  value[NBits]

SetValue(bs, pos, value) ==
    LET field(b) == {BitAt(pos, k) : k \in {l \in 0 .. NBits - 1 : Bit(value, l) = b}}
    IN  (bs \ field(0)) \cup field(1)

\* What a BitSet says of the board.
Decode(bs) == [pos \in Positions |-> GetValue(bs, pos)]

\* A board written into an empty BitSet, position by position.
Encode(cells) ==
    UNION {{BitAt(pos, k) : k \in {l \in 0 .. NBits - 1 : Bit(cells[pos], l) = 1}} :
              pos \in Positions}

\* A board written into a BitSet of a size that may not be its own: a bit that has
\* no place there is not set.
Convert(nbits, sizeBS, cells) ==
    Nat \cap UNION {{sizeBS - (pos + 1) * nbits + k :
                        k \in {l \in 0 .. nbits - 1 : Bit(cells[pos], l) = 1}} :
                          pos \in DOMAIN cells}

\* The tiles in order and the blank, 0, last.
Solved == [pos \in Positions |-> (pos + 1) % (Rows * Cols)]
-------------------------------------------------------------------------------
(***************************************************************************)
(* The puzzle itself, for the properties: boards as functions, and how far *)
(* each is from the solved one.                                            *)
(***************************************************************************)
Boards == {cells \in [Positions -> Tiles] : IsInjective(cells)}

BlankOf(cells) == CHOOSE pos \in DOMAIN cells : cells[pos] = 0

Distance(a, b) == IF a < b THEN b - a ELSE a - b

Adjacent(p, q) ==
    Distance(p \div Cols, q \div Cols) + Distance(p % Cols, q % Cols) = 1

Slide(cells, pos) ==
    [cells EXCEPT ![BlankOf(cells)] = cells[pos], ![pos] = 0]

Moves(cells) == {Slide(cells, pos) : pos \in {q \in Positions : Adjacent(q, BlankOf(cells))}}

\* The boards at most d moves away from the solved one, with that distance.
Within[d \in Nat] ==
    IF d = 0 THEN [b \in {Solved} |-> 0]
    ELSE LET near == Within[d - 1]
             far == UNION {Moves(b) : b \in DOMAIN near}
         IN  [b \in DOMAIN near \cup far |-> IF b \in DOMAIN near THEN near[b] ELSE d]

\* No board that can be solved is farther away.
Depth == CHOOSE d \in 0 .. Cardinality(Boards) : Within[d + 1] = Within[d]

\* The boards that can be solved, with the length of a shortest solution.
Solution == Within[Depth]

Solvable(cells) == cells \in DOMAIN Solution
===============================================================================
