------------------------------ MODULE TaquinProofs ------------------------------
(***************************************************************************)
(* Proofs about the Java player: its boards (TaquinBoard), its solver      *)
(* (TaquinGraph) and the client (TaquinClient), for boards of every size.  *)
(*                                                                         *)
(* First the encoding: the fields of a board share no bit, so that a       *)
(* BitSet and its board tell each other (DecodeEncode, SameBits), and the  *)
(* search's four directions are the moves of the puzzle (TowardLaws).      *)
(* Then the distances the properties speak of: Within grows until it has   *)
(* every board that can be solved (DepthExists), and is the length of a    *)
(* shortest solution (SolutionLaws).                                       *)
(*                                                                         *)
(* The solver's invariant (GraphInv) says of creatGraph that boards are    *)
(* met in the order of their distance, in a tree whose edges lead one      *)
(* move nearer, and of dijkstra that a board is settled from its parent    *)
(* in that tree.  The client's (ClientInv) says that a step under way is   *)
(* one move ahead of the server's board, unless a board or a graph of the  *)
(* other size has come in between.                                         *)
(***************************************************************************)
EXTENDS TaquinClient, Induction, SequenceTheorems

-------------------------------------------------------------------------------
(*****************************************************************************)
(* The fields of a board (Taquin.java): where they are and what they hold.   *)
(*****************************************************************************)

(* What Pow2 stands for, where the recursion it is defined by has a         *)
(* solution.                                                                *)
LEMMA Pow2Unfold ==
    ASSUME NEW h, h = [l \in Nat |-> IF l = 0 THEN 1 ELSE 2 * h[l - 1]]
    PROVE  Pow2 = [l \in Nat |-> IF l = 0 THEN 1 ELSE 2 * Pow2[l - 1]]
  BY DEF Pow2

(* The powers of two are positive, and each doubles the one before.         *)
LEMMA PowersOfTwo ==
    /\ Pow2[0] = 1
    /\ \A l \in Nat : Pow2[l] \in Nat \ {0} /\ Pow2[l + 1] = 2 * Pow2[l]
<1> DEFINE g == [x \in Nat \X (Nat \ {0}) |-> 2 * x[2]]
<1>1. g \in [Nat \X (Nat \ {0}) -> Nat \ {0}]
  OBVIOUS
<1>2. 1 \in Nat \ {0}
  OBVIOUS
<1>3. PICK h : h \in Iterates(Nat \ {0}, 1, g)
  <2> HIDE DEF g
  <2> QED
    BY <1>1, <1>2, Recursion
<1>4. h \in [Nat -> Nat \ {0}] /\ h[0] = 1 /\ \A l \in Nat : h[l + 1] = g[<<l, h[l]>>]
  BY <1>3 DEF Iterates
<1>5. \A l \in Nat : h[l + 1] = 2 * h[l]
  BY <1>4
<1> HIDE DEF g
<1>6. \A l \in Nat : h[l] = IF l = 0 THEN 1 ELSE 2 * h[l - 1]
  <2>1. \A l \in Nat : l # 0 => l - 1 \in Nat /\ (l - 1) + 1 = l
    OBVIOUS
  <2> QED
    BY <1>4, <1>5, <2>1
<1>7. h = [l \in Nat |-> IF l = 0 THEN 1 ELSE 2 * h[l - 1]]
  BY <1>4, <1>6
<1>8. Pow2 = [l \in Nat |-> IF l = 0 THEN 1 ELSE 2 * Pow2[l - 1]]
  BY <1>7, Pow2Unfold
<1>9. \A l \in Nat : Pow2[l] = IF l = 0 THEN 1 ELSE 2 * Pow2[l - 1]
  BY <1>8
<1>10. Pow2[0] = 1 /\ \A l \in Nat : Pow2[l + 1] = 2 * Pow2[l]
  BY <1>9
<1> DEFINE Positive == {l \in Nat : Pow2[l] \in Nat \ {0}}
<1>11. \A l \in Nat : l \in Positive
  <2>1. 0 \in Positive
    BY <1>10
  <2>2. \A l \in Nat : l \in Positive => l + 1 \in Positive
    BY <1>10
  <2> HIDE DEF Positive
  <2> QED
    BY <2>1, <2>2, SetInduction
<1> QED
  BY <1>10, <1>11

(* How many positions there are.                                            *)
LEMMA Cells ==
    Rows * Cols \in Nat /\ Rows * Cols > 1 /\ Rows * Cols <= 65536
  BY SizeAssumption, BitsAssumption

(* The mask nBits gives holds every tile: with 16 bits it does for every    *)
(* board there is, so one of 0..16 is the first that does.                  *)
LEMMA BitsFit ==
    /\ NBits \in Nat
    /\ Pow2[NBits] >= Rows * Cols
<1> DEFINE N == Rows * Cols
           Fits(b) == /\ Pow2[b] - 1 >= N - 1
                      /\ \A c \in 0 .. b - 1 : Pow2[c] - 1 < N - 1
           Below == {l \in Nat : l <= 16 => Pow2[l] - 1 < N - 1}
<1>0. N \in Nat /\ N <= 65536
  BY Cells
<1>1. \E b \in 0 .. 16 : Fits(b)
  <2>1. SUFFICES ASSUME \A b \in 0 .. 16 : ~Fits(b) PROVE FALSE
    OBVIOUS
  <2> DEFINE Upto == {l \in Nat : \A c \in 0 .. l : c \in Below}
  <2>2. 0 \in Upto
    <3>1. ~Fits(0)
      BY <2>1
    <3>2. Pow2[0] - 1 < N - 1
      BY <3>1, <1>0, PowersOfTwo
    <3> QED
      BY <3>2
  <2>3. ASSUME NEW l \in Nat, l \in Upto PROVE l + 1 \in Upto
    <3>1. l + 1 \in Below
      <4>1. SUFFICES ASSUME l + 1 <= 16 PROVE Pow2[l + 1] - 1 < N - 1
        OBVIOUS
      <4>2. l + 1 \in 0 .. 16 /\ ~Fits(l + 1)
        BY <2>1, <4>1
      <4>3. \A c \in 0 .. (l + 1) - 1 : Pow2[c] - 1 < N - 1
        BY <2>3, <4>1
      <4>4. Pow2[l + 1] \in Nat
        BY PowersOfTwo
      <4> HIDE DEF N
      <4> QED
        BY <1>0, <4>2, <4>3, <4>4
    <3> QED
      BY <2>3, <3>1
  <2>4. \A l \in Nat : l \in Upto
    <3> HIDE DEF Upto
    <3> QED
      BY <2>2, <2>3, SetInduction
  <2>5. Pow2[16] - 1 < N - 1
    BY <2>4
  <2>6. Pow2[16] = 65536
    <3>1. \A l \in Nat : Pow2[l + 1] = 2 * Pow2[l]
      BY PowersOfTwo
    <3>2. Pow2[0 + 1] = 2 /\ Pow2[1 + 1] = 4 /\ Pow2[2 + 1] = 8 /\ Pow2[3 + 1] = 16
      BY <3>1, PowersOfTwo
    <3>3. Pow2[4 + 1] = 32 /\ Pow2[5 + 1] = 64 /\ Pow2[6 + 1] = 128 /\ Pow2[7 + 1] = 256
      BY <3>1, <3>2
    <3>4. Pow2[8 + 1] = 512 /\ Pow2[9 + 1] = 1024 /\ Pow2[10 + 1] = 2048 /\ Pow2[11 + 1] = 4096
      BY <3>1, <3>3
    <3>5. /\ Pow2[12 + 1] = 8192 /\ Pow2[13 + 1] = 16384
          /\ Pow2[14 + 1] = 32768 /\ Pow2[15 + 1] = 65536
      BY <3>1, <3>4
    <3> QED
      BY <3>5
  <2> HIDE DEF N
  <2> QED
    BY <1>0, <2>5, <2>6
<1>2. NBits = CHOOSE b \in 0 .. 16 : Fits(b)
  BY Zenon DEF NBits
<1>3. NBits \in 0 .. 16 /\ Fits(NBits)
  <2> HIDE DEF Fits
  <2> QED
    BY <1>1, <1>2
<1>4. Pow2[NBits] \in Nat
  BY <1>3, PowersOfTwo
<1> HIDE DEF N
<1>5. Pow2[NBits] >= N
  BY <1>0, <1>3, <1>4
<1> QED
  BY <1>3, <1>5 DEF N

(* A multiple is at least one multiplicand below the next.                  *)
LEMMA TimesLess ==
    ASSUME NEW a \in Nat, NEW b \in Nat, NEW c \in Nat, a < b
    PROVE  a * c \in Nat /\ b * c \in Nat /\ a * c + c <= b * c
<1> DEFINE d == b - a - 1
<1>1. d \in Nat /\ b = a + 1 + d
  OBVIOUS
<1> HIDE DEF d
<1>2. b * c = a * c + c + d * c
  BY <1>1
<1>3. d * c \in Nat /\ a * c \in Nat
  BY <1>1
<1> QED
  BY <1>2, <1>3

(* The bits of a field.                                                     *)
Fields == 0 .. NBits - 1

(* The fields lie within the BitSet, and none shares a bit with another.    *)
LEMMA BitPlaces ==
    /\ SizeBS \in Nat
    /\ \A p \in Positions, l \in Fields : BitAt(p, l) \in 0 .. SizeBS - 1
    /\ \A p, q \in Positions : \A l, m \in Fields :
          BitAt(p, l) = BitAt(q, m) => p = q /\ l = m
<1> DEFINE N == Rows * Cols
<1>0. N \in Nat /\ NBits \in Nat
  BY Cells, BitsFit
<1>1. SizeBS = N * NBits /\ SizeBS \in Nat
  BY <1>0, SizeAssumption DEF SizeBS
<1>2. ASSUME NEW p \in Nat PROVE (p + 1) * NBits = p * NBits + NBits /\ p * NBits \in Nat
  BY <1>0
<1>3. ASSUME NEW p \in Positions, NEW q \in Positions, NEW l \in Fields, NEW m \in Fields,
             p < q
      PROVE  BitAt(p, l) # BitAt(q, m)
  <2>1. p \in Nat /\ q \in Nat
    BY Cells DEF Positions
  <2>2. p * NBits + NBits <= q * NBits
    BY <1>0, <1>3, <2>1, TimesLess
  <2> QED
    BY <1>0, <1>1, <1>2, <2>1, <2>2 DEF BitAt, Fields
<1>4. ASSUME NEW p \in Positions, NEW l \in Fields PROVE BitAt(p, l) \in 0 .. SizeBS - 1
  <2>1. p \in Nat /\ p < N
    BY Cells DEF Positions
  <2>2. p * NBits + NBits <= N * NBits
    BY <1>0, <2>1, TimesLess
  <2> QED
    BY <1>0, <1>1, <1>2, <2>1, <2>2 DEF BitAt, Fields
<1>5. ASSUME NEW p \in Positions, NEW q \in Positions, NEW l \in Fields, NEW m \in Fields,
             BitAt(p, l) = BitAt(q, m)
      PROVE  p = q /\ l = m
  <2>1. p \in Nat /\ q \in Nat
    BY Cells DEF Positions
  <2>2. p = q
    BY <1>3, <1>5, <2>1
  <2>3. (p + 1) * NBits \in Nat /\ (q + 1) * NBits = (p + 1) * NBits
    BY <1>0, <1>2, <2>1, <2>2
  <2>4. l \in Int /\ m \in Int
    BY DEF Fields
  <2> QED
    BY <1>1, <1>5, <2>2, <2>3, <2>4 DEF BitAt
<1> QED
  BY <1>1, <1>4, <1>5

(* What quotient and remainder are.                                         *)
LEMMA DivisionLaws ==
    ASSUME NEW a \in Nat, NEW b \in Nat \ {0}
    PROVE  /\ a \div b \in Nat /\ a % b \in Nat
           /\ a % b < b /\ a = b * (a \div b) + (a % b)
  OBVIOUS

(* They are determined by that.                                             *)
LEMMA DivisionUnique ==
    ASSUME NEW b \in Nat \ {0}, NEW q \in Nat, NEW r \in Nat, r < b
    PROVE  (b * q + r) \div b = q /\ (b * q + r) % b = r
<1> DEFINE a == b * q + r
           x == a \div b
           y == a % b
<1>1. a \in Nat
  OBVIOUS
<1>2. x \in Nat /\ y \in Nat /\ y < b /\ a = b * x + y
  <2> HIDE DEF a
  <2> QED
    BY <1>1, DivisionLaws
<1>3. b * q = q * b /\ b * x = x * b
  BY <1>2
<1>4. ~(q < x) /\ ~(x < q)
  <2>1. q < x => q * b + b <= x * b
    BY <1>2, TimesLess
  <2>2. x < q => x * b + b <= q * b
    BY <1>2, TimesLess
  <2>3. x * b \in Nat /\ q * b \in Nat
    BY <1>2
  <2>4. q * b + r = x * b + y
    BY <1>2, <1>3
  <2> HIDE DEF x, y
  <2> QED
    BY <1>2, <2>1, <2>2, <2>3, <2>4
<1>5. x = q
  <2> HIDE DEF x
  <2> QED
    BY <1>2, <1>4
<1>6. y = r
  <2>1. b * q \in Nat /\ b * q + r = b * q + y
    BY <1>2, <1>5
  <2> HIDE DEF x, y
  <2> QED
    BY <1>2, <2>1
<1> QED
  BY <1>5, <1>6

(* A bit more of a value.                                                   *)
LEMMA BitValue ==
    ASSUME NEW v \in Nat, NEW l \in Nat
    PROVE  /\ Bit(v, l) \in {0, 1}
           /\ v % Pow2[l + 1] = (v % Pow2[l]) + (IF Bit(v, l) = 1 THEN Pow2[l] ELSE 0)
<1> DEFINE P == Pow2[l]
           q == v \div P
           r == v % P
           h == q \div 2
           b == q % 2
<1>1. P \in Nat \ {0} /\ Pow2[l + 1] = 2 * P
  BY PowersOfTwo
<1>2. q \in Nat /\ r \in Nat /\ r < P /\ v = P * q + r
  <2> HIDE DEF P
  <2> QED
    BY <1>1, DivisionLaws
<1>3. h \in Nat /\ b \in {0, 1} /\ q = 2 * h + b
  <2> HIDE DEF q
  <2> QED
    BY <1>2
<1>4. Bit(v, l) = b
  BY DEF Bit
<1> DEFINE rest == r + (IF b = 1 THEN P ELSE 0)
<1>5. v = (2 * P) * h + rest
  <2> HIDE DEF h, b, q, r, P
  <2>1. P * q = P * (2 * h) + P * b
    BY <1>1, <1>3
  <2>2. P * (2 * h) = (2 * P) * h
    BY <1>1, <1>3
  <2>3. P * b = IF b = 1 THEN P ELSE 0
    BY <1>1, <1>3
  <2>4. P * b \in Nat /\ (2 * P) * h \in Nat
    BY <1>1, <1>3
  <2> QED
    BY <1>1, <1>2, <1>3, <2>1, <2>2, <2>3, <2>4
<1>6. rest \in Nat /\ rest < 2 * P /\ 2 * P \in Nat \ {0}
  <2> HIDE DEF h, b, q, r, P
  <2> QED
    BY <1>1, <1>2, <1>3
<1> HIDE DEF rest, h, q, r, b, P
<1>7. ((2 * P) * h + rest) % (2 * P) = rest
  <2> DEFINE c == 2 * P
  <2>1. c \in Nat \ {0} /\ rest < c
    BY <1>6
  <2> HIDE DEF c
  <2>2. (c * h + rest) % c = rest
    BY <1>3, <1>6, <2>1, DivisionUnique
  <2> QED
    BY <2>2 DEF c
<1>8. v % Pow2[l + 1] = rest
  BY <1>1, <1>5, <1>7
<1> QED
  BY <1>3, <1>4, <1>8 DEF rest, r, P, b

(* A value below the divisor is the remainder.                              *)
LEMMA SmallRest ==
    ASSUME NEW v \in Nat, NEW b \in Nat, v < b
    PROVE  v % b = v
  OBVIOUS

(* The field at p has the bits of v.                                        *)
Holds(bs, p, v) == \A l \in Fields : BitAt(p, l) \in bs <=> Bit(v, l) = 1

(* What the bit at l adds to the value of the field at p.                   *)
Weight(bs, p, l) == IF BitAt(p, l) \in bs THEN Pow2[l] ELSE 0

(* f gives the value of the first bits of the field at p.                   *)
Sums(bs, p, f) ==
    f = [l \in 0 .. NBits |-> IF l = 0 THEN 0 ELSE f[l - 1] + Weight(bs, p, l - 1)]

(* What getValueBS computes, where its recursion has a solution.            *)
LEMMA GetValueUnfold ==
    ASSUME NEW bs, NEW p, NEW h, Sums(bs, p, h)
    PROVE  \E f : Sums(bs, p, f) /\ GetValue(bs, p) = f[NBits]
  BY DEF GetValue, Weight, Sums

(* getValueBS: it gives the tile whose bits the field has.                  *)
LEMMA GetValueHolds ==
    ASSUME NEW bs, NEW p, NEW v \in Tiles, Holds(bs, p, v)
    PROVE  GetValue(bs, p) = v
<1>0. NBits \in Nat /\ v \in Nat /\ v < Pow2[NBits] /\ Pow2[NBits] \in Nat
  <2>1. Pow2[NBits] \in Nat /\ NBits \in Nat
    BY BitsFit, PowersOfTwo
  <2> QED
    BY <2>1, BitsFit, Cells DEF Tiles
<1> DEFINE h == [l \in 0 .. NBits |-> v % Pow2[l]]
<1>1. ASSUME NEW l \in Fields PROVE v % Pow2[l + 1] = (v % Pow2[l]) + Weight(bs, p, l)
  BY <1>0, <1>1, BitValue DEF Holds, Fields, Weight
<1>2. v % Pow2[0] = 0
  BY <1>0, PowersOfTwo
<1>3. \A l \in 0 .. NBits :
         v % Pow2[l] = IF l = 0 THEN 0 ELSE (v % Pow2[l - 1]) + Weight(bs, p, l - 1)
  <2> SUFFICES ASSUME NEW l \in 0 .. NBits
               PROVE v % Pow2[l] = IF l = 0 THEN 0 ELSE (v % Pow2[l - 1]) + Weight(bs, p, l - 1)
    OBVIOUS
  <2>1. CASE l = 0
    BY <1>2, <2>1
  <2>2. CASE l # 0
    <3>1. l - 1 \in Fields /\ (l - 1) + 1 = l
      BY <1>0, <2>2 DEF Fields
    <3> QED
      BY <1>1, <2>2, <3>1
  <2> QED
    BY <2>1, <2>2
<1>4. Sums(bs, p, h)
  <2>1. \A l \in 0 .. NBits : l = 0 \/ h[l - 1] = v % Pow2[l - 1]
    BY <1>0
  <2> QED
    BY <1>3, <2>1 DEF Sums
<1>5. PICK f : Sums(bs, p, f) /\ GetValue(bs, p) = f[NBits]
  <2> HIDE DEF h
  <2> QED
    BY <1>4, GetValueUnfold
<1>6. \A l \in 0 .. NBits : f[l] = IF l = 0 THEN 0 ELSE f[l - 1] + Weight(bs, p, l - 1)
  BY <1>5 DEF Sums
<1> DEFINE Same == {l \in Nat : l <= NBits => f[l] = v % Pow2[l]}
<1>7. \A l \in Nat : l \in Same
  <2>1. 0 \in Same
    BY <1>0, <1>2, <1>6
  <2>2. ASSUME NEW l \in Nat, l \in Same PROVE l + 1 \in Same
    <3>1. SUFFICES ASSUME l + 1 <= NBits PROVE f[l + 1] = v % Pow2[l + 1]
      OBVIOUS
    <3>2. l + 1 \in 0 .. NBits /\ l + 1 # 0 /\ (l + 1) - 1 = l /\ l <= NBits
      BY <1>0, <3>1
    <3>3. f[l] = v % Pow2[l]
      BY <2>2, <3>2
    <3>4. f[l + 1] = f[l] + Weight(bs, p, l) /\ v % Pow2[l + 1] = (v % Pow2[l]) + Weight(bs, p, l)
      BY <1>3, <1>6, <3>2
    <3> QED
      BY <3>3, <3>4
  <2> HIDE DEF Same
  <2> QED
    BY <2>1, <2>2, SetInduction
<1>8. f[NBits] = v % Pow2[NBits]
  BY <1>0, <1>7
<1> QED
  BY <1>0, <1>5, <1>8, SmallRest

-------------------------------------------------------------------------------
(*****************************************************************************)
(* A board and its BitSet.                                                   *)
(*****************************************************************************)

(* The bits of all fields.                                                  *)
AllBits == {BitAt(p, l) : p \in Positions, l \in Fields}

(* A board that is written has its tiles in the fields.                     *)
LEMMA EncodeHolds ==
    ASSUME NEW cells \in [Positions -> Tiles]
    PROVE  /\ Encode(cells) \subseteq AllBits
           /\ \A p \in Positions : Holds(Encode(cells), p, cells[p])
<1>1. \A b : b \in Encode(cells) <=>
         \E p \in Positions : \E l \in Fields : Bit(cells[p], l) = 1 /\ b = BitAt(p, l)
  BY DEF Encode, Fields
<1>2. Encode(cells) \subseteq AllBits
  BY <1>1 DEF AllBits
<1>3. ASSUME NEW p \in Positions, NEW l \in Fields
      PROVE  BitAt(p, l) \in Encode(cells) <=> Bit(cells[p], l) = 1
  BY <1>1, BitPlaces
<1> QED
  BY <1>2, <1>3 DEF Holds

(* setValueBS: it writes one field and leaves the others alone.             *)
LEMMA SetValueHolds ==
    ASSUME NEW bs \in SUBSET AllBits, NEW p \in Positions, NEW v \in Tiles
    PROVE  /\ SetValue(bs, p, v) \in SUBSET AllBits
           /\ Holds(SetValue(bs, p, v), p, v)
           /\ \A q \in Positions : \A w :
                 q # p /\ Holds(bs, q, w) => Holds(SetValue(bs, p, v), q, w)
<1>0. v \in Nat /\ \A l \in Fields : l \in Nat
  BY Cells, BitsFit DEF Tiles, Fields
<1>1. \A b : b \in SetValue(bs, p, v) <=>
         \/ b \in bs /\ ~\E l \in Fields : Bit(v, l) = 0 /\ b = BitAt(p, l)
         \/ \E l \in Fields : Bit(v, l) = 1 /\ b = BitAt(p, l)
  BY DEF SetValue, Fields
<1>2. SetValue(bs, p, v) \in SUBSET AllBits
  BY <1>1 DEF AllBits
<1>3. ASSUME NEW l \in Fields PROVE Bit(v, l) \in {0, 1}
  BY <1>0, BitValue
<1>4. ASSUME NEW l \in Fields
      PROVE  BitAt(p, l) \in SetValue(bs, p, v) <=> Bit(v, l) = 1
  BY <1>1, <1>3, BitPlaces
<1>5. ASSUME NEW q \in Positions, q # p, NEW l \in Fields
      PROVE  BitAt(q, l) \in SetValue(bs, p, v) <=> BitAt(q, l) \in bs
  BY <1>1, <1>5, BitPlaces
<1> QED
  BY <1>2, <1>4, <1>5 DEF Holds

(* Two BitSets with the same tiles are the same.                            *)
LEMMA SameBits ==
    ASSUME NEW bs \in SUBSET AllBits, NEW bt \in SUBSET AllBits, NEW cells,
           \A p \in Positions : Holds(bs, p, cells[p]) /\ Holds(bt, p, cells[p])
    PROVE  bs = bt
<1>1. \A b \in AllBits : \E p \in Positions, l \in Fields : b = BitAt(p, l)
  BY DEF AllBits
<1>2. \A p \in Positions, l \in Fields : BitAt(p, l) \in bs <=> BitAt(p, l) \in bt
  BY DEF Holds
<1> QED
  BY <1>1, <1>2

(* A board that is written and read again is the same board.                *)
LEMMA DecodeEncode ==
    ASSUME NEW cells \in [Positions -> Tiles]
    PROVE  Decode(Encode(cells)) = cells
<1>1. \A p \in Positions : GetValue(Encode(cells), p) = cells[p]
  BY EncodeHolds, GetValueHolds
<1> QED
  BY <1>1 DEF Decode

(* A board has no tile twice, so it has every tile, the blank too.          *)
LEMMA BoardLaws ==
    ASSUME NEW b \in Boards
    PROVE  /\ b \in [Positions -> Tiles]
           /\ \A p, q \in Positions : b[p] = b[q] => p = q
           /\ BlankOf(b) \in Positions /\ b[BlankOf(b)] = 0
<1>1. b \in [Positions -> Tiles] /\ \A p, q \in Positions : b[p] = b[q] => p = q
  BY DEF Boards, IsInjective
<1>2. \E p \in Positions : b[p] = 0
  <2>1. SUFFICES ASSUME \A p \in Positions : b[p] # 0 PROVE FALSE
    OBVIOUS
  <2> DEFINE N == Rows * Cols
             T == 1 .. N - 1
  <2>2. N \in Nat /\ N > 1
    BY Cells
  <2>3. b \in [Positions -> T]
    BY <1>1, <2>1, <2>2 DEF Tiles
  <2>4. Positions = 0 .. N - 1
    BY DEF Positions
  <2> HIDE DEF N
  <2>5. IsFiniteSet(Positions) /\ Cardinality(Positions) = N
    BY <2>2, <2>4, FS_Interval
  <2>6. IsFiniteSet(T) /\ Cardinality(T) = N - 1
    BY <2>2, FS_Interval
  <2> HIDE DEF T
  <2> QED
    BY <1>1, <2>2, <2>3, <2>5, <2>6, FS_PigeonHole
<1> QED
  BY <1>1, <1>2 DEF BlankOf

(* There are finitely many boards, no more than BitSets.                    *)
LEMMA BoardsFinite == IsFiniteSet(Boards) /\ Cardinality(Boards) \in Nat
<1> DEFINE T == SUBSET (0 .. SizeBS - 1)
           e == [b \in Boards |-> Encode(b)]
<1>1. IsFiniteSet(T)
  <2>1. SizeBS \in Nat /\ 0 \in Int /\ SizeBS - 1 \in Int
    BY BitPlaces
  <2>2. IsFiniteSet(0 .. SizeBS - 1)
    BY <2>1, FS_Interval
  <2> QED
    BY <2>2, FS_SUBSET
<1>2. AllBits \subseteq 0 .. SizeBS - 1
  BY BitPlaces DEF AllBits
<1>3. \A b \in Boards : Encode(b) \in T
  BY <1>2, BoardLaws, EncodeHolds
<1>4. \A b, c \in Boards : Encode(b) = Encode(c) => b = c
  <2>1. \A b \in Boards : Decode(Encode(b)) = b
    BY BoardLaws, DecodeEncode
  <2> QED
    BY <2>1
<1>5. e \in [Boards -> T] /\ \A b, c \in Boards : e[b] = e[c] => b = c
  BY <1>3, <1>4
<1>6. e \in Injection(Boards, T)
  BY <1>5 DEF Injection, IsInjective
<1> HIDE DEF T, e
<1>7. IsFiniteSet(Boards)
  BY <1>1, <1>6, FS_Injection
<1> QED
  BY <1>7, FS_CardinalityType

-------------------------------------------------------------------------------
(*****************************************************************************)
(* The puzzle: positions, moves, and the search's directions.                *)
(*****************************************************************************)

(* getPosition: row and column are those of the position.                   *)
LEMMA PositionLaws ==
    /\ \A i \in 0 .. Rows - 1, j \in 0 .. Cols - 1 :
          /\ Position(i, j) \in Positions
          /\ Position(i, j) \div Cols = i /\ Position(i, j) % Cols = j
    /\ \A p \in Positions :
          /\ p \div Cols \in 0 .. Rows - 1 /\ p % Cols \in 0 .. Cols - 1
          /\ Position(p \div Cols, p % Cols) = p
<1>0. Rows \in Nat \ {0} /\ Cols \in Nat \ {0}
  BY SizeAssumption
<1>1. ASSUME NEW i \in 0 .. Rows - 1, NEW j \in 0 .. Cols - 1
      PROVE  /\ Position(i, j) \in Positions
             /\ Position(i, j) \div Cols = i /\ Position(i, j) % Cols = j
  <2>1. i \in Nat /\ j \in Nat /\ i < Rows /\ j < Cols
    BY <1>0
  <2>2. i * Cols \in Nat /\ i * Cols + Cols <= Rows * Cols /\ i * Cols = Cols * i
    BY <1>0, <2>1, TimesLess
  <2>3. Position(i, j) \in Positions
    <3>1. i * Cols + j >= 0 /\ i * Cols + j <= Rows * Cols - 1 /\ i * Cols + j \in Int
      BY <1>0, <2>1, <2>2, Cells
    <3> QED
      BY <3>1, Cells DEF Position, Positions
  <2>4. (Cols * i + j) \div Cols = i /\ (Cols * i + j) % Cols = j
    BY <1>0, <2>1, DivisionUnique
  <2> QED
    BY <2>2, <2>3, <2>4 DEF Position
<1>2. ASSUME NEW p \in Positions
      PROVE  /\ p \div Cols \in 0 .. Rows - 1 /\ p % Cols \in 0 .. Cols - 1
             /\ Position(p \div Cols, p % Cols) = p
  <2> DEFINE i == p \div Cols
             j == p % Cols
  <2>1. p \in Nat /\ p < Rows * Cols
    BY Cells DEF Positions
  <2>2. i \in Nat /\ j \in Nat /\ j < Cols /\ p = Cols * i + j
    <3>1. p = Cols * (p \div Cols) + (p % Cols)
      BY <1>0, <2>1, DivisionLaws
    <3> QED
      BY <1>0, <2>1, <3>1, DivisionLaws
  <2> HIDE DEF i, j
  <2>3. i < Rows
    <3>1. SUFFICES ASSUME ~(i < Rows) PROVE FALSE
      OBVIOUS
    <3>2. Rows <= i
      BY <1>0, <2>2, <3>1
    <3>3. Rows * Cols <= i * Cols
      <4>1. CASE Rows = i
        BY <4>1, Cells
      <4>2. CASE Rows < i
        BY <1>0, <2>2, <4>2, TimesLess, Cells
      <4> QED
        BY <1>0, <2>2, <3>2, <4>1, <4>2
    <3>4. i * Cols = Cols * i /\ i * Cols \in Nat
      BY <1>0, <2>2
    <3> QED
      BY <2>1, <2>2, <3>3, <3>4, Cells
  <2>4. i * Cols = Cols * i
    BY <1>0, <2>2
  <2> QED
    BY <1>0, <2>2, <2>3, <2>4 DEF i, j, Position
<1> QED
  BY <1>1, <1>2

(* Neighbouring cells.                                                      *)
LEMMA AdjacentLaws ==
    /\ \A p, q \in Positions : Adjacent(p, q) => Adjacent(q, p)
    /\ \A p \in Positions : ~Adjacent(p, p)
<1>1. \A a, b \in Int : Distance(a, b) = Distance(b, a) /\ Distance(a, a) = 0
  BY DEF Distance
<1>2. \A p \in Positions : p \div Cols \in Int /\ p % Cols \in Int
  BY PositionLaws
<1> QED
  BY <1>1, <1>2 DEF Adjacent

(* The blank is where it is.                                                *)
LEMMA BlankIs ==
    ASSUME NEW b \in Boards, NEW p \in Positions, b[p] = 0
    PROVE  BlankOf(b) = p
  BY BoardLaws

(* A move gives a board with the blank at its new place, and can be taken   *)
(* back.                                                                    *)
LEMMA SlideLaws ==
    ASSUME NEW b \in Boards, NEW p \in Positions
    PROVE  /\ Slide(b, p) \in Boards
           /\ BlankOf(Slide(b, p)) = p
           /\ p # BlankOf(b) => Slide(Slide(b, p), BlankOf(b)) = b
           /\ \A q \in Positions :
                 Slide(b, p)[q] = IF q = p THEN 0
                                  ELSE IF q = BlankOf(b) THEN b[p] ELSE b[q]
<1> DEFINE z == BlankOf(b)
           c == Slide(b, p)
<1>1. /\ b \in [Positions -> Tiles] /\ z \in Positions /\ b[z] = 0
      /\ \A q, r \in Positions : b[q] = b[r] => q = r
  BY BoardLaws
<1>2. 0 \in Tiles
  BY Cells DEF Tiles
<1> HIDE DEF z
<1>3. c \in [Positions -> Tiles]
  BY <1>1, <1>2 DEF Slide, z
<1>4. \A q \in Positions : c[q] = IF q = p THEN 0 ELSE IF q = z THEN b[p] ELSE b[q]
  BY <1>1, <1>2 DEF Slide, z
<1> HIDE DEF c
<1>5. \A q, r \in Positions : c[q] = c[r] => q = r
  BY <1>1, <1>4
<1>6. c \in Boards
  <2>1. DOMAIN c = Positions
    BY <1>3
  <2> QED
    BY <1>3, <1>5, <2>1 DEF Boards, IsInjective
<1>7. BlankOf(c) = p
  BY <1>4, <1>6, BlankIs
<1>8. ASSUME p # z PROVE Slide(c, z) = b
  <2>1. Slide(c, z) \in [Positions -> Tiles]
    BY <1>1, <1>2, <1>3, <1>7 DEF Slide
  <2>2. \A q \in Positions : Slide(c, z)[q] = IF q = z THEN 0 ELSE IF q = p THEN c[z] ELSE c[q]
    BY <1>1, <1>2, <1>3, <1>7 DEF Slide
  <2>3. \A q \in Positions : Slide(c, z)[q] = b[q]
    BY <1>1, <1>4, <1>8, <2>2
  <2> QED
    BY <1>1, <2>1, <2>3
<1> QED
  BY <1>4, <1>6, <1>7, <1>8 DEF z, c

(* Moves lead from boards to other boards, and back.                        *)
LEMMA MovesLaws ==
    /\ \A b \in Boards : Moves(b) \subseteq Boards
    /\ \A b \in Boards, c \in Boards : c \in Moves(b) => b \in Moves(c)
    /\ \A b \in Boards : \A c : c \in Moves(b) <=>
          \E p \in Positions : Adjacent(p, BlankOf(b)) /\ c = Slide(b, p)
    /\ \A b \in Boards : b \notin Moves(b)
<1>1. \A b \in Boards : \A c : c \in Moves(b) <=>
          \E p \in Positions : Adjacent(p, BlankOf(b)) /\ c = Slide(b, p)
  BY DEF Moves
<1>2. \A b \in Boards : Moves(b) \subseteq Boards
  BY <1>1, SlideLaws
<1>3. ASSUME NEW b \in Boards, NEW c \in Moves(b) PROVE b \in Moves(c) /\ c # b
  <2>1. PICK p \in Positions : Adjacent(p, BlankOf(b)) /\ c = Slide(b, p)
    BY <1>1
  <2>2. BlankOf(b) \in Positions
    BY BoardLaws
  <2>3. p # BlankOf(b) /\ Adjacent(BlankOf(b), p)
    BY <2>1, <2>2, AdjacentLaws
  <2>4. c \in Boards /\ BlankOf(c) = p /\ Slide(c, BlankOf(b)) = b
    BY <2>1, <2>3, SlideLaws
  <2> QED
    BY <1>1, <2>2, <2>3, <2>4
<1> QED
  BY <1>1, <1>2, <1>3

(* The solved board is a board, its blank in the last corner.               *)
LEMMA SolvedBoard ==
    Solved \in Boards /\ BlankOf(Solved) = Position(Rows - 1, Cols - 1)
<1> DEFINE N == Rows * Cols
<1>0. N \in Nat /\ N > 1 /\ Positions = 0 .. N - 1 /\ Tiles = 0 .. N - 1
  BY Cells DEF Positions, Tiles
<1>1. Solved = [p \in Positions |-> (p + 1) % N]
  BY DEF Solved
<1> HIDE DEF N
<1>2. \A p \in Positions : (p + 1) % N = IF p = N - 1 THEN 0 ELSE p + 1
  BY <1>0
<1>3. Solved \in [Positions -> Tiles]
  BY <1>0, <1>1, <1>2
<1>4. \A p \in Positions : Solved[p] = IF p = N - 1 THEN 0 ELSE p + 1
  BY <1>1, <1>2
<1>5. \A p, q \in Positions : Solved[p] = Solved[q] => p = q
  BY <1>0, <1>4
<1>6. Solved \in Boards
  <2>1. DOMAIN Solved = Positions
    BY <1>3
  <2> QED
    BY <1>3, <1>5, <2>1 DEF Boards, IsInjective
<1>7. N - 1 \in Positions /\ Solved[N - 1] = 0
  BY <1>0, <1>4
<1>8. Position(Rows - 1, Cols - 1) = N - 1
  <2>1. (Rows - 1) * Cols = Rows * Cols - Cols
    BY SizeAssumption
  <2>2. Rows * Cols \in Int /\ Cols \in Int
    BY SizeAssumption
  <2> QED
    BY <2>1, <2>2 DEF Position, N
<1> QED
  BY <1>6, <1>7, <1>8, BlankIs

(* The node of a board: its BitSet, and where the blank is.                 *)
NodeOf(b) == [bs |-> Encode(b), i |-> BlankOf(b) \div Cols, j |-> BlankOf(b) % Cols]

(* The node the search makes is that of the board after the move.           *)
LEMMA MovedNode ==
    ASSUME NEW b \in Boards, NEW i \in 0 .. Rows - 1, NEW j \in 0 .. Cols - 1,
           Position(i, j) # BlankOf(b)
    PROVE  Moved(NodeOf(b), i, j) = NodeOf(Slide(b, Position(i, j)))
<1> DEFINE z == BlankOf(b)
           p == Position(i, j)
           c == Slide(b, p)
           bs == SetValue(Encode(b), z, b[p])
           bt == SetValue(bs, p, 0)
<1>1. /\ b \in [Positions -> Tiles] /\ z \in Positions
      /\ c \in Boards /\ c \in [Positions -> Tiles] /\ BlankOf(c) = p
      /\ p \in Positions /\ p \div Cols = i /\ p % Cols = j
      /\ Position(z \div Cols, z % Cols) = z
  BY BoardLaws, SlideLaws, PositionLaws
<1>2. GetValue(Encode(b), p) = b[p]
  <2>1. Decode(Encode(b))[p] = GetValue(Encode(b), p)
    BY <1>1 DEF Decode
  <2> QED
    BY <1>1, <2>1, DecodeEncode
<1>3. Moved(NodeOf(b), i, j) = [bs |-> bt, i |-> i, j |-> j]
  BY <1>1, <1>2 DEF Moved, NodeOf
<1>4. \A q \in Positions : c[q] = IF q = p THEN 0 ELSE IF q = z THEN b[p] ELSE b[q]
  BY <1>1, SlideLaws
<1>5. 0 \in Tiles /\ b[p] \in Tiles /\ p # z
  BY <1>1, Cells DEF Tiles
<1> HIDE DEF z, p, c
<1>6. Encode(b) \in SUBSET AllBits /\ \A q \in Positions : Holds(Encode(b), q, b[q])
  BY <1>1, EncodeHolds
<1>7. /\ bs \in SUBSET AllBits /\ Holds(bs, z, b[p])
      /\ \A q \in Positions : q # z => Holds(bs, q, b[q])
  BY <1>1, <1>5, <1>6, SetValueHolds
<1> HIDE DEF bs
<1>8. /\ bt \in SUBSET AllBits /\ Holds(bt, p, 0) /\ Holds(bt, z, b[p])
      /\ \A q \in Positions : q # z /\ q # p => Holds(bt, q, b[q])
  BY <1>1, <1>5, <1>7, SetValueHolds
<1> HIDE DEF bt
<1>9. \A q \in Positions : Holds(bt, q, c[q])
  BY <1>4, <1>5, <1>8
<1>10. bt = Encode(c)
  <2>1. Encode(c) \in SUBSET AllBits /\ \A q \in Positions : Holds(Encode(c), q, c[q])
    BY <1>1, EncodeHolds
  <2> QED
    BY <1>8, <1>9, <2>1, SameBits
<1>11. NodeOf(c) = [bs |-> Encode(c), i |-> i, j |-> j]
  BY <1>1 DEF NodeOf, c, p
<1> QED
  BY <1>3, <1>10, <1>11 DEF p, c

(* The cell the search tries in direction d: row, column, whether it is on  *)
(* the board, and the board after the move.                                 *)
TowardI(b, d) == NodeOf(b).i + DX[d]
TowardJ(b, d) == NodeOf(b).j + DY[d]
CanMove(b, d) == ValidPos(TowardI(b, d), TowardJ(b, d))
Toward(b, d) == Slide(b, Position(TowardI(b, d), TowardJ(b, d)))

(* The four directions.                                                     *)
LEMMA Directions ==
    /\ DX[0] = 1 /\ DX[1] = 0 /\ DX[2] = -1 /\ DX[3] = 0
    /\ DY[0] = 0 /\ DY[1] = 1 /\ DY[2] = 0 /\ DY[3] = -1
  BY DEF DX, DY

(* Of two cells that are neighbours one lies in such a direction of the     *)
(* other.                                                                   *)
LEMMA OneApart ==
    \A x, y, u, v \in Int :
        Distance(u, x) + Distance(v, y) = 1 <=>
            \E d \in 0 .. 3 : u = x + DX[d] /\ v = y + DY[d]
<1>1. SUFFICES ASSUME NEW x \in Int, NEW y \in Int, NEW u \in Int, NEW v \in Int
               PROVE  Distance(u, x) + Distance(v, y) = 1 <=>
                         \E d \in 0 .. 3 : u = x + DX[d] /\ v = y + DY[d]
  OBVIOUS
<1>2. (\E d \in 0 .. 3 : u = x + DX[d] /\ v = y + DY[d]) <=>
         \/ u = x + 1 /\ v = y
         \/ u = x /\ v = y + 1
         \/ u = x - 1 /\ v = y
         \/ u = x /\ v = y - 1
  <2>1. 0 .. 3 = {0, 1, 2, 3}
    OBVIOUS
  <2> QED
    BY <2>1, Directions
<1>3. Distance(u, x) + Distance(v, y) = 1 <=>
         \/ u = x + 1 /\ v = y
         \/ u = x /\ v = y + 1
         \/ u = x - 1 /\ v = y
         \/ u = x /\ v = y - 1
  BY DEF Distance
<1> QED
  BY <1>2, <1>3

(* What the search tries in the four directions is every move there is, and *)
(* no other.                                                                *)
LEMMA TowardLaws ==
    /\ \A b \in Boards, d \in 0 .. 3 : CanMove(b, d) =>
          /\ Toward(b, d) \in Moves(b)
          /\ Moved(NodeOf(b), TowardI(b, d), TowardJ(b, d)) = NodeOf(Toward(b, d))
    /\ \A b \in Boards : \A c \in Moves(b) : \E d \in 0 .. 3 :
          CanMove(b, d) /\ c = Toward(b, d)
<1>1. ASSUME NEW b \in Boards, NEW d \in 0 .. 3, CanMove(b, d)
      PROVE  /\ Toward(b, d) \in Moves(b)
             /\ Moved(NodeOf(b), TowardI(b, d), TowardJ(b, d)) = NodeOf(Toward(b, d))
  <2> DEFINE u == TowardI(b, d)
             v == TowardJ(b, d)
             z == BlankOf(b)
             p == Position(u, v)
  <2>1. z \in Positions /\ z \div Cols \in Int /\ z % Cols \in Int
    BY BoardLaws, PositionLaws
  <2>2. u \in 0 .. Rows - 1 /\ v \in 0 .. Cols - 1
    BY <1>1 DEF CanMove, ValidPos
  <2>3. u = (z \div Cols) + DX[d] /\ v = (z % Cols) + DY[d]
    BY DEF TowardI, TowardJ, NodeOf
  <2> HIDE DEF u, v, z
  <2>4. p \in Positions /\ p \div Cols = u /\ p % Cols = v
    BY <2>2, PositionLaws
  <2> HIDE DEF p
  <2>5. u \in Int /\ v \in Int
    BY <2>2
  <2>6. Adjacent(p, z)
    BY <2>1, <2>3, <2>4, <2>5, OneApart DEF Adjacent
  <2>7. p # z
    BY <2>4, <2>6, AdjacentLaws
  <2>8. Slide(b, p) \in Moves(b)
    BY <2>4, <2>6, MovesLaws DEF z
  <2>9. Moved(NodeOf(b), u, v) = NodeOf(Slide(b, p))
    BY <2>2, <2>7, MovedNode DEF z, p
  <2> QED
    BY <2>8, <2>9 DEF Toward, p, u, v
<1>2. ASSUME NEW b \in Boards, NEW c \in Moves(b)
      PROVE  \E d \in 0 .. 3 : CanMove(b, d) /\ c = Toward(b, d)
  <2> DEFINE z == BlankOf(b)
  <2>1. PICK p \in Positions : Adjacent(p, z) /\ c = Slide(b, p)
    BY <1>2, MovesLaws
  <2>2. z \in Positions /\ z \div Cols \in Int /\ z % Cols \in Int
    BY BoardLaws, PositionLaws
  <2>3. /\ p \div Cols \in 0 .. Rows - 1 /\ p % Cols \in 0 .. Cols - 1
        /\ Position(p \div Cols, p % Cols) = p
    BY PositionLaws
  <2> HIDE DEF z
  <2>4. p \div Cols \in Int /\ p % Cols \in Int
    BY <2>3
  <2>5. PICK d \in 0 .. 3 : p \div Cols = (z \div Cols) + DX[d] /\ p % Cols = (z % Cols) + DY[d]
    BY <2>1, <2>2, <2>4, OneApart DEF Adjacent
  <2>6. TowardI(b, d) = p \div Cols /\ TowardJ(b, d) = p % Cols
    BY <2>5 DEF TowardI, TowardJ, NodeOf, z
  <2> QED
    BY <2>1, <2>3, <2>6 DEF CanMove, Toward, ValidPos
<1> QED
  BY <1>1, <1>2

(* A node tells its board.                                                  *)
LEMMA NodeOfLaws ==
    /\ \A b \in Boards : Decode(NodeOf(b).bs) = b /\ NodeOf(b).bs = Encode(b)
    /\ \A b \in Boards : NodeOf(b).bs \subseteq 0 .. SizeBS - 1
    /\ \A b \in Boards : /\ NodeOf(b).i \in 0 .. Rows - 1 /\ NodeOf(b).j \in 0 .. Cols - 1
                         /\ Position(NodeOf(b).i, NodeOf(b).j) = BlankOf(b)
    /\ \A b, c \in Boards : NodeOf(b).bs = NodeOf(c).bs => b = c
    /\ SolvedNode = NodeOf(Solved)
<1>1. \A b \in Boards : Decode(NodeOf(b).bs) = b /\ NodeOf(b).bs = Encode(b)
  BY BoardLaws, DecodeEncode DEF NodeOf
<1>2. \A b \in Boards : NodeOf(b).bs \subseteq 0 .. SizeBS - 1
  <2>1. AllBits \subseteq 0 .. SizeBS - 1
    BY BitPlaces DEF AllBits
  <2> QED
    BY <1>1, <2>1, BoardLaws, EncodeHolds
<1>3. \A b \in Boards : /\ NodeOf(b).i \in 0 .. Rows - 1 /\ NodeOf(b).j \in 0 .. Cols - 1
                        /\ Position(NodeOf(b).i, NodeOf(b).j) = BlankOf(b)
  BY BoardLaws, PositionLaws DEF NodeOf
<1>4. SolvedNode = NodeOf(Solved)
  <2>1. Rows - 1 \in 0 .. Rows - 1 /\ Cols - 1 \in 0 .. Cols - 1
    BY SizeAssumption
  <2> QED
    BY <2>1, SolvedBoard, PositionLaws DEF SolvedNode, NodeOf
<1>5. \A b, c \in Boards : NodeOf(b).bs = NodeOf(c).bs => b = c
  BY <1>1
<1> QED
  BY <1>1, <1>2, <1>3, <1>4, <1>5

-------------------------------------------------------------------------------
(*****************************************************************************)
(* Distances.                                                                *)
(*****************************************************************************)

(* The boards of w and those one move away.                                 *)
Reached(w) == DOMAIN w \cup UNION {Moves(b) : b \in DOMAIN w}

(* Within, one move farther: the new boards have distance n.                *)
Grow(w, n) == [b \in Reached(w) |-> IF b \in DOMAIN w THEN w[b] ELSE n]

(* Within, at first.                                                        *)
AtOnce == [b \in {Solved} |-> 0]

(* f follows the recursion that Within is defined by.                       *)
Levels(f) == f = [d \in Nat |-> IF d = 0 THEN AtOnce ELSE Grow(f[d - 1], d)]

(* What Within stands for, where that recursion has a solution.             *)
LEMMA WithinUnfold ==
    ASSUME NEW h, Levels(h)
    PROVE  Levels(Within)
  BY DEF Within, Levels, Grow, Reached, AtOnce

(* Boards with a number each.                                               *)
Distances == UNION {[T -> Nat] : T \in SUBSET Boards}

(* Grow keeps the numbers there are, and adds the boards one move away.     *)
LEMMA GrowLaws ==
    ASSUME NEW w \in Distances, NEW n \in Nat
    PROVE  /\ Grow(w, n) \in Distances
           /\ DOMAIN Grow(w, n) = Reached(w)
           /\ DOMAIN w \subseteq Reached(w) /\ DOMAIN w \subseteq Boards
           /\ \A b \in DOMAIN w : Grow(w, n)[b] = w[b] /\ w[b] \in Nat
           /\ \A b \in Reached(w) : b \notin DOMAIN w => Grow(w, n)[b] = n
           /\ \A b \in DOMAIN w : Moves(b) \subseteq Reached(w)
           /\ \A c \in Reached(w) : c \notin DOMAIN w =>
                 \E b \in DOMAIN w : c \in Moves(b)
<1>1. PICK T \in SUBSET Boards : w \in [T -> Nat]
  BY DEF Distances
<1>2. DOMAIN w = T
  BY <1>1
<1>3. Reached(w) \in SUBSET Boards
  BY <1>1, <1>2, MovesLaws DEF Reached
<1>4. Grow(w, n) \in [Reached(w) -> Nat]
  BY <1>1 DEF Grow
<1>5. Grow(w, n) \in Distances
  BY <1>3, <1>4 DEF Distances
<1>6. DOMAIN w \subseteq Reached(w) /\ \A b \in DOMAIN w : Moves(b) \subseteq Reached(w)
  BY DEF Reached
<1>7. \A c \in Reached(w) : c \notin DOMAIN w => \E b \in DOMAIN w : c \in Moves(b)
  BY DEF Reached
<1>8. \A b \in Reached(w) : Grow(w, n)[b] = IF b \in DOMAIN w THEN w[b] ELSE n
  BY DEF Grow
<1>9. \A b \in DOMAIN w : w[b] \in Nat
  BY <1>1
<1> QED
  BY <1>1, <1>2, <1>4, <1>5, <1>6, <1>7, <1>8, <1>9

(* Within is Distances, and grows.                                          *)
LEMMA WithinSteps ==
    /\ \A d \in Nat : Within[d] \in Distances /\ Within[d + 1] = Grow(Within[d], d + 1)
    /\ Within[0] = AtOnce
<1> DEFINE g == [x \in Nat \X Distances |-> Grow(x[2], x[1] + 1)]
<1>1. AtOnce \in Distances
  <2>1. AtOnce \in [{Solved} -> Nat] /\ {Solved} \in SUBSET Boards
    BY SolvedBoard DEF AtOnce
  <2> QED
    BY <2>1 DEF Distances
<1>2. g \in [Nat \X Distances -> Distances]
  BY GrowLaws
<1>3. PICK h : h \in Iterates(Distances, AtOnce, g)
  <2> HIDE DEF g
  <2> QED
    BY <1>1, <1>2, Recursion
<1>4. /\ h \in [Nat -> Distances] /\ h[0] = AtOnce
      /\ \A n \in Nat : h[n + 1] = g[<<n, h[n]>>]
  BY <1>3 DEF Iterates
<1>5. \A n \in Nat : h[n + 1] = Grow(h[n], n + 1)
  BY <1>4
<1> HIDE DEF g
<1>6. \A d \in Nat : h[d] = IF d = 0 THEN AtOnce ELSE Grow(h[d - 1], d)
  <2>1. \A d \in Nat : d # 0 => d - 1 \in Nat /\ (d - 1) + 1 = d
    OBVIOUS
  <2>2. ASSUME NEW d \in Nat, d # 0 PROVE h[d] = Grow(h[d - 1], d)
    <3>1. h[(d - 1) + 1] = Grow(h[d - 1], (d - 1) + 1)
      BY <1>5, <2>1, <2>2
    <3> QED
      BY <2>1, <2>2, <3>1
  <2> QED
    BY <1>4, <2>2
<1>7. Levels(h)
  BY <1>4, <1>6 DEF Levels
<1>8. Levels(Within)
  BY <1>7, WithinUnfold
<1>9. \A d \in Nat : Within[d] = IF d = 0 THEN AtOnce ELSE Grow(Within[d - 1], d)
  BY <1>8 DEF Levels
<1>10. ASSUME NEW d \in Nat PROVE Within[d + 1] = Grow(Within[d], d + 1)
  <2>1. d + 1 \in Nat /\ d + 1 # 0 /\ (d + 1) - 1 = d
    OBVIOUS
  <2>2. Within[d + 1] = Grow(Within[(d + 1) - 1], d + 1)
    BY <1>9, <2>1
  <2> QED
    BY <2>1, <2>2
<1>11. Within[0] = AtOnce
  BY <1>9
<1> DEFINE Good == {d \in Nat : Within[d] \in Distances}
<1>12. \A d \in Nat : d \in Good
  <2>1. 0 \in Good
    BY <1>1, <1>11
  <2>2. ASSUME NEW d \in Nat, d \in Good PROVE d + 1 \in Good
    <3>1. Within[d] \in Distances /\ d + 1 \in Nat
      BY <2>2
    <3>2. Grow(Within[d], d + 1) \in Distances
      BY <3>1, GrowLaws
    <3> QED
      BY <1>10, <3>1, <3>2
  <2> HIDE DEF Good
  <2> QED
    BY <2>1, <2>2, SetInduction
<1> QED
  BY <1>10, <1>11, <1>12

(* w gives the boards at most n moves away their distance.                  *)
Measures(w, n) ==
    /\ w \in Distances
    /\ Solved \in DOMAIN w /\ w[Solved] = 0
    /\ \A b \in DOMAIN w : w[b] <= n /\ (w[b] = 0 => b = Solved)
    /\ \A b \in DOMAIN w : w[b] < n =>
          \A c \in Moves(b) : c \in DOMAIN w /\ w[c] <= w[b] + 1
    /\ \A b \in DOMAIN w : b # Solved =>
          \E c \in DOMAIN w : b \in Moves(c) /\ w[b] = w[c] + 1

(* That stays so as w grows.                                                *)
LEMMA GrowMeasures ==
    ASSUME NEW w, NEW n \in Nat, Measures(w, n)
    PROVE  Measures(Grow(w, n + 1), n + 1)
<1> DEFINE v == Grow(w, n + 1)
<1>1. w \in Distances /\ n + 1 \in Nat
  BY DEF Measures
<1>2. /\ v \in Distances
      /\ DOMAIN v = Reached(w)
      /\ DOMAIN w \subseteq DOMAIN v /\ DOMAIN w \subseteq Boards
      /\ \A b \in DOMAIN w : v[b] = w[b] /\ w[b] \in Nat
      /\ \A b \in DOMAIN v : b \notin DOMAIN w => v[b] = n + 1
      /\ \A b \in DOMAIN w : Moves(b) \subseteq DOMAIN v
      /\ \A c \in DOMAIN v : c \notin DOMAIN w => \E b \in DOMAIN w : c \in Moves(b)
  BY <1>1, GrowLaws
<1> HIDE DEF v
<1>3. Solved \in DOMAIN v /\ v[Solved] = 0
  BY <1>2 DEF Measures
<1>4. \A b \in DOMAIN v : v[b] <= n + 1 /\ (v[b] = 0 => b = Solved)
  <2> SUFFICES ASSUME NEW b \in DOMAIN v PROVE v[b] <= n + 1 /\ (v[b] = 0 => b = Solved)
    OBVIOUS
  <2>1. CASE b \in DOMAIN w
    BY <1>2, <2>1 DEF Measures
  <2>2. CASE b \notin DOMAIN w
    BY <1>2, <2>2
  <2> QED
    BY <2>1, <2>2
<1>5. ASSUME NEW b \in DOMAIN v, v[b] < n + 1, NEW c \in Moves(b)
      PROVE  c \in DOMAIN v /\ v[c] <= v[b] + 1
  <2>1. b \in DOMAIN w /\ v[b] = w[b] /\ w[b] \in Nat
    BY <1>2, <1>5
  <2>2. c \in DOMAIN v
    BY <1>2, <1>5, <2>1
  <2>3. CASE c \notin DOMAIN w
    <3>1. v[c] = n + 1
      BY <1>2, <2>2, <2>3
    <3>2. ~(w[b] < n)
      BY <1>5, <2>1, <2>3 DEF Measures
    <3> QED
      BY <2>1, <2>2, <3>1, <3>2
  <2>4. CASE c \in DOMAIN w
    <3>1. v[c] = w[c] /\ w[c] \in Nat /\ w[c] <= n
      BY <1>2, <2>4 DEF Measures
    <3>2. w[b] < n => w[c] <= w[b] + 1
      BY <1>5, <2>1 DEF Measures
    <3> QED
      BY <1>5, <2>1, <2>2, <3>1, <3>2
  <2> QED
    BY <2>3, <2>4
<1>6. ASSUME NEW b \in DOMAIN v, b # Solved
      PROVE  \E c \in DOMAIN v : b \in Moves(c) /\ v[b] = v[c] + 1
  <2>1. CASE b \in DOMAIN w
    BY <1>2, <1>6, <2>1 DEF Measures
  <2>2. CASE b \notin DOMAIN w
    <3>1. PICK c \in DOMAIN w : b \in Moves(c)
      BY <1>2, <2>2
    <3>2. ~(w[c] < n)
      BY <2>2, <3>1 DEF Measures
    <3>3. w[c] \in Nat /\ w[c] <= n
      BY <1>2 DEF Measures
    <3>4. w[c] = n
      BY <3>2, <3>3
    <3> QED
      BY <1>2, <2>2, <3>1, <3>4
  <2> QED
    BY <2>1, <2>2
<1>7. Measures(v, n + 1)
  BY <1>2, <1>3, <1>4, <1>5, <1>6 DEF Measures
<1> QED
  BY <1>7 DEF v

(* Within is the distance.                                                  *)
LEMMA WithinMeasures == \A d \in Nat : Measures(Within[d], d)
<1> DEFINE Good == {d \in Nat : Measures(Within[d], d)}
<1>1. 0 \in Good
  <2>1. DOMAIN Within[0] = {Solved} /\ Within[0][Solved] = 0
    BY WithinSteps DEF AtOnce
  <2> QED
    BY <2>1, WithinSteps DEF Measures
<1>2. \A d \in Nat : d \in Good => d + 1 \in Good
  BY WithinSteps, GrowMeasures
<1>3. \A d \in Nat : d \in Good
  <2> HIDE DEF Good
  <2> QED
    BY <1>1, <1>2, SetInduction
<1> QED
  BY <1>3

(* There is a last distance: Within has more boards every time it changes,  *)
(* and no more than there are.                                              *)
LEMMA DepthExists ==
    /\ Depth \in Nat
    /\ Within[Depth + 1] = Within[Depth]
<1> DEFINE M == Cardinality(Boards)
           Stops(d) == Within[d + 1] = Within[d]
           found == [d \in Nat |-> Cardinality(DOMAIN Within[d])]
           Grows == {d \in Nat : d <= M + 1 => found[d] > d}
<1>1. M \in Nat /\ IsFiniteSet(Boards)
  BY BoardsFinite
<1>2. ASSUME NEW d \in Nat
      PROVE  /\ DOMAIN Within[d] \subseteq Boards
             /\ IsFiniteSet(DOMAIN Within[d])
             /\ found[d] \in Nat /\ found[d] <= M
  <2>1. DOMAIN Within[d] \subseteq Boards
    BY WithinSteps, GrowLaws
  <2> QED
    BY <1>1, <2>1, FS_Subset, FS_CardinalityType
<1>3. \E d \in 0 .. M : Stops(d)
  <2>1. SUFFICES ASSUME \A d \in 0 .. M : ~Stops(d) PROVE FALSE
    OBVIOUS
  <2>2. 0 \in Grows
    <3>1. DOMAIN Within[0] = {Solved}
      BY WithinSteps DEF AtOnce
    <3>2. found[0] = 1
      BY <3>1, FS_Singleton
    <3> QED
      BY <3>2
  <2>3. ASSUME NEW d \in Nat, d \in Grows PROVE d + 1 \in Grows
    <3>1. SUFFICES ASSUME d + 1 <= M + 1 PROVE found[d + 1] > d + 1
      OBVIOUS
    <3>2. found[d] > d /\ d \in 0 .. M
      BY <1>1, <2>3, <3>1
    <3>3. /\ Within[d] \in Distances
          /\ Within[d + 1] = Grow(Within[d], d + 1)
      BY WithinSteps
    <3>4. DOMAIN Within[d] \subseteq DOMAIN Within[d + 1]
      BY <3>3, GrowLaws
    <3>5. DOMAIN Within[d] # DOMAIN Within[d + 1]
      <4>1. SUFFICES ASSUME DOMAIN Within[d] = DOMAIN Within[d + 1] PROVE FALSE
        OBVIOUS
      <4>2. \A b \in DOMAIN Within[d] : Within[d + 1][b] = Within[d][b]
        BY <3>3, GrowLaws
      <4>3. /\ Within[d] = [b \in DOMAIN Within[d] |-> Within[d][b]]
            /\ Within[d + 1] = [b \in DOMAIN Within[d + 1] |-> Within[d + 1][b]]
        <5>1. Within[d + 1] \in Distances
          BY WithinSteps
        <5>2. \A w \in Distances : w = [b \in DOMAIN w |-> w[b]]
          BY DEF Distances
        <5> QED
          BY <3>3, <5>1, <5>2
      <4>4. Within[d + 1] = Within[d]
        BY <4>1, <4>2, <4>3
      <4> QED
        BY <2>1, <3>2, <4>4
    <3>6. found[d] <= found[d + 1] /\ found[d] # found[d + 1]
      <4>1. d + 1 \in Nat
        OBVIOUS
      <4>2. IsFiniteSet(DOMAIN Within[d + 1])
        BY <1>2, <4>1
      <4>3. Cardinality(DOMAIN Within[d]) < Cardinality(DOMAIN Within[d + 1])
        BY <3>4, <3>5, <4>2, FS_Subset, FS_CardinalityType
      <4> QED
        BY <1>2, <4>1, <4>3
    <3>7. found[d] \in Nat /\ found[d + 1] \in Nat
      BY <1>2
    <3> HIDE DEF found
    <3> QED
      BY <3>2, <3>6, <3>7
  <2>4. M + 1 \in Grows
    <3> HIDE DEF Grows, M
    <3> QED
      BY <1>1, <2>2, <2>3, SetInduction
  <2>5. found[M + 1] > M + 1 /\ found[M + 1] <= M /\ found[M + 1] \in Nat
    <3>1. M + 1 \in Nat
      BY <1>1
    <3> HIDE DEF found
    <3> QED
      BY <1>1, <1>2, <2>4, <3>1
  <2> HIDE DEF found, M
  <2> QED
    BY <1>1, <2>5
<1>4. Depth \in 0 .. M /\ Stops(Depth)
  <2> HIDE DEF M
  <2> QED
    BY <1>3 DEF Depth, M
<1> QED
  BY <1>1, <1>4

(* The distance to the solved board: 0 for that board alone, one more than  *)
(* that of some neighbour for every other, and at most one more than that   *)
(* of any.                                                                  *)
LEMMA SolutionLaws ==
    /\ Solved \in DOMAIN Solution /\ Solution[Solved] = 0
    /\ DOMAIN Solution \subseteq Boards
    /\ \A b \in DOMAIN Solution : Solution[b] \in Nat
    /\ \A b \in DOMAIN Solution : Solution[b] = 0 => b = Solved
    /\ \A b \in DOMAIN Solution : \A c \in Moves(b) :
          c \in DOMAIN Solution /\ Solution[c] <= Solution[b] + 1
    /\ \A b \in DOMAIN Solution : b # Solved =>
          \E c \in DOMAIN Solution : b \in Moves(c) /\ Solution[b] = Solution[c] + 1
<1>1. Measures(Solution, Depth) /\ Measures(Solution, Depth + 1)
  <2>1. Depth + 1 \in Nat
    BY DepthExists
  <2>2. Measures(Within[Depth + 1], Depth + 1) /\ Measures(Within[Depth], Depth)
    BY <2>1, DepthExists, WithinMeasures
  <2> QED
    BY <2>2, DepthExists DEF Solution
<1>2. Solution \in Distances
  BY <1>1 DEF Measures
<1>3. DOMAIN Solution \subseteq Boards /\ \A b \in DOMAIN Solution : Solution[b] \in Nat
  BY <1>2, GrowLaws
<1>4. \A b \in DOMAIN Solution : Solution[b] < Depth + 1
  BY <1>1, <1>3, DepthExists DEF Measures
<1> QED
  BY <1>1, <1>3, <1>4 DEF Measures

-------------------------------------------------------------------------------
(*****************************************************************************)
(* The invariants of the solver (Graph.java).                                *)
(*****************************************************************************)

(* The board with number n in the nodes N, the numbers, the distance, the   *)
(* boards met, and the nodes there may be.                                  *)
BoardIn(N, n) == Decode(N[n + 1].bs)
IdsOf(N) == 0 .. Len(N) - 1
Level(N, n) == Solution[BoardIn(N, n)]
Boarded(N) == {BoardIn(N, n) : n \in IdsOf(N)}
Nodes == {NodeOf(b) : b \in DOMAIN Solution}

(* The nodes met: of boards that can be solved, the solved one first, none  *)
(* twice, and none before one that is nearer.                               *)
Known(N) ==
    /\ N \in Seq(Nodes)
    /\ Len(N) >= 1 /\ BoardIn(N, 0) = Solved
    /\ \A m, n \in IdsOf(N) : BoardIn(N, m) = BoardIn(N, n) => m = n
    /\ \A m, n \in IdsOf(N) : m <= n => Level(N, m) <= Level(N, n)

(* The first neighbour of n: the board it was met from.                     *)
Par(G, n) == G[n + 1][1]

(* The edges: each board is joined to the one it was met from, which has a  *)
(* smaller number and is one move nearer, and to those first met from it.   *)
IsTree(N, G) ==
    /\ G \in Seq(Seq(Nat)) /\ Len(G) = Len(N)
    /\ \A n \in IdsOf(N) : n # 0 =>
          /\ Len(G[n + 1]) >= 1
          /\ Par(G, n) \in 0 .. n - 1
          /\ BoardIn(N, Par(G, n)) \in Moves(BoardIn(N, n))
          /\ Level(N, n) = Level(N, Par(G, n)) + 1
          /\ n \in Range(G[Par(G, n) + 1])
    /\ \A m \in IdsOf(N) : \A e \in Range(G[m + 1]) :
          /\ e \in IdsOf(N)
          /\ (m # 0 /\ e = Par(G, m)) \/ (e # 0 /\ Par(G, e) = m)

(* The boards before c were tried in every direction, c in the first l:     *)
(* what is one move away from them was met.  The boards waiting begin at    *)
(* number first, and every board as near as c was met.                      *)
Expanded(N, first, c, l) ==
    /\ first \in 0 .. Len(N) /\ c \in IdsOf(N) /\ l \in 0 .. 4
    /\ first = c + 1 \/ (first = 0 /\ c = 0 /\ l = 4)
    /\ \A n \in 0 .. first - 1, d \in 0 .. 3 :
          (n < c \/ d < l) /\ CanMove(BoardIn(N, n), d) =>
             Toward(BoardIn(N, n), d) \in Boarded(N)
    /\ \A n \in IdsOf(N) : Level(N, n) <= Level(N, c) + 1
    /\ \A b \in DOMAIN Solution : Solution[b] <= Level(N, c) => b \in Boarded(N)

(* The queue holds the last boards met, in order.                           *)
Queued(N, q) ==
    /\ q \in Seq(Nat) /\ Len(q) <= Len(N)
    /\ \A n \in 1 .. Len(q) : q[n] = Len(N) - Len(q) + n - 1

(* The invariant of creatGraph; dijkstra changes none of it.                *)
SearchInv ==
    /\ Known(nodes)
    /\ IsTree(nodes, graph)
    /\ Queued(nodes, queue)
    /\ Expanded(nodes, Len(nodes) - Len(queue), cur, k)
    /\ phase \in {"explore", "dijkstra", "ready"}
    /\ phase # "explore" => queue = << >> /\ k = 4

(* The triple by which dijkstra settles n.                                  *)
Triple(n) == <<Level(nodes, Par(graph, n)) + 1, n, Par(graph, n)>>

(* The invariant of dijkstra: every triple waiting leads from a settled     *)
(* board to a neighbour; a board is settled after the one it was met from,  *)
(* and from it; an unsettled one whose parent is settled has its triple     *)
(* waiting.                                                                 *)
DijkstraInv ==
    /\ marks \subseteq Ids
    /\ parents \in [Ids -> Ids] /\ parents[0] = 0
    /\ 0 \in marks => marks = Ids /\ pq = {<<0, 0, 0>>}
    /\ \A t \in pq : t = <<0, 0, 0>> \/
          \E m \in Ids \ marks : \E e \in Range(graph[m + 1]) :
             t = <<Level(nodes, m) + 1, e, m>>
    /\ \A n \in Ids \ marks : n # 0 => Par(graph, n) \notin marks /\ parents[n] = Par(graph, n)
    /\ \A n \in marks : n # 0 => Par(graph, n) \in marks \/ Triple(n) \in pq
    /\ \A n \in Ids \ marks : Level(nodes, n) <= farthest.distance
    /\ phase = "ready" => pq = {}

(* The invariant of the solver.                                             *)
GraphInv ==
    /\ SearchInv
    /\ farthest \in [id : Ids, distance : Nat]
    /\ farthest.distance = Level(nodes, farthest.id)
    /\ phase = "explore" => pq = {} /\ marks = {}
    /\ phase # "explore" => DijkstraInv

-------------------------------------------------------------------------------
(*****************************************************************************)
(* creatGraph.                                                               *)
(*****************************************************************************)

(* What Known says of one board.                                            *)
LEMMA KnownNodes ==
    ASSUME NEW N, Known(N), NEW n \in IdsOf(N)
    PROVE  /\ Len(N) \in Nat /\ n \in Nat
           /\ BoardIn(N, n) \in DOMAIN Solution /\ BoardIn(N, n) \in Boards
           /\ N[n + 1] = NodeOf(BoardIn(N, n))
           /\ Level(N, n) \in Nat
<1>1. Len(N) \in Nat /\ n \in Nat /\ n + 1 \in 1 .. Len(N)
  BY LenProperties DEF Known, IdsOf
<1>2. N[n + 1] \in Nodes
  BY <1>1, ElementOfSeq DEF Known
<1>3. PICK b \in DOMAIN Solution : N[n + 1] = NodeOf(b)
  BY <1>2 DEF Nodes
<1>4. b \in Boards /\ Solution[b] \in Nat
  BY SolutionLaws
<1>5. BoardIn(N, n) = b
  BY <1>3, <1>4, NodeOfLaws DEF BoardIn
<1> QED
  BY <1>1, <1>3, <1>4, <1>5 DEF Level

(* A new board that is no nearer than the others is added.                  *)
LEMMA AddKnown ==
    ASSUME NEW N, Known(N), NEW c \in DOMAIN Solution, c \notin Boarded(N),
           \A n \in IdsOf(N) : Level(N, n) <= Solution[c]
    PROVE  LET M == Append(N, NodeOf(c))
           IN  /\ Known(M)
               /\ Len(M) = Len(N) + 1
               /\ \A n \in IdsOf(N) : BoardIn(M, n) = BoardIn(N, n) /\ Level(M, n) = Level(N, n)
               /\ BoardIn(M, Len(N)) = c /\ Level(M, Len(N)) = Solution[c]
               /\ Boarded(M) = Boarded(N) \cup {c}
               /\ IdsOf(M) = IdsOf(N) \cup {Len(N)}
<1> DEFINE M == Append(N, NodeOf(c))
           l == Len(N)
<1>1. N \in Seq(Nodes) /\ l \in Nat /\ l >= 1 /\ NodeOf(c) \in Nodes
  BY LenProperties DEF Known, Nodes
<1>2. /\ M \in Seq(Nodes) /\ Len(M) = l + 1
      /\ \A n \in 1 .. l : M[n] = N[n]
      /\ M[l + 1] = NodeOf(c)
  BY <1>1, AppendProperties
<1> HIDE DEF M, l
<1>3. IdsOf(N) = 0 .. l - 1 /\ IdsOf(M) = 0 .. l
  BY <1>1, <1>2 DEF IdsOf, l
<1>4. ASSUME NEW n \in IdsOf(N)
      PROVE  BoardIn(M, n) = BoardIn(N, n) /\ Level(M, n) = Level(N, n)
  <2>1. n + 1 \in 1 .. l
    BY <1>1, <1>3
  <2>2. M[n + 1] = N[n + 1]
    BY <1>2, <2>1
  <2> QED
    BY <2>2 DEF BoardIn, Level
<1>5. BoardIn(M, l) = c /\ Level(M, l) = Solution[c]
  BY <1>2, SolutionLaws, NodeOfLaws DEF BoardIn, Level
<1>6. IdsOf(M) = IdsOf(N) \cup {l}
  BY <1>1, <1>3
<1>7. Boarded(M) = Boarded(N) \cup {c}
  BY <1>4, <1>5, <1>6 DEF Boarded
<1>8. \A m, n \in IdsOf(M) : BoardIn(M, m) = BoardIn(M, n) => m = n
  <2>1. \A n \in IdsOf(N) : BoardIn(M, n) # c
    BY <1>4 DEF Boarded
  <2> QED
    BY <1>4, <1>5, <1>6, <2>1 DEF Known
<1>9. \A m, n \in IdsOf(M) : m <= n => Level(M, m) <= Level(M, n)
  <2> SUFFICES ASSUME NEW m \in IdsOf(M), NEW n \in IdsOf(M), m <= n
               PROVE  Level(M, m) <= Level(M, n)
    OBVIOUS
  <2>1. CASE n \in IdsOf(N)
    <3>1. m \in IdsOf(N)
      BY <1>1, <1>3, <2>1
    <3> QED
      BY <1>4, <2>1, <3>1 DEF Known
  <2>2. CASE n = l /\ m \in IdsOf(N)
    BY <1>4, <1>5, <2>2
  <2>3. CASE n = l /\ m = l
    BY <1>5, <2>3, SolutionLaws
  <2> QED
    BY <1>6, <2>1, <2>2, <2>3
<1>10. BoardIn(M, 0) = Solved
  <2>1. 0 \in IdsOf(N)
    BY <1>1, <1>3
  <2> QED
    BY <1>4, <2>1 DEF Known
<1>11. Known(M)
  BY <1>1, <1>2, <1>8, <1>9, <1>10 DEF Known
<1> QED
  BY <1>2, <1>4, <1>5, <1>6, <1>7, <1>11 DEF M, l

(* addEdge: n becomes the last neighbour of m, and m the first of n.        *)
AddEdge(G, m, n) == Append([G EXCEPT ![m + 1] = Append(@, n)], <<m>>)

(* The elements of a longer sequence.                                       *)
LEMMA RangeAppend ==
    ASSUME NEW s \in Seq(Nat), NEW e \in Nat, NEW x
    PROVE  x \in Range(Append(s, e)) <=> x \in Range(s) \/ x = e
<1>1. /\ Append(s, e) \in Seq(Nat) /\ Len(Append(s, e)) = Len(s) + 1 /\ Len(s) \in Nat
      /\ \A n \in 1 .. Len(s) : Append(s, e)[n] = s[n]
      /\ Append(s, e)[Len(s) + 1] = e
  BY AppendProperties, LenProperties
<1>2. \A t \in Seq(Nat) : \A y : y \in Range(t) <=> \E n \in 1 .. Len(t) : t[n] = y
  BY DEF Range
<1>3. 1 .. Len(s) + 1 = 1 .. Len(s) \cup {Len(s) + 1}
  BY <1>1
<1>4. x \in Range(Append(s, e)) <=>
         \E n \in 1 .. Len(s) \cup {Len(s) + 1} : Append(s, e)[n] = x
  BY <1>1, <1>2, <1>3
<1> QED
  BY <1>1, <1>2, <1>4

(* The new board hangs on the one it was met from.                          *)
LEMMA AddTree ==
    ASSUME NEW N, NEW G, Known(N), IsTree(N, G), NEW m \in IdsOf(N),
           NEW M, Known(M), Len(M) = Len(N) + 1,
           \A n \in IdsOf(N) : BoardIn(M, n) = BoardIn(N, n),
           BoardIn(M, m) \in Moves(BoardIn(M, Len(N))),
           Level(M, Len(N)) = Level(M, m) + 1
    PROVE  IsTree(M, AddEdge(G, m, Len(N)))
<1> DEFINE l == Len(N)
           F == [G EXCEPT ![m + 1] = Append(@, l)]
           H == AddEdge(G, m, l)
<1>1. /\ l \in Nat /\ l >= 1 /\ m \in Nat /\ m < l /\ m + 1 \in 1 .. l
      /\ G \in Seq(Seq(Nat)) /\ Len(G) = l
  BY LenProperties DEF Known, IsTree, IdsOf
<1>2. \A n \in 0 .. l - 1 : n + 1 \in 1 .. l /\ G[n + 1] \in Seq(Nat)
  <2>1. \A n \in 0 .. l - 1 : n + 1 \in 1 .. l
    BY <1>1
  <2> QED
    BY <1>1, <2>1, ElementOfSeq
<1>3. IdsOf(N) = 0 .. l - 1 /\ IdsOf(M) = 0 .. l
  BY <1>1 DEF IdsOf
<1> HIDE DEF l
<1>4. /\ F \in Seq(Seq(Nat)) /\ Len(F) = l
      /\ \A n \in 0 .. l - 1 : F[n + 1] = IF n = m THEN Append(G[m + 1], l) ELSE G[n + 1]
  <2>1. G[m + 1] \in Seq(Nat)
    BY <1>1, <1>2
  <2>2. Append(G[m + 1], l) \in Seq(Nat)
    BY <1>1, <2>1, AppendProperties
  <2>3. F \in Seq(Seq(Nat)) /\ Len(F) = l
    BY <1>1, <2>2, ExceptSeq
  <2>4. ASSUME NEW n \in 0 .. l - 1
        PROVE  F[n + 1] = IF n = m THEN Append(G[m + 1], l) ELSE G[n + 1]
    BY <1>1, <1>2, <2>2, ExceptSeq
  <2> QED
    BY <2>3, <2>4
<1> HIDE DEF F
<1>5. /\ H \in Seq(Seq(Nat)) /\ Len(H) = l + 1
      /\ \A n \in 1 .. l : H[n] = F[n]
      /\ H[l + 1] = <<m>>
  <2>1. <<m>> \in Seq(Nat)
    BY <1>1
  <2>2. H = Append(F, <<m>>)
    BY DEF AddEdge, F
  <2> HIDE DEF H
  <2> QED
    BY <1>4, <2>1, <2>2, AppendProperties
<1> HIDE DEF H
<1>6. \A n \in 0 .. l - 1 : H[n + 1] = IF n = m THEN Append(G[m + 1], l) ELSE G[n + 1]
  BY <1>2, <1>4, <1>5
<1>7. ASSUME NEW n \in 0 .. l - 1, n # 0
      PROVE  Len(H[n + 1]) >= 1 /\ Par(H, n) = Par(G, n) /\ Par(G, n) \in 0 .. n - 1
  <2>1. Len(G[n + 1]) >= 1 /\ Par(G, n) \in 0 .. n - 1 /\ G[n + 1] \in Seq(Nat)
    BY <1>2, <1>3, <1>7 DEF IsTree
  <2>2. CASE n = m
    <3>1. /\ Len(Append(G[m + 1], l)) = Len(G[m + 1]) + 1
          /\ Append(G[m + 1], l)[1] = G[m + 1][1]
      BY <1>1, <2>1, <2>2, AppendProperties
    <3>2. H[n + 1] = Append(G[m + 1], l) /\ Len(G[m + 1]) \in Nat
      BY <1>6, <2>1, <2>2, LenProperties
    <3> QED
      BY <2>1, <2>2, <3>1, <3>2 DEF Par
  <2>3. CASE n # m
    BY <1>6, <2>1, <2>3 DEF Par
  <2> QED
    BY <2>2, <2>3
<1>8. Len(H[l + 1]) = 1 /\ Par(H, l) = m
  BY <1>5 DEF Par
<1>9. \A n \in 0 .. l - 1 : \A e : e \in Range(H[n + 1]) <=>
         e \in Range(G[n + 1]) \/ (n = m /\ e = l)
  <2>1. ASSUME NEW n \in 0 .. l - 1, NEW e, n = m
        PROVE  e \in Range(H[n + 1]) <=> e \in Range(G[n + 1]) \/ e = l
    BY <1>1, <1>2, <1>6, <2>1, RangeAppend
  <2> QED
    BY <1>6, <2>1
<1>10. \A e : e \in Range(H[l + 1]) <=> e = m
  BY <1>5 DEF Range
<1>11. ASSUME NEW n \in IdsOf(M), n # 0
       PROVE  /\ Len(H[n + 1]) >= 1
              /\ Par(H, n) \in 0 .. n - 1
              /\ BoardIn(M, Par(H, n)) \in Moves(BoardIn(M, n))
              /\ Level(M, n) = Level(M, Par(H, n)) + 1
              /\ n \in Range(H[Par(H, n) + 1])
  <2>1. CASE n = l
    <3>1. m \in 0 .. l - 1 /\ l \in Range(H[m + 1])
      <4>1. m \in 0 .. l - 1
        BY <1>1
      <4>2. l \in Range(H[m + 1]) <=> l \in Range(G[m + 1]) \/ (m = m /\ l = l)
        BY <1>9, <4>1
      <4> QED
        BY <4>1, <4>2
    <3>2. BoardIn(M, m) \in Moves(BoardIn(M, l)) /\ Level(M, l) = Level(M, m) + 1
      BY DEF l
    <3>3. /\ Len(H[l + 1]) >= 1
          /\ Par(H, l) \in 0 .. l - 1
          /\ BoardIn(M, Par(H, l)) \in Moves(BoardIn(M, l))
          /\ Level(M, l) = Level(M, Par(H, l)) + 1
          /\ l \in Range(H[Par(H, l) + 1])
      BY <1>8, <3>1, <3>2
    <3> QED
      BY <2>1, <3>3
  <2>2. CASE n # l
    <3>1. n \in 0 .. l - 1 /\ n \in IdsOf(N)
      BY <1>1, <1>3, <2>2
    <3>2. Len(H[n + 1]) >= 1 /\ Par(H, n) = Par(G, n) /\ Par(G, n) \in 0 .. n - 1
      BY <1>7, <1>11, <3>1
    <3>3. Par(G, n) \in IdsOf(N) /\ Par(G, n) \in 0 .. l - 1
      BY <1>1, <1>3, <3>1, <3>2
    <3>4. /\ BoardIn(N, Par(G, n)) \in Moves(BoardIn(N, n))
          /\ Level(N, n) = Level(N, Par(G, n)) + 1
          /\ n \in Range(G[Par(G, n) + 1])
      BY <1>11, <3>1 DEF IsTree
    <3>5. /\ BoardIn(M, Par(G, n)) = BoardIn(N, Par(G, n)) /\ BoardIn(M, n) = BoardIn(N, n)
      BY <3>1, <3>3
    <3> QED
      BY <1>9, <3>2, <3>3, <3>4, <3>5 DEF Level
  <2> QED
    BY <2>1, <2>2
<1>12. ASSUME NEW n \in IdsOf(M), NEW e \in Range(H[n + 1])
       PROVE  /\ e \in IdsOf(M)
              /\ (n # 0 /\ e = Par(H, n)) \/ (e # 0 /\ Par(H, e) = n)
  <2>1. CASE n = l
    BY <1>1, <1>3, <1>8, <1>10, <1>12, <2>1
  <2>2. CASE n \in 0 .. l - 1 /\ e \in Range(G[n + 1])
    <3>1. /\ e \in 0 .. l - 1
          /\ (n # 0 /\ e = Par(G, n)) \/ (e # 0 /\ Par(G, e) = n)
      BY <1>3, <2>2 DEF IsTree
    <3> QED
      BY <1>1, <1>3, <1>7, <2>2, <3>1
  <2>3. CASE n = m /\ e = l
    BY <1>1, <1>3, <1>8, <2>3
  <2>4. n = l \/ n \in 0 .. l - 1
    BY <1>1, <1>3
  <2>5. n \in 0 .. l - 1 => e \in Range(G[n + 1]) \/ (n = m /\ e = l)
    BY <1>9, <1>12
  <2> QED
    BY <2>1, <2>2, <2>3, <2>4, <2>5
<1>13. H \in Seq(Seq(Nat)) /\ Len(H) = Len(M)
  BY <1>5 DEF l
<1>14. IsTree(M, H)
  BY <1>11, <1>12, <1>13 DEF IsTree
<1> QED
  BY <1>14 DEF H, l

(* One direction more was tried.                                            *)
LEMMA TryDirection ==
    ASSUME NEW N, Known(N), NEW first, NEW c, NEW l, Expanded(N, first, c, l), l # 4,
           NEW M, Known(M), Boarded(N) \subseteq Boarded(M),
           IdsOf(N) \subseteq IdsOf(M), Len(M) >= Len(N),
           \A n \in IdsOf(N) : BoardIn(M, n) = BoardIn(N, n),
           \A n \in IdsOf(M) : Level(M, n) <= Level(M, c) + 1,
           CanMove(BoardIn(N, c), l) => Toward(BoardIn(N, c), l) \in Boarded(M)
    PROVE  Expanded(M, first, c, l + 1)
<1>1. /\ first = c + 1 /\ c \in IdsOf(N) /\ l \in 0 .. 3
      /\ Len(N) \in Nat /\ Len(M) \in Nat /\ c \in Nat
  BY KnownNodes DEF Expanded, Known
<1>2. first \in 0 .. Len(M) /\ c \in IdsOf(M) /\ l + 1 \in 0 .. 4
  BY <1>1 DEF Expanded
<1>3. ASSUME NEW n \in 0 .. first - 1, NEW d \in 0 .. 3, n < c \/ d < l + 1,
             CanMove(BoardIn(M, n), d)
      PROVE  Toward(BoardIn(M, n), d) \in Boarded(M)
  <2>1. n \in IdsOf(N)
    BY <1>1 DEF IdsOf
  <2>2. BoardIn(M, n) = BoardIn(N, n)
    BY <2>1
  <2>3. CASE n < c \/ d < l
    <3>1. Toward(BoardIn(N, n), d) \in Boarded(N)
      BY <1>3, <2>2, <2>3 DEF Expanded
    <3> QED
      BY <2>2, <3>1
  <2>4. CASE n = c /\ d = l
    BY <1>3, <2>2, <2>4
  <2>5. n < c \/ n = c
    BY <1>1, <1>3
  <2>6. d < l \/ d = l \/ n < c
    BY <1>1, <1>3
  <2> QED
    BY <2>3, <2>4, <2>5, <2>6
<1>4. ASSUME NEW b \in DOMAIN Solution, Solution[b] <= Level(M, c) PROVE b \in Boarded(M)
  <2>1. Level(M, c) = Level(N, c)
    BY <1>1 DEF Level
  <2> QED
    BY <1>4, <2>1 DEF Expanded
<1> QED
  BY <1>1, <1>2, <1>3, <1>4 DEF Expanded

(* A board met for the first time is one move farther than the one          *)
(* expanded.                                                                *)
LEMMA NewLevel ==
    ASSUME NEW N, Known(N), NEW first, NEW c, NEW l, Expanded(N, first, c, l), l # 4,
           CanMove(BoardIn(N, c), l), Toward(BoardIn(N, c), l) \notin Boarded(N)
    PROVE  /\ Toward(BoardIn(N, c), l) \in DOMAIN Solution
           /\ Toward(BoardIn(N, c), l) \in Moves(BoardIn(N, c))
           /\ BoardIn(N, c) \in Moves(Toward(BoardIn(N, c), l))
           /\ Solution[Toward(BoardIn(N, c), l)] = Level(N, c) + 1
<1> DEFINE b == BoardIn(N, c)
           t == Toward(b, l)
<1>1. c \in IdsOf(N) /\ l \in 0 .. 3
  BY DEF Expanded
<1>2. b \in DOMAIN Solution /\ b \in Boards /\ Level(N, c) = Solution[b] /\ Level(N, c) \in Nat
  BY <1>1, KnownNodes DEF Level
<1> HIDE DEF b
<1>3. t \in Moves(b)
  BY <1>1, <1>2, TowardLaws DEF b
<1> HIDE DEF t
<1>4. /\ t \in DOMAIN Solution /\ Solution[t] <= Solution[b] + 1
      /\ t \in Boards /\ Solution[t] \in Nat
  BY <1>2, <1>3, SolutionLaws
<1>5. ~(Solution[t] <= Level(N, c))
  BY <1>4 DEF Expanded, t, b
<1>6. b \in Moves(t)
  BY <1>2, <1>3, <1>4, MovesLaws
<1> QED
  BY <1>2, <1>3, <1>4, <1>5, <1>6 DEF t, b

(* The next board is expanded.                                              *)
LEMMA NextOfQueue ==
    ASSUME NEW N, Known(N), NEW first, NEW c, Expanded(N, first, c, 4), first < Len(N)
    PROVE  Expanded(N, first + 1, first, 0)
<1>1. /\ Len(N) \in Nat /\ first \in Nat /\ c \in IdsOf(N) /\ c \in Nat
      /\ first = c + 1 \/ (first = 0 /\ c = 0)
  BY KnownNodes DEF Expanded, Known
<1>2. first \in IdsOf(N) /\ first + 1 \in 0 .. Len(N)
  BY <1>1 DEF IdsOf
<1>3. Level(N, c) \in Nat /\ Level(N, first) \in Nat /\ Level(N, c) <= Level(N, first)
      /\ Level(N, first) <= Level(N, c) + 1
  BY <1>1, <1>2, KnownNodes DEF Known, Expanded
<1>4. ASSUME NEW n \in 0 .. (first + 1) - 1, NEW d \in 0 .. 3, n < first \/ d < 0,
             CanMove(BoardIn(N, n), d)
      PROVE  Toward(BoardIn(N, n), d) \in Boarded(N)
  <2>1. n \in 0 .. first - 1 /\ d < 4
    BY <1>1, <1>4
  <2> QED
    BY <1>4, <2>1 DEF Expanded
<1>5. \A n \in IdsOf(N) : Level(N, n) <= Level(N, first) + 1
  <2> SUFFICES ASSUME NEW n \in IdsOf(N) PROVE Level(N, n) <= Level(N, first) + 1
    OBVIOUS
  <2>1. Level(N, n) \in Nat /\ Level(N, n) <= Level(N, c) + 1
    BY KnownNodes DEF Expanded
  <2> QED
    BY <1>3, <2>1
<1>6. ASSUME NEW b \in DOMAIN Solution, Solution[b] <= Level(N, first) PROVE b \in Boarded(N)
  <2>1. Solution[b] \in Nat
    BY SolutionLaws
  <2>2. CASE Solution[b] <= Level(N, c)
    BY <2>2 DEF Expanded
  <2>3. CASE ~(Solution[b] <= Level(N, c))
    <3>1. Solution[b] = Level(N, c) + 1 /\ Level(N, first) = Level(N, c) + 1
      BY <1>3, <1>6, <2>1, <2>3
    <3>2. b # Solved
      BY <1>3, <3>1, SolutionLaws
    <3>3. PICK a \in DOMAIN Solution : b \in Moves(a) /\ Solution[b] = Solution[a] + 1
      BY <3>2, SolutionLaws
    <3>4. Solution[a] \in Nat /\ a \in Boards
      BY SolutionLaws
    <3>5. Solution[a] = Level(N, c)
      BY <1>3, <3>1, <3>3, <3>4
    <3>6. a \in Boarded(N)
      BY <1>3, <3>5 DEF Expanded
    <3>7. PICK n \in IdsOf(N) : a = BoardIn(N, n)
      BY <3>6 DEF Boarded
    <3>8. Level(N, n) = Level(N, c)
      BY <3>5, <3>7 DEF Level
    <3>9. n < first
      <4>1. SUFFICES ASSUME ~(n < first) PROVE FALSE
        OBVIOUS
      <4>2. first <= n
        BY <1>1, <4>1, KnownNodes
      <4>3. Level(N, first) <= Level(N, n)
        BY <1>2, <4>2 DEF Known
      <4> QED
        BY <1>3, <3>1, <3>8, <4>3
    <3>10. n \in 0 .. first - 1
      BY <1>1, <3>9, KnownNodes
    <3>11. PICK d \in 0 .. 3 : CanMove(a, d) /\ b = Toward(a, d)
      BY <3>3, <3>4, TowardLaws
    <3> QED
      BY <3>7, <3>10, <3>11 DEF Expanded
  <2> QED
    BY <2>2, <2>3
<1> QED
  BY <1>1, <1>2, <1>4, <1>5, <1>6 DEF Expanded

(* When no board is left to expand, every board that can be solved was met. *)
LEMMA AllReached ==
    ASSUME NEW N, Known(N), NEW first, NEW c, Expanded(N, first, c, 4), first = Len(N)
    PROVE  Boarded(N) = DOMAIN Solution
<1> DEFINE Found == {n \in Nat : \A b \in DOMAIN Solution : Solution[b] = n => b \in Boarded(N)}
<1>1. first = c + 1 /\ Len(N) \in Nat /\ Len(N) >= 1 /\ c \in Nat
  BY KnownNodes DEF Expanded, Known
<1>2. 0 \in Found
  <2>1. 0 \in IdsOf(N)
    BY <1>1 DEF IdsOf
  <2>2. Solved \in Boarded(N)
    BY <2>1 DEF Known, Boarded
  <2> QED
    BY <2>2, SolutionLaws
<1>3. ASSUME NEW n \in Nat, n \in Found PROVE n + 1 \in Found
  <2>1. SUFFICES ASSUME NEW b \in DOMAIN Solution, Solution[b] = n + 1 PROVE b \in Boarded(N)
    OBVIOUS
  <2>2. b # Solved
    BY <2>1, SolutionLaws
  <2>3. PICK a \in DOMAIN Solution : b \in Moves(a) /\ Solution[b] = Solution[a] + 1
    BY <2>2, SolutionLaws
  <2>4. a \in Boards /\ Solution[a] \in Nat
    BY SolutionLaws
  <2>5. a \in Boarded(N)
    BY <1>3, <2>1, <2>3, <2>4
  <2>6. PICK m \in IdsOf(N) : a = BoardIn(N, m)
    BY <2>5 DEF Boarded
  <2>7. m \in 0 .. first - 1
    BY <1>1 DEF IdsOf
  <2>8. PICK d \in 0 .. 3 : CanMove(a, d) /\ b = Toward(a, d)
    BY <2>3, <2>4, TowardLaws
  <2> QED
    BY <2>6, <2>7, <2>8 DEF Expanded
<1>4. \A n \in Nat : n \in Found
  <2> HIDE DEF Found
  <2> QED
    BY <1>2, <1>3, SetInduction
<1>5. DOMAIN Solution \subseteq Boarded(N)
  BY <1>4, SolutionLaws
<1>6. Boarded(N) \subseteq DOMAIN Solution
  BY KnownNodes DEF Boarded
<1> QED
  BY <1>5, <1>6

(* There are then as many numbers as such boards.                           *)
LEMMA AsMany ==
    ASSUME NEW N, Known(N), Boarded(N) = DOMAIN Solution
    PROVE  Len(N) = Cardinality(DOMAIN Solution)
<1> DEFINE S == IdsOf(N)
           f == [n \in S |-> BoardIn(N, n)]
<1>1. Len(N) \in Nat
  BY DEF Known
<1>2. IsFiniteSet(S) /\ Cardinality(S) = Len(N)
  <2>1. 0 \in Int /\ Len(N) - 1 \in Int
    BY <1>1
  <2>2. /\ IsFiniteSet(0 .. Len(N) - 1)
        /\ Cardinality(0 .. Len(N) - 1) = IF 0 > Len(N) - 1 THEN 0 ELSE Len(N) - 1 - 0 + 1
    BY <2>1, FS_Interval
  <2>3. Len(N) >= 1
    BY DEF Known
  <2> QED
    BY <1>1, <2>2, <2>3 DEF IdsOf
<1>3. f \in [S -> DOMAIN Solution]
  BY DEF Boarded
<1>4. \A m, n \in S : f[m] = f[n] => m = n
  BY DEF Known
<1>5. \A b \in DOMAIN Solution : \E n \in S : f[n] = b
  BY DEF Boarded
<1> HIDE DEF f, S
<1>6. f \in Bijection(S, DOMAIN Solution)
  <2>1. DOMAIN f = S
    BY <1>3
  <2> QED
    BY <1>3, <1>4, <1>5, <2>1 DEF Bijection, Injection, Surjection, IsInjective
<1> QED
  BY <1>2, <1>6, FS_Bijection DEF ExistsBijection

(* The search begins with the solved board.                                 *)
LEMMA SearchInit == GraphInit => SearchInv
<1> SUFFICES ASSUME GraphInit PROVE SearchInv
  OBVIOUS
<1>1. /\ nodes = <<NodeOf(Solved)>> /\ graph = << << >> >> /\ queue = <<0>>
      /\ cur = 0 /\ k = 4 /\ phase = "explore"
  BY NodeOfLaws DEF GraphInit
<1>2. /\ NodeOf(Solved) \in Nodes /\ Solved \in Boards /\ Solution[Solved] = 0
      /\ nodes \in Seq(Nodes) /\ Len(nodes) = 1 /\ nodes[1] = NodeOf(Solved)
  BY <1>1, SolutionLaws DEF Nodes
<1>3. IdsOf(nodes) = {0} /\ BoardIn(nodes, 0) = Solved /\ Level(nodes, 0) = 0
  BY <1>2, NodeOfLaws DEF IdsOf, BoardIn, Level
<1>4. Known(nodes)
  BY <1>2, <1>3 DEF Known
<1>5. graph \in Seq(Seq(Nat)) /\ Len(graph) = 1 /\ graph[1] = << >>
  BY <1>1
<1>6. Range(graph[0 + 1]) = {}
  BY <1>5 DEF Range
<1>7. IsTree(nodes, graph)
  BY <1>2, <1>3, <1>5, <1>6 DEF IsTree
<1>8. Queued(nodes, queue) /\ Len(nodes) - Len(queue) = 0
  BY <1>1, <1>2 DEF Queued
<1>9. \A b \in DOMAIN Solution : Solution[b] <= 0 => b = Solved
  BY SolutionLaws
<1>10. Expanded(nodes, 0, 0, 4)
  BY <1>2, <1>3, <1>9 DEF Expanded, Boarded
<1> QED
  BY <1>1, <1>4, <1>7, <1>8, <1>10 DEF SearchInv

(* The queue is a sequence.                                                 *)
LEMMA QueueLength ==
    ASSUME NEW N, Known(N), NEW q, Queued(N, q)
    PROVE  Len(N) \in Nat /\ Len(q) \in Nat /\ q \in Seq(Nat)
  BY LenProperties DEF Known, Queued

(* Taking the next board off the queue keeps the invariant.                 *)
LEMMA SearchPollNode == SearchInv /\ PollNode => SearchInv'
<1> SUFFICES ASSUME SearchInv, PollNode PROVE SearchInv'
  OBVIOUS
<1>1. /\ phase = "explore" /\ k = 4 /\ queue # << >>
      /\ cur' = Head(queue) /\ queue' = Tail(queue) /\ k' = 0
      /\ nodes' = nodes /\ graph' = graph /\ phase' = phase
  BY DEF PollNode
<1>2. /\ Known(nodes) /\ IsTree(nodes, graph) /\ Queued(nodes, queue)
      /\ Expanded(nodes, Len(nodes) - Len(queue), cur, 4)
  BY <1>1 DEF SearchInv
<1> DEFINE first == Len(nodes) - Len(queue)
<1>3. /\ Len(nodes) \in Nat /\ Len(queue) \in Nat /\ queue \in Seq(Nat)
      /\ Len(queue) <= Len(nodes) /\ Len(queue) # 0
  BY <1>1, <1>2, QueueLength, EmptySeq DEF Queued
<1>4. /\ Head(queue) = queue[1] /\ Tail(queue) \in Seq(Nat)
      /\ Len(Tail(queue)) = Len(queue) - 1
      /\ \A n \in 1 .. Len(Tail(queue)) : Tail(queue)[n] = queue[n + 1]
  BY <1>1, <1>3, HeadTailProperties
<1>5. cur' = first
  <2>1. queue[1] = first + 1 - 1
    BY <1>2, <1>3 DEF Queued
  <2> QED
    BY <1>1, <1>3, <1>4, <2>1
<1>6. Queued(nodes, Tail(queue))
  <2> SUFFICES ASSUME NEW n \in 1 .. Len(Tail(queue))
               PROVE Tail(queue)[n] = Len(nodes) - Len(Tail(queue)) + n - 1
    BY <1>3, <1>4 DEF Queued
  <2>1. n + 1 \in 1 .. Len(queue)
    BY <1>3, <1>4
  <2>2. queue[n + 1] = Len(nodes) - Len(queue) + (n + 1) - 1
    BY <1>2, <2>1 DEF Queued
  <2> QED
    BY <1>3, <1>4, <2>2
<1>7. Expanded(nodes, first + 1, first, 0)
  BY <1>2, <1>3, NextOfQueue
<1>8. Len(nodes) - Len(Tail(queue)) = first + 1
  BY <1>3, <1>4
<1> HIDE DEF first
<1>9. Expanded(nodes, Len(nodes) - Len(Tail(queue)), cur', 0)
  BY <1>5, <1>7, <1>8
<1> QED
  BY <1>1, <1>2, <1>6, <1>9 DEF SearchInv

(* The boards of the variable nodes.                                        *)
LEMMA NodeIn ==
    /\ \A n : Node(n) = nodes[n + 1] /\ Board(n) = BoardIn(nodes, n)
    /\ Ids = IdsOf(nodes)
  BY DEF Node, Board, BoardIn, Ids, IdsOf

(* ids.get: a BitSet is registered when its board was met.                  *)
LEMMA RegisteredIs ==
    ASSUME Known(nodes), NEW b \in Boards
    PROVE  /\ Registered(Encode(b)) <=> b \in Boarded(nodes)
           /\ \A n \in Ids : Node(n).bs = Encode(b) <=> Board(n) = b
<1>1. ASSUME NEW n \in Ids PROVE Node(n).bs = Encode(b) <=> Board(n) = b
  <2>1. BoardIn(nodes, n) \in Boards /\ nodes[n + 1] = NodeOf(BoardIn(nodes, n))
    BY NodeIn, KnownNodes
  <2>2. Node(n).bs = NodeOf(BoardIn(nodes, n)).bs
    BY <2>1, NodeIn
  <2> QED
    BY <2>1, <2>2, NodeIn, NodeOfLaws
<1> QED
  BY <1>1, NodeIn DEF Registered, Boarded

(* Trying a direction keeps the invariant: a board that is not registered   *)
(* is new.                                                                  *)
LEMMA SearchNeighbour == SearchInv /\ Neighbour => SearchInv'
<1> SUFFICES ASSUME SearchInv, Neighbour PROVE SearchInv'
  OBVIOUS
<1> DEFINE b == BoardIn(nodes, cur)
           t == Toward(b, k)
           first == Len(nodes) - Len(queue)
           next == Moved(Node(cur), Node(cur).i + DX[k], Node(cur).j + DY[k])
           valid == ValidPos(Node(cur).i + DX[k], Node(cur).j + DY[k])
<1>1. /\ phase = "explore" /\ k < 4 /\ k' = k + 1 /\ cur' = cur /\ phase' = phase
      /\ IF valid /\ ~Registered(next.bs) THEN AddNode(next)
         ELSE UNCHANGED <<nodes, graph, queue>>
  BY DEF Neighbour
<1>2. /\ Known(nodes) /\ IsTree(nodes, graph) /\ Queued(nodes, queue)
      /\ Expanded(nodes, first, cur, k)
  BY DEF SearchInv
<1>3. cur \in IdsOf(nodes) /\ k \in 0 .. 3 /\ k # 4
  BY <1>1, <1>2 DEF Expanded
<1>4. b \in DOMAIN Solution /\ b \in Boards /\ Node(cur) = NodeOf(b)
  BY <1>2, <1>3, KnownNodes, NodeIn
<1>5. valid <=> CanMove(b, k)
  BY <1>4 DEF CanMove, TowardI, TowardJ
<1>6. CanMove(b, k) => next = NodeOf(t) /\ t \in Boards
  BY <1>3, <1>4, TowardLaws, MovesLaws DEF TowardI, TowardJ
<1> HIDE DEF valid, next, first
<1>7. CanMove(b, k) => (Registered(next.bs) <=> t \in Boarded(nodes))
  <2>1. ASSUME t \in Boards, next = NodeOf(t)
        PROVE  Registered(next.bs) <=> t \in Boarded(nodes)
    <3>1. next.bs = Encode(t)
      BY <2>1, NodeOfLaws
    <3> HIDE DEF t
    <3> QED
      BY <1>2, <2>1, <3>1, RegisteredIs
  <2> QED
    BY <1>6, <2>1
<1>8. Len(nodes) \in Nat /\ Len(queue) \in Nat /\ queue \in Seq(Nat) /\ Len(queue) <= Len(nodes)
  BY <1>2, QueueLength DEF Queued
<1>9. CASE CanMove(b, k) /\ t \notin Boarded(nodes)
  <2>1. AddNode(NodeOf(t))
    BY <1>1, <1>5, <1>6, <1>7, <1>9
  <2>2. /\ t \in DOMAIN Solution /\ b \in Moves(t) /\ Solution[t] = Level(nodes, cur) + 1
    BY <1>2, <1>3, <1>9, NewLevel
  <2> DEFINE l == Len(nodes)
  <2>3. /\ nodes' = Append(nodes, NodeOf(t))
        /\ graph' = AddEdge(graph, cur, l)
        /\ queue' = Append(queue, l)
    BY <2>1 DEF AddNode, AddEdge
  <2>4. \A n \in IdsOf(nodes) : Level(nodes, n) <= Solution[t]
    BY <1>2, <2>2 DEF Expanded
  <2> HIDE DEF t, b
  <2>5. /\ Known(nodes')
        /\ Len(nodes') = l + 1
        /\ \A n \in IdsOf(nodes) : /\ BoardIn(nodes', n) = BoardIn(nodes, n)
                                   /\ Level(nodes', n) = Level(nodes, n)
        /\ BoardIn(nodes', l) = t /\ Level(nodes', l) = Solution[t]
        /\ Boarded(nodes') = Boarded(nodes) \cup {t}
        /\ IdsOf(nodes') = IdsOf(nodes) \cup {l}
    BY <1>2, <1>9, <2>2, <2>3, <2>4, AddKnown
  <2>6. IsTree(nodes', graph')
    <3>1. BoardIn(nodes', cur) \in Moves(BoardIn(nodes', l))
      BY <1>3, <2>2, <2>5 DEF b
    <3>2. Level(nodes', l) = Level(nodes', cur) + 1
      BY <1>3, <2>2, <2>5
    <3> QED
      BY <1>2, <1>3, <2>3, <2>5, <3>1, <3>2, AddTree
  <2>7. Queued(nodes', queue') /\ Len(nodes') - Len(queue') = first
    <3>1. /\ queue' \in Seq(Nat) /\ Len(queue') = Len(queue) + 1
          /\ \A n \in 1 .. Len(queue) : queue'[n] = queue[n]
          /\ queue'[Len(queue) + 1] = l
      BY <1>8, <2>3, AppendProperties
    <3>2. \A n \in 1 .. Len(queue) : queue[n] = Len(nodes) - Len(queue) + n - 1
      BY <1>2 DEF Queued
    <3>3. ASSUME NEW n \in 1 .. Len(queue')
          PROVE queue'[n] = Len(nodes') - Len(queue') + n - 1
      <4>1. CASE n \in 1 .. Len(queue)
        BY <1>8, <2>5, <3>1, <3>2, <4>1
      <4>2. CASE n = Len(queue) + 1
        BY <1>8, <2>5, <3>1, <4>2
      <4> QED
        BY <1>8, <3>1, <4>1, <4>2
    <3> QED
      BY <1>8, <2>5, <3>1, <3>3 DEF Queued, first
  <2>8. Expanded(nodes', first, cur, k + 1)
    <3>1. \A n \in IdsOf(nodes') : Level(nodes', n) <= Level(nodes', cur) + 1
      <4>1. Level(nodes', cur) = Level(nodes, cur) /\ Level(nodes, cur) \in Nat
        BY <1>2, <1>3, <2>5, KnownNodes
      <4>2. \A n \in IdsOf(nodes) : Level(nodes, n) <= Level(nodes, cur) + 1
        BY <1>2 DEF Expanded
      <4> QED
        BY <2>2, <2>5, <4>1, <4>2
    <3>2. Toward(BoardIn(nodes, cur), k) \in Boarded(nodes')
      BY <2>5 DEF t, b
    <3>3. Len(nodes') >= Len(nodes)
      BY <1>8, <2>5
    <3> QED
      BY <1>2, <1>3, <2>5, <3>1, <3>2, <3>3, TryDirection
  <2> QED
    BY <1>1, <2>5, <2>6, <2>7, <2>8 DEF SearchInv
<1>10. CASE ~(CanMove(b, k) /\ t \notin Boarded(nodes))
  <2>1. nodes' = nodes /\ graph' = graph /\ queue' = queue
    BY <1>1, <1>5, <1>7, <1>10
  <2>2. Expanded(nodes, first, cur, k + 1)
    <3>1. \A n \in IdsOf(nodes) : Level(nodes, n) <= Level(nodes, cur) + 1
      BY <1>2 DEF Expanded
    <3>2. CanMove(BoardIn(nodes, cur), k) => Toward(BoardIn(nodes, cur), k) \in Boarded(nodes)
      BY <1>10
    <3> HIDE DEF b, t
    <3>3. Len(nodes) >= Len(nodes)
      BY <1>8
    <3> QED
      BY <1>2, <1>3, <3>1, <3>2, <3>3, TryDirection
  <2> HIDE DEF b, t
  <2> QED
    BY <1>1, <1>2, <2>1, <2>2 DEF SearchInv, first
<1> QED
  BY <1>9, <1>10

(* The solver's invariant holds at first.                                   *)
LEMMA GraphInit0 == GraphInit => GraphInv
<1> SUFFICES ASSUME GraphInit PROVE GraphInv
  OBVIOUS
<1>1. SearchInv
  BY SearchInit
<1>2. /\ farthest = [id |-> 0, distance |-> 0] /\ pq = {} /\ marks = {} /\ phase = "explore"
  BY DEF GraphInit
<1>3. 0 \in Ids
  BY <1>1, NodeIn DEF SearchInv, Known, IdsOf
<1>4. Level(nodes, 0) = 0
  BY <1>1, SolutionLaws DEF SearchInv, Known, Level
<1> QED
  BY <1>1, <1>2, <1>3, <1>4 DEF GraphInv

(* What the search leaves, in terms of the numbers of boards.               *)
LEMMA StartLevel ==
    ASSUME SearchInv
    PROVE  /\ 0 \in Ids /\ Level(nodes, 0) = 0 /\ Board(0) = Solved
           /\ \A n \in Ids : n \in Nat /\ Level(nodes, n) \in Nat /\ Board(n) \in DOMAIN Solution
           /\ \A n \in Ids : Level(nodes, n) = 0 => n = 0
           /\ \A n \in Ids : n # 0 =>
                 /\ Par(graph, n) \in Ids /\ Par(graph, n) < n
                 /\ Level(nodes, n) = Level(nodes, Par(graph, n)) + 1
                 /\ Board(Par(graph, n)) \in Moves(Board(n))
                 /\ n \in Range(graph[Par(graph, n) + 1])
           /\ \A m \in Ids : \A e \in Range(graph[m + 1]) :
                 /\ e \in Ids
                 /\ (m # 0 /\ e = Par(graph, m)) \/ (e # 0 /\ Par(graph, e) = m)
<1>1. Known(nodes) /\ IsTree(nodes, graph) /\ Ids = IdsOf(nodes)
  BY NodeIn DEF SearchInv
<1>2. \A n \in Ids : /\ n \in Nat /\ Level(nodes, n) \in Nat
                     /\ Board(n) \in DOMAIN Solution
  BY <1>1, KnownNodes, NodeIn
<1>3. 0 \in Ids /\ Level(nodes, 0) = 0 /\ Board(0) = Solved
  BY <1>1, NodeIn, SolutionLaws DEF Known, IdsOf, Level
<1>4. ASSUME NEW n \in Ids, n # 0
      PROVE  /\ Par(graph, n) \in Ids /\ Par(graph, n) < n
             /\ Level(nodes, n) = Level(nodes, Par(graph, n)) + 1
             /\ Board(Par(graph, n)) \in Moves(Board(n))
             /\ n \in Range(graph[Par(graph, n) + 1])
  <2>1. /\ Par(graph, n) \in 0 .. n - 1
        /\ Level(nodes, n) = Level(nodes, Par(graph, n)) + 1
        /\ BoardIn(nodes, Par(graph, n)) \in Moves(BoardIn(nodes, n))
        /\ n \in Range(graph[Par(graph, n) + 1])
    BY <1>1, <1>4 DEF IsTree
  <2>2. Par(graph, n) \in Ids /\ Par(graph, n) < n
    BY <1>1, <1>2, <2>1 DEF IdsOf, Known
  <2> QED
    BY <2>1, <2>2, NodeIn
<1>5. \A n \in Ids : Level(nodes, n) = 0 => n = 0
  BY <1>2, <1>4
<1>6. \A m \in Ids : \A e \in Range(graph[m + 1]) :
         /\ e \in Ids
         /\ (m # 0 /\ e = Par(graph, m)) \/ (e # 0 /\ Par(graph, e) = m)
  BY <1>1 DEF IsTree
<1> QED
  BY <1>2, <1>3, <1>4, <1>5, <1>6

(* The search adds boards and keeps those there are.                        *)
LEMMA NodesKept ==
    ASSUME SearchInv, PollNode \/ Neighbour
    PROVE  Ids \subseteq Ids' /\ \A n \in Ids : Level(nodes, n)' = Level(nodes, n)
<1>1. CASE UNCHANGED nodes
  BY <1>1 DEF Level, BoardIn, Ids
<1>2. CASE ~UNCHANGED nodes
  <2>1. PICK node : nodes' = Append(nodes, node)
    BY <1>2 DEF PollNode, Neighbour, AddNode
  <2>2. nodes \in Seq(Nodes) /\ Len(nodes) \in Nat
    BY LenProperties DEF SearchInv, Known
  <2>3. /\ Len(nodes') = Len(nodes) + 1
        /\ \A n \in 1 .. Len(nodes) : nodes'[n] = nodes[n]
    BY <2>1, <2>2
  <2>4. Ids \subseteq Ids'
    BY <2>2, <2>3 DEF Ids
  <2>5. ASSUME NEW n \in Ids PROVE nodes'[n + 1] = nodes[n + 1]
    <3>1. n + 1 \in 1 .. Len(nodes)
      BY <2>2 DEF Ids
    <3> QED
      BY <2>3, <3>1
  <2> QED
    BY <2>4, <2>5 DEF Level, BoardIn
<1> QED
  BY <1>1, <1>2

(* Steps of the search leave what dijkstra uses alone.                      *)
LEMMA SearchSteps ==
    GraphInv /\ (PollNode \/ Neighbour) => GraphInv'
<1> SUFFICES ASSUME GraphInv, PollNode \/ Neighbour PROVE GraphInv'
  OBVIOUS
<1>1. SearchInv /\ SearchInv'
  BY SearchPollNode, SearchNeighbour DEF GraphInv
<1>2. /\ phase = "explore" /\ phase' = "explore" /\ pq' = pq /\ marks' = marks
      /\ farthest' = farthest
  BY DEF PollNode, Neighbour, dijkstraVars
<1>3. Ids \subseteq Ids' /\ \A n \in Ids : Level(nodes, n)' = Level(nodes, n)
  BY <1>1, NodesKept
<1>4. farthest \in [id : Ids, distance : Nat] /\ farthest.distance = Level(nodes, farthest.id)
      /\ pq = {} /\ marks = {}
  BY <1>2 DEF GraphInv
<1>5. farthest.id \in Ids
  BY <1>4
<1>6. farthest' \in [id : Ids', distance : Nat]
  BY <1>2, <1>3, <1>4
<1>7. Level(nodes, farthest.id)' = Level(nodes', farthest'.id)
  BY <1>2 DEF Level, BoardIn
<1> QED
  BY <1>1, <1>2, <1>3, <1>4, <1>5, <1>6, <1>7 DEF GraphInv

(* Steps of dijkstra leave what the search has left.                        *)
LEMMA SearchKept ==
    ASSUME SearchInv, UNCHANGED searchVars, queue = << >>, k = 4,
           phase' \in {"explore", "dijkstra", "ready"}
    PROVE  /\ SearchInv'
           /\ Ids' = Ids /\ nodes' = nodes /\ graph' = graph
  BY DEF SearchInv, searchVars, Ids

-------------------------------------------------------------------------------
(*****************************************************************************)
(* dijkstra.                                                                 *)
(*****************************************************************************)

(* dijkstra begins with the triple of the solved board.                     *)
LEMMA StepStartDijkstra == GraphInv /\ StartDijkstra => GraphInv'
<1> SUFFICES ASSUME GraphInv, StartDijkstra PROVE GraphInv'
  OBVIOUS
<1>1. /\ SearchInv /\ queue = << >> /\ k = 4
      /\ UNCHANGED searchVars /\ farthest' = farthest
      /\ phase' = "dijkstra" /\ parents' = [n \in Ids |-> n] /\ marks' = Ids
      /\ pq' = {<<0, 0, 0>>}
  BY DEF GraphInv, StartDijkstra
<1>2. SearchInv' /\ Ids' = Ids /\ nodes' = nodes /\ graph' = graph
  BY <1>1, SearchKept
<1>3. 0 \in Ids /\ \A n \in Ids : n # 0 => Par(graph, n) \in Ids
  BY <1>1, StartLevel
<1>4. /\ marks' \subseteq Ids' /\ parents' \in [Ids' -> Ids'] /\ parents'[0] = 0
      /\ Ids' \ marks' = {}
  BY <1>1, <1>2, <1>3
<1>5. DijkstraInv'
  BY <1>1, <1>2, <1>3, <1>4 DEF DijkstraInv
<1>6. /\ farthest' \in [id : Ids', distance : Nat]
      /\ farthest'.distance = Level(nodes', farthest'.id)
  BY <1>1, <1>2 DEF GraphInv
<1> QED
  BY <1>1, <1>2, <1>5, <1>6 DEF GraphInv

(* dijkstra ends with the queue.                                            *)
LEMMA StepBuilt == GraphInv /\ Built => GraphInv'
<1> SUFFICES ASSUME GraphInv, Built PROVE GraphInv'
  OBVIOUS
<1>1. /\ SearchInv /\ queue = << >> /\ k = 4 /\ DijkstraInv
      /\ UNCHANGED <<searchVars, dijkstraVars>> /\ pq = {} /\ phase' = "ready"
  BY DEF GraphInv, Built, SearchInv
<1>2. SearchInv' /\ Ids' = Ids /\ nodes' = nodes /\ graph' = graph
  BY <1>1, SearchKept
<1>3. pq' = pq /\ marks' = marks /\ parents' = parents /\ farthest' = farthest
  BY <1>1 DEF dijkstraVars
<1>4. DijkstraInv'
  BY <1>1, <1>2, <1>3 DEF DijkstraInv, Triple
<1>5. /\ farthest' \in [id : Ids', distance : Nat]
      /\ farthest'.distance = Level(nodes', farthest'.id)
  BY <1>2, <1>3 DEF GraphInv
<1> QED
  BY <1>1, <1>2, <1>4, <1>5 DEF GraphInv

(* A triple of an unsettled board has its distance and its parent.          *)
LEMMA TripleIs ==
    ASSUME SearchInv, DijkstraInv, NEW t \in pq, t[2] \in marks
    PROVE  /\ t[2] \in Ids /\ t[3] \in Ids /\ t[1] = Level(nodes, t[2])
           /\ t[2] # 0 => t[3] = Par(graph, t[2]) /\ t[3] \notin marks
           /\ t[2] = 0 => t = <<0, 0, 0>>
           /\ t = <<t[1], t[2], t[3]>>
<1>1. CASE t = <<0, 0, 0>>
  BY <1>1, StartLevel
<1>2. CASE t # <<0, 0, 0>>
  <2>1. PICK m \in Ids \ marks : \E e \in Range(graph[m + 1]) : t = <<Level(nodes, m) + 1, e, m>>
    BY <1>2 DEF DijkstraInv
  <2>2. PICK e \in Range(graph[m + 1]) : t = <<Level(nodes, m) + 1, e, m>>
    BY <2>1
  <2>3. t[1] = Level(nodes, m) + 1 /\ t[2] = e /\ t[3] = m
    BY <2>2
  <2>4. e \in Ids /\ ((m # 0 /\ e = Par(graph, m)) \/ (e # 0 /\ Par(graph, e) = m))
    BY <2>1, <2>2, StartLevel
  <2>5. ~(m # 0 /\ e = Par(graph, m))
    BY <2>1, <2>3 DEF DijkstraInv
  <2>6. e # 0 /\ Par(graph, e) = m
    BY <2>4, <2>5
  <2>7. Level(nodes, e) = Level(nodes, m) + 1
    BY <2>4, <2>6, StartLevel
  <2> QED
    BY <2>1, <2>2, <2>3, <2>4, <2>6, <2>7
<1> QED
  BY <1>1, <1>2

(* A board is settled with its distance, from its parent, and its           *)
(* neighbours are queued; in a tree no other triple can settle it,          *)
(* whichever comes first.                                                   *)
LEMMA StepSettle ==
    ASSUME GraphInv, phase = "dijkstra", NEW t \in pq, t[2] \in marks, Settle(t),
           UNCHANGED <<searchVars, phase>>
    PROVE  GraphInv'
<1> DEFINE n == t[2]
           p == t[3]
           L(m) == Level(nodes, m)
           new == {<<t[1] + 1, e, n>> : e \in Range(graph[n + 1])}
<1>1. /\ SearchInv /\ queue = << >> /\ k = 4 /\ DijkstraInv
      /\ farthest \in [id : Ids, distance : Nat] /\ farthest.distance = L(farthest.id)
  BY DEF GraphInv, SearchInv
<1>2. SearchInv' /\ Ids' = Ids /\ nodes' = nodes /\ graph' = graph /\ phase' = phase
  BY <1>1, SearchKept
<1>3. /\ n \in marks /\ n \in Ids /\ p \in Ids /\ t[1] = L(n)
      /\ n # 0 => p = Par(graph, n) /\ p \notin marks
      /\ n = 0 => p = 0
  <2>1. n = 0 => t = <<0, 0, 0>>
    BY <1>1, TripleIs
  <2> QED
    BY <1>1, <2>1, TripleIs
<1>4. /\ marks' = marks \ {n}
      /\ parents' = [parents EXCEPT ![n] = p]
      /\ farthest' = IF t[1] > farthest.distance
                     THEN [id |-> n, distance |-> t[1]] ELSE farthest
      /\ pq' = (pq \ {t}) \cup new
  BY DEF Settle
<1>5. \A m \in Ids : m \in Nat /\ L(m) \in Nat
  BY <1>1, StartLevel
<1> HIDE DEF n, p, L
<1>6. marks' \subseteq Ids /\ marks \subseteq Ids /\ parents \in [Ids -> Ids]
  BY <1>1, <1>4 DEF DijkstraInv
<1>7. /\ parents' \in [Ids -> Ids]
      /\ \A m \in Ids : parents'[m] = IF m = n THEN p ELSE parents[m]
  BY <1>3, <1>4, <1>6
<1>8. parents'[0] = 0
  BY <1>1, <1>3, <1>7, StartLevel DEF DijkstraInv
<1>9. 0 \notin marks'
  <2>1. CASE n = 0
    BY <1>4, <2>1
  <2>2. CASE n # 0
    <3>1. p \in Ids /\ p \notin marks
      BY <1>3, <2>2
    <3>2. 0 \notin marks
      BY <1>1, <3>1 DEF DijkstraInv
    <3> QED
      BY <1>4, <3>2
  <2> QED
    BY <2>1, <2>2
<1>10. ASSUME NEW s \in pq'
       PROVE  s = <<0, 0, 0>> \/
                 \E m \in Ids \ marks' : \E e \in Range(graph[m + 1]) : s = <<L(m) + 1, e, m>>
  <2>1. CASE s \in pq
    <3>1. CASE s = <<0, 0, 0>>
      BY <3>1
    <3>2. CASE s # <<0, 0, 0>>
      <4>1. PICK m \in Ids \ marks : \E e \in Range(graph[m + 1]) : s = <<L(m) + 1, e, m>>
        BY <1>1, <2>1, <3>2 DEF DijkstraInv, L
      <4> QED
        BY <1>4, <4>1
    <3> QED
      BY <3>1, <3>2
  <2>2. CASE s \in new
    <3>1. n \in Ids \ marks' /\ t[1] = L(n)
      BY <1>3, <1>4
    <3> QED
      BY <2>2, <3>1
  <2> HIDE DEF new
  <2> QED
    BY <1>4, <1>10, <2>1, <2>2
<1>11. ASSUME NEW m \in Ids \ marks', m # 0
       PROVE  Par(graph, m) \notin marks' /\ parents'[m] = Par(graph, m)
  <2>1. CASE m = n
    BY <1>3, <1>4, <1>7, <1>11, <2>1
  <2>2. CASE m # n
    <3>1. m \in Ids \ marks
      BY <1>4, <2>2
    <3>2. Par(graph, m) \notin marks /\ parents[m] = Par(graph, m)
      BY <1>1, <1>11, <3>1 DEF DijkstraInv
    <3> QED
      BY <1>4, <1>7, <2>2, <3>1, <3>2
  <2> QED
    BY <2>1, <2>2
<1>12. ASSUME NEW m \in marks', m # 0
       PROVE  Par(graph, m) \in marks' \/ <<L(Par(graph, m)) + 1, m, Par(graph, m)>> \in pq'
  <2>1. m \in marks /\ m # n /\ m \in Ids
    BY <1>4, <1>6
  <2>2. CASE Par(graph, m) = n
    <3>1. m \in Range(graph[n + 1])
      BY <1>1, <1>12, <2>1, <2>2, StartLevel
    <3>2. <<t[1] + 1, m, n>> \in new
      BY <3>1
    <3> HIDE DEF new
    <3> QED
      BY <1>3, <1>4, <2>2, <3>2
  <2>3. CASE Par(graph, m) # n /\ Par(graph, m) \in marks
    BY <1>4, <2>3
  <2>4. CASE Par(graph, m) \notin marks
    <3>1. Triple(m) \in pq
      BY <1>1, <1>12, <2>1, <2>4 DEF DijkstraInv
    <3>2. Triple(m) # t
      BY <2>1 DEF Triple, n
    <3> HIDE DEF new
    <3> QED
      BY <1>4, <3>1, <3>2 DEF Triple, L
  <2> QED
    BY <2>2, <2>3, <2>4
<1>13. /\ farthest' \in [id : Ids, distance : Nat]
       /\ farthest'.distance = L(farthest'.id)
       /\ L(n) <= farthest'.distance /\ farthest.distance <= farthest'.distance
  <2>1. farthest.id \in Ids /\ farthest.distance \in Nat /\ L(n) \in Nat
    BY <1>1, <1>3, <1>5
  <2>2. CASE t[1] > farthest.distance
    <3>1. farthest' = [id |-> n, distance |-> L(n)]
      BY <1>3, <1>4, <2>2
    <3>2. L(n) > farthest.distance
      BY <1>3, <2>2
    <3> QED
      BY <1>3, <2>1, <3>1, <3>2
  <2>3. CASE ~(t[1] > farthest.distance)
    <3>1. farthest' = farthest
      BY <1>4, <2>3
    <3>2. ~(L(n) > farthest.distance)
      BY <1>3, <2>3
    <3> QED
      BY <1>1, <2>1, <3>1, <3>2
  <2> QED
    BY <2>2, <2>3
<1>14. ASSUME NEW m \in Ids \ marks' PROVE L(m) <= farthest'.distance
  <2>1. CASE m = n
    BY <1>13, <2>1
  <2>2. CASE m # n
    <3>1. L(m) <= farthest.distance
      BY <1>1, <1>4, <2>2 DEF DijkstraInv, L
    <3>2. L(m) \in Nat /\ farthest.distance \in Nat /\ farthest'.distance \in Nat
      BY <1>1, <1>5, <1>13
    <3> QED
      BY <1>13, <3>1, <3>2
  <2> QED
    BY <2>1, <2>2
<1>15. DijkstraInv'
  <2>1. \A m : L(m) = Level(nodes', m)
    BY <1>2 DEF L
  <2> HIDE DEF new
  <2> QED
    BY <1>2, <1>6, <1>7, <1>8, <1>9, <1>10, <1>11, <1>12, <1>14, <2>1
       DEF DijkstraInv, Triple
<1>16. farthest'.distance = Level(nodes', farthest'.id)
  BY <1>2, <1>13 DEF L
<1> QED
  BY <1>2, <1>13, <1>15, <1>16 DEF GraphInv

(* A triple of a settled board changes nothing else.                        *)
LEMMA StepPollTriple == GraphInv /\ PollTriple => GraphInv'
<1> SUFFICES ASSUME GraphInv, PollTriple PROVE GraphInv'
  OBVIOUS
<1>1. PICK t \in pq : \/ t[2] \in marks /\ Settle(t)
                      \/ /\ t[2] \notin marks
                         /\ pq' = pq \ {t}
                         /\ UNCHANGED <<marks, parents, farthest>>
  BY DEF PollTriple
<1>2. phase = "dijkstra" /\ UNCHANGED <<searchVars, phase>>
  BY DEF PollTriple
<1>3. CASE t[2] \in marks /\ Settle(t)
  BY <1>2, <1>3, StepSettle
<1>4. CASE t[2] \notin marks /\ pq' = pq \ {t} /\ UNCHANGED <<marks, parents, farthest>>
  <2>1. /\ SearchInv /\ queue = << >> /\ k = 4 /\ DijkstraInv
    BY <1>2 DEF GraphInv, SearchInv
  <2>2. SearchInv' /\ Ids' = Ids /\ nodes' = nodes /\ graph' = graph /\ phase' = phase
    BY <1>2, <2>1, SearchKept
  <2>3. pq' = pq \ {t} /\ marks' = marks /\ parents' = parents /\ farthest' = farthest
    BY <1>4
  <2>4. 0 \notin marks
    BY <1>4, <2>1 DEF DijkstraInv
  <2>5. ASSUME NEW m \in marks, m # 0 PROVE Par(graph, m) \in marks \/ Triple(m) \in pq'
    <3>1. Triple(m) # t
      BY <1>4 DEF Triple
    <3> QED
      BY <2>1, <2>3, <2>5, <3>1 DEF DijkstraInv
  <2>6. DijkstraInv'
    BY <1>2, <2>1, <2>2, <2>3, <2>4, <2>5 DEF DijkstraInv, Triple
  <2>7. /\ farthest' \in [id : Ids', distance : Nat]
        /\ farthest'.distance = Level(nodes', farthest'.id)
    BY <2>2, <2>3 DEF GraphInv
  <2> QED
    BY <1>2, <2>2, <2>6, <2>7 DEF GraphInv
<1> QED
  BY <1>1, <1>3, <1>4

(* Every step of the solver keeps its invariant.                            *)
LEMMA GraphStep == GraphInv /\ GraphNext => GraphInv'
  BY SearchSteps, StepStartDijkstra, StepPollTriple, StepBuilt DEF GraphNext

(* So does every step of the others.                                        *)
LEMMA GraphKept == GraphInv /\ UNCHANGED graphVars => GraphInv'
<1> SUFFICES ASSUME GraphInv, UNCHANGED graphVars PROVE GraphInv'
  OBVIOUS
<1>1. UNCHANGED <<nodes, graph, queue, cur, k, pq, marks, parents, farthest, phase>>
  BY DEF graphVars, searchVars, dijkstraVars
<1>2. Ids' = Ids /\ \A n : Triple(n)' = Triple(n)
  BY <1>1 DEF Ids, Triple
<1>3. SearchInv' <=> SearchInv
  BY <1>1 DEF SearchInv
<1>4. DijkstraInv' <=> DijkstraInv
  BY <1>1, <1>2 DEF DijkstraInv, Triple
<1> QED
  BY <1>1, <1>2, <1>3, <1>4 DEF GraphInv

-------------------------------------------------------------------------------
(*****************************************************************************)
(* What the solver leaves.                                                   *)
(*****************************************************************************)

(* When no triple is left every board is settled: the one with the smallest *)
(* number that is not would have its triple waiting.                        *)
LEMMA AllSettled ==
    ASSUME GraphInv, phase # "explore", pq = {}
    PROVE  /\ marks = {}
           /\ parents \in [Ids -> Ids] /\ parents[0] = 0
           /\ \A n \in Ids : n # 0 => parents[n] = Par(graph, n)
<1>1. SearchInv /\ DijkstraInv
  BY DEF GraphInv
<1> DEFINE Done == {n \in Nat : \A m \in 0 .. n : m \notin marks}
<1>2. \A n \in Ids : n # 0 => Par(graph, n) \in Ids /\ Par(graph, n) < n
  BY <1>1, StartLevel
<1>3. 0 \notin marks
  BY <1>1 DEF DijkstraInv
<1>4. ASSUME NEW n \in marks, n # 0 PROVE Par(graph, n) \in marks
  BY <1>1, <1>4 DEF DijkstraInv
<1>5. \A n \in Nat : n \in Done
  <2>1. 0 \in Done
    BY <1>3
  <2>2. ASSUME NEW n \in Nat, n \in Done PROVE n + 1 \in Done
    <3>1. n + 1 \notin marks
      <4>1. SUFFICES ASSUME n + 1 \in marks PROVE FALSE
        OBVIOUS
      <4>2. Par(graph, n + 1) \in marks
        BY <1>4, <4>1
      <4>3. n + 1 \in Ids
        BY <1>1, <4>1 DEF DijkstraInv
      <4>4. Par(graph, n + 1) \in Ids /\ Par(graph, n + 1) < n + 1
        BY <1>2, <4>3
      <4>5. Par(graph, n + 1) \in 0 .. n
        BY <1>1, <4>4, StartLevel
      <4> QED
        BY <2>2, <4>2, <4>5
    <3>2. \A m \in 0 .. n + 1 : m = n + 1 \/ m \in 0 .. n
      OBVIOUS
    <3> QED
      BY <2>2, <3>1, <3>2
  <2> HIDE DEF Done
  <2> QED
    BY <2>1, <2>2, SetInduction
<1>6. marks = {}
  <2>1. \A n \in marks : n \in Nat
    BY <1>1, StartLevel DEF DijkstraInv
  <2>2. \A n \in Nat : n \notin marks
    <3> SUFFICES ASSUME NEW n \in Nat PROVE n \notin marks
      OBVIOUS
    <3>1. n \in 0 .. n /\ n \in Done
      BY <1>5
    <3> QED
      BY <3>1
  <2> QED
    BY <2>1, <2>2
<1> QED
  BY <1>1, <1>6 DEF DijkstraInv

(* The boards with a number.                                                *)
LEMMA BoardsOfIds ==
    ASSUME GraphInv
    PROVE  {Board(n) : n \in Ids} = Boarded(nodes)
  BY NodeIn DEF Boarded

(* They are then all that can be solved.                                    *)
LEMMA Complete ==
    ASSUME GraphInv, phase # "explore"
    PROVE  Boarded(nodes) = DOMAIN Solution /\ Known(nodes)
<1>1. /\ Known(nodes) /\ Queued(nodes, << >>)
      /\ Expanded(nodes, Len(nodes) - Len(<< >>), cur, 4)
  BY DEF GraphInv, SearchInv
<1>2. Len(nodes) \in Nat /\ Len(nodes) - Len(<< >>) = Len(nodes)
  BY <1>1 DEF Known
<1>3. Expanded(nodes, Len(nodes), cur, 4)
  BY <1>1, <1>2
<1> QED
  BY <1>1, <1>3, AllReached

(* AllBoardsFound follows.                                                  *)
LEMMA InvAllBoardsFound == GraphInv => AllBoardsFound
<1> SUFFICES ASSUME GraphInv, Finished PROVE /\ {Board(n) : n \in Ids} = DOMAIN Solution
                                             /\ Len(nodes) = Cardinality(DOMAIN Solution)
  BY DEF AllBoardsFound
<1>1. Boarded(nodes) = DOMAIN Solution /\ Known(nodes)
  BY Complete DEF Finished
<1> QED
  BY <1>1, BoardsOfIds, AsMany

(* The parents lead one move nearer to the solved board.                    *)
LEMMA ParentLaws ==
    ASSUME GraphInv, phase # "explore", pq = {}, NEW n \in Ids
    PROVE  /\ parents[n] \in Ids
           /\ n = 0 => parents[n] = 0
           /\ n # 0 => /\ Board(parents[n]) \in Moves(Board(n))
                       /\ Level(nodes, parents[n]) = Level(nodes, n) - 1
<1>1. SearchInv
  BY DEF GraphInv
<1>2. parents \in [Ids -> Ids] /\ parents[0] = 0
  BY AllSettled
<1>3. ASSUME n # 0
      PROVE  /\ Board(parents[n]) \in Moves(Board(n))
             /\ Level(nodes, parents[n]) = Level(nodes, n) - 1
  <2>1. parents[n] = Par(graph, n)
    BY <1>3, AllSettled
  <2>2. /\ Par(graph, n) \in Ids /\ Level(nodes, n) = Level(nodes, Par(graph, n)) + 1
        /\ Board(Par(graph, n)) \in Moves(Board(n))
    BY <1>1, <1>3, StartLevel
  <2>3. Level(nodes, Par(graph, n)) \in Nat
    BY <1>1, <2>2, StartLevel
  <2> QED
    BY <2>1, <2>2, <2>3
<1> QED
  BY <1>2, <1>3

(* The distance, as the properties have it.                                 *)
LEMMA LevelIs ==
    \A n : Level(nodes, n) = Solution[Board(n)]
  BY NodeIn DEF Level

(* ParentsAreShortest follows.                                              *)
LEMMA InvParents == GraphInv => ParentsAreShortest
<1> SUFFICES ASSUME GraphInv, Finished, NEW n \in Ids
             PROVE  IF n = 0 THEN parents[n] = 0
                    ELSE /\ Board(parents[n]) \in Moves(Board(n))
                         /\ Solution[Board(parents[n])] = Solution[Board(n)] - 1
  BY DEF ParentsAreShortest
<1>1. phase # "explore" /\ pq = {}
  BY DEF Finished
<1> QED
  BY <1>1, ParentLaws, LevelIs

(* FarthestIsHardest follows.                                               *)
LEMMA InvFarthest == GraphInv => FarthestIsHardest
<1> SUFFICES ASSUME GraphInv, Finished, NEW b \in DOMAIN Solution
             PROVE  Solution[b] <= Solution[Board(farthest.id)]
  BY DEF FarthestIsHardest
<1>1. phase # "explore" /\ pq = {}
  BY DEF Finished
<1>2. b \in Boarded(nodes)
  BY <1>1, Complete
<1>3. PICK n \in Ids : b = Board(n)
  BY <1>2, NodeIn DEF Boarded
<1>4. marks = {} /\ DijkstraInv
  BY <1>1, AllSettled DEF GraphInv
<1>5. Level(nodes, n) <= farthest.distance
  BY <1>4 DEF DijkstraInv
<1>6. farthest.distance = Level(nodes, farthest.id)
  BY DEF GraphInv
<1> QED
  BY <1>3, <1>5, <1>6, LevelIs

(* The solver's variables have their types.                                 *)
LEMMA InvGraphTypeOK == GraphInv => GraphTypeOK
<1> SUFFICES ASSUME GraphInv PROVE GraphTypeOK
  OBVIOUS
<1>1. SearchInv /\ Known(nodes) /\ IsTree(nodes, graph)
  BY DEF GraphInv, SearchInv
<1>2. \A n \in Ids : Node(n).bs \subseteq 0 .. SizeBS - 1
  BY <1>1, KnownNodes, NodeIn, NodeOfLaws
<1>3. Len(graph) = Len(nodes)
  BY <1>1 DEF IsTree
<1>4. \A n \in Ids : Range(graph[n + 1]) \subseteq Ids
  BY <1>1, StartLevel
<1>5. Range(queue) \subseteq Ids
  <2>1. Queued(nodes, queue)
    BY <1>1 DEF SearchInv
  <2>2. Len(nodes) \in Nat /\ Len(queue) \in Nat /\ Len(queue) <= Len(nodes) /\ queue \in Seq(Nat)
    BY <1>1, <2>1, QueueLength DEF Queued
  <2>3. \A n \in 1 .. Len(queue) : queue[n] = Len(nodes) - Len(queue) + n - 1
    BY <2>1 DEF Queued
  <2>4. ASSUME NEW n \in 1 .. Len(queue) PROVE queue[n] \in Ids
    BY <2>2, <2>3 DEF Ids
  <2>5. DOMAIN queue = 1 .. Len(queue)
    BY <2>2
  <2> QED
    BY <2>4, <2>5 DEF Range
<1>6. cur \in Ids /\ k \in 0 .. 4
  BY <1>1, NodeIn DEF SearchInv, Expanded
<1>7. phase \in {"explore", "dijkstra", "ready"}
  BY <1>1 DEF SearchInv
<1>8. farthest.id \in Ids
  BY DEF GraphInv
<1>9. pq \subseteq Nat \X Ids \X Ids
  <2>1. CASE phase = "explore"
    BY <2>1 DEF GraphInv
  <2>2. CASE phase # "explore"
    <3> SUFFICES ASSUME NEW t \in pq PROVE t \in Nat \X Ids \X Ids
      OBVIOUS
    <3>1. CASE t = <<0, 0, 0>>
      BY <1>1, <3>1, StartLevel
    <3>2. CASE t # <<0, 0, 0>>
      <4>1. PICK m \in Ids \ marks :
               \E e \in Range(graph[m + 1]) : t = <<Level(nodes, m) + 1, e, m>>
        BY <2>2, <3>2 DEF GraphInv, DijkstraInv
      <4>2. PICK e \in Range(graph[m + 1]) : t = <<Level(nodes, m) + 1, e, m>>
        BY <4>1
      <4>3. Level(nodes, m) \in Nat /\ e \in Ids
        BY <1>1, <4>1, StartLevel
      <4> QED
        BY <4>1, <4>2, <4>3
    <3> QED
      BY <3>1, <3>2
  <2> QED
    BY <2>1, <2>2
<1>10. marks \subseteq Ids /\ (phase # "explore" => parents \in [Ids -> Ids])
  BY DEF GraphInv, DijkstraInv
<1> QED
  BY <1>2, <1>3, <1>4, <1>5, <1>6, <1>7, <1>8, <1>9, <1>10 DEF GraphTypeOK

-------------------------------------------------------------------------------
(*****************************************************************************)
(* The client (TaquinClient.java).                                           *)
(*****************************************************************************)

(* The cell of the blank on board n, as a step names it.                    *)
Cell(n) == Position(Node(n).i, Node(n).j)

(* A step with the present number, to the cell of a node.                   *)
StepTo(node) == [step |-> step, i |-> node.i, j |-> node.j]

(* The types of the client's and the server's variables.                    *)
ClientTypes ==
    /\ online \in BOOLEAN
    /\ logins \in 0 .. MaxLogins
    /\ user \in 0 .. logins
    /\ size \in {"own", "other", "none"}
    /\ astray \in BOOLEAN
    /\ event \in {"none", "ack-solve", "error-solve"}
    /\ {board, asked} \subseteq Boards \cup {NoBoard} \cup [OtherPositions -> OtherPositions]
    /\ events \in 0 .. MaxEvents
    /\ lost \in 0 .. MaxLost
    /\ sent # NoStep \/ event # "none" => online /\ user = logins

(* The server's board is that of x, the client is one move ahead of it, and *)
(* step is the number of that move.                                         *)
Ahead == \E x \in Ids :
            /\ board = Board(x) /\ id = parents[x]
            /\ asked \in DOMAIN Solution
            /\ step = Solution[asked] - Level(nodes, x) + 1

(* The server's board is the one the last step led to.                      *)
Arrived ==
    /\ id \in Ids /\ board = Board(id)
    /\ asked \in DOMAIN Solution
    /\ step = Solution[asked] - Level(nodes, id)

(* Unless the client has gone astray, a step that is sent, or was refused   *)
(* or lost, is one move ahead of the server's board, and a step that was    *)
(* applied has led there.                                                   *)
ClientInv ==
    /\ online => phase = "ready"
    /\ id \in Ids \cup OtherIds
    /\ step \in Nat
    /\ sent # NoStep =>
          \/ id \in Ids /\ sent = StepTo(Node(id))
          \/ astray /\ id \in OtherIds /\ sent = StepTo(OtherNodes[id + 1])
    /\ sent # NoStep => event = "none"
    /\ sent # NoStep \/ event # "none" => online
    /\ ~astray /\ (sent # NoStep \/ event = "error-solve") => Ahead
    /\ ~astray /\ event = "ack-solve" => Arrived

(* The inductive invariant.                                                 *)
IInv == GraphInv /\ ClientTypes /\ ClientInv

(* Until the graph is ready the numbers only grow.                          *)
LEMMA IdsKept ==
    ASSUME GraphInv, GraphNext
    PROVE  Ids \subseteq Ids' /\ phase # "ready"
<1>1. SearchInv
  BY DEF GraphInv
<1>2. phase # "ready"
  BY DEF GraphNext, PollNode, Neighbour, StartDijkstra, PollTriple, Built
<1>3. CASE PollNode \/ Neighbour
  BY <1>1, <1>2, <1>3, NodesKept
<1>4. CASE UNCHANGED searchVars
  BY <1>2, <1>4 DEF searchVars, Ids
<1> QED
  BY <1>3, <1>4 DEF GraphNext, StartDijkstra, PollTriple, Built, searchVars

(* That cell is on the board, and is the blank's.                           *)
LEMMA CellLaws ==
    ASSUME SearchInv, NEW n \in Ids
    PROVE  /\ Board(n) \in Boards /\ Cell(n) = BlankOf(Board(n)) /\ Cell(n) \in Positions
           /\ ValidPos(Node(n).i, Node(n).j)
<1>1. BoardIn(nodes, n) \in Boards /\ nodes[n + 1] = NodeOf(BoardIn(nodes, n))
  BY NodeIn, KnownNodes DEF SearchInv
<1>2. Board(n) \in Boards /\ Node(n) = NodeOf(Board(n))
  BY <1>1, NodeIn
<1>3. Node(n).i \in 0 .. Rows - 1 /\ Node(n).j \in 0 .. Cols - 1
  BY <1>2, NodeOfLaws
<1>4. Cell(n) = BlankOf(Board(n))
  BY <1>2, NodeOfLaws DEF Cell
<1>5. Cell(n) \in Positions
  BY <1>2, <1>4, BoardLaws
<1> QED
  BY <1>2, <1>3, <1>4, <1>5 DEF ValidPos

(* NoBoard is no board.                                                     *)
LEMMA NoBoardIsNone == NoBoard \notin Boards
<1>1. SUFFICES ASSUME NoBoard \in Boards PROVE FALSE
  OBVIOUS
<1>2. 0 \in Positions /\ 1 \in Positions
  BY Cells DEF Positions
<1>3. NoBoard[0] = NoBoard[1]
  BY <1>2 DEF NoBoard
<1> QED
  BY <1>1, <1>2, <1>3, BoardLaws

(* The other size: its numbers and cells, which are not as many as those of *)
(* the own.                                                                 *)
LEMMA OtherSize ==
    /\ 0 \in OtherIds
    /\ \A n \in OtherIds :
          /\ OtherParents[n] \in OtherIds
          /\ OtherNodes[n + 1].i \in 0 .. OtherRows - 1
          /\ OtherNodes[n + 1].j \in 0 .. OtherCols - 1
    /\ 0 \in OtherPositions /\ OtherPositions # Positions
    /\ \A i \in 0 .. OtherRows - 1, j \in 0 .. OtherCols - 1 :
          i * OtherCols + j \in OtherPositions
<1>1. /\ OtherRows \in Nat \ {0} /\ OtherCols \in Nat \ {0}
      /\ OtherRows * OtherCols # Rows * Cols
  BY OtherAssumption
<1> DEFINE N == Rows * Cols
           M == OtherRows * OtherCols
<1>2. N \in Nat /\ N > 1
  BY Cells
<1>3. M \in Nat /\ M > 0
  <2>1. M \in Nat
    BY <1>1
  <2>2. 0 < OtherRows
    BY <1>1
  <2>3. 0 * OtherCols + OtherCols <= OtherRows * OtherCols
    BY <1>1, <2>2, TimesLess
  <2> QED
    BY <1>1, <2>1, <2>3
<1>4. M # N /\ Positions = 0 .. N - 1 /\ OtherPositions = 0 .. M - 1
  BY <1>1 DEF Positions, OtherPositions
<1>5. ASSUME NEW i \in 0 .. OtherRows - 1, NEW j \in 0 .. OtherCols - 1
      PROVE  i * OtherCols + j \in 0 .. M - 1
  <2>1. i \in Nat /\ j \in Nat /\ i < OtherRows /\ j < OtherCols
    BY <1>1
  <2>2. i * OtherCols \in Nat /\ i * OtherCols + OtherCols <= OtherRows * OtherCols
    BY <1>1, <2>1, TimesLess
  <2> QED
    BY <1>1, <1>3, <2>1, <2>2
<1> HIDE DEF N, M
<1>6. 0 \in OtherPositions /\ OtherPositions # Positions
  <2>1. 0 \in OtherPositions
    BY <1>3, <1>4
  <2>2. OtherPositions # Positions
    <3>1. CASE M < N
      BY <1>2, <1>3, <1>4, <3>1
    <3>2. CASE N < M
      BY <1>2, <1>3, <1>4, <3>2
    <3> QED
      BY <1>2, <1>3, <1>4, <3>1, <3>2
  <2> QED
    BY <2>1, <2>2
<1>7. 0 \in OtherIds
  BY OtherAssumption DEF OtherIds
<1>8. ASSUME NEW n \in OtherIds
      PROVE  /\ OtherParents[n] \in OtherIds
             /\ OtherNodes[n + 1].i \in 0 .. OtherRows - 1
             /\ OtherNodes[n + 1].j \in 0 .. OtherCols - 1
  <2>1. n + 1 \in 1 .. Len(OtherNodes)
    BY OtherAssumption DEF OtherIds
  <2>2. OtherNodes[n + 1] \in [bs : SUBSET (0 .. OtherSizeBS - 1),
                               i : 0 .. OtherRows - 1, j : 0 .. OtherCols - 1]
    BY <2>1, OtherAssumption, ElementOfSeq
  <2> QED
    BY <2>2, OtherAssumption
<1> QED
  BY <1>4, <1>5, <1>6, <1>7, <1>8

(* A board of the other size stays one when a tile moves.                   *)
LEMMA OtherSlide ==
    ASSUME NEW b \in [OtherPositions -> OtherPositions], NEW p \in OtherPositions
    PROVE  Slide(b, p) \in [OtherPositions -> OtherPositions]
<1>1. 0 \in OtherPositions
  BY OtherSize
<1> QED
  BY <1>1 DEF Slide

(* The step of the client when the server's board is that of x: toward its  *)
(* parent, but for the solved board, which is its own parent and moves      *)
(* nothing.                                                                 *)
LEMMA StepOf ==
    ASSUME GraphInv, phase = "ready", NEW x \in Ids
    PROVE  /\ parents[x] \in Ids
           /\ x = 0 => /\ Board(x) = Solved
                       /\ ~Adjacent(Cell(parents[x]), BlankOf(Board(x)))
           /\ x # 0 => /\ Board(x) # Solved
                       /\ Adjacent(Cell(parents[x]), BlankOf(Board(x)))
                       /\ Slide(Board(x), Cell(parents[x])) = Board(parents[x])
                       /\ Level(nodes, parents[x]) = Level(nodes, x) - 1
<1>1. SearchInv /\ pq = {} /\ phase # "explore"
  BY DEF GraphInv, DijkstraInv
<1>2. parents[x] \in Ids
  BY <1>1, ParentLaws
<1>3. /\ Board(x) \in Boards /\ Board(parents[x]) \in Boards
      /\ Cell(parents[x]) = BlankOf(Board(parents[x]))
      /\ BlankOf(Board(x)) \in Positions
  BY <1>1, <1>2, CellLaws, BoardLaws
<1>4. ASSUME x = 0
      PROVE  Board(x) = Solved /\ ~Adjacent(Cell(parents[x]), BlankOf(Board(x)))
  <2>1. parents[x] = x
    BY <1>1, <1>4, ParentLaws
  <2>2. ~Adjacent(BlankOf(Board(x)), BlankOf(Board(x)))
    BY <1>3, AdjacentLaws
  <2>3. Board(x) = Solved
    BY <1>1, <1>4, StartLevel
  <2> QED
    BY <1>3, <2>1, <2>2, <2>3
<1>5. ASSUME x # 0
      PROVE  /\ Board(x) # Solved
             /\ Adjacent(Cell(parents[x]), BlankOf(Board(x)))
             /\ Slide(Board(x), Cell(parents[x])) = Board(parents[x])
             /\ Level(nodes, parents[x]) = Level(nodes, x) - 1
  <2>1. /\ Board(parents[x]) \in Moves(Board(x))
        /\ Level(nodes, parents[x]) = Level(nodes, x) - 1
    BY <1>1, <1>5, ParentLaws
  <2>2. Board(x) # Solved
    BY <1>1, <1>5, StartLevel, LevelIs
  <2>3. PICK p \in Positions : /\ Adjacent(p, BlankOf(Board(x)))
                               /\ Board(parents[x]) = Slide(Board(x), p)
    BY <2>1 DEF Moves
  <2>4. Cell(parents[x]) = p
    BY <1>3, <2>3, SlideLaws
  <2> QED
    BY <2>1, <2>2, <2>3, <2>4
<1> QED
  BY <1>2, <1>4, <1>5

(* The invariant holds at first.                                            *)
LEMMA ClientInit == Init => IInv
<1> SUFFICES ASSUME Init PROVE IInv
  OBVIOUS
<1>1. GraphInv
  BY GraphInit0 DEF Init
<1>2. 0 \in Ids
  BY <1>1, StartLevel DEF GraphInv
<1>3. ClientTypes
  <2>1. /\ online = FALSE /\ logins = 0 /\ user = 0 /\ size \in {"own", "other"}
        /\ astray = FALSE
        /\ sent = NoStep /\ event = "none" /\ board = NoBoard /\ asked = NoBoard
        /\ events = 0 /\ lost = 0
    BY DEF Init
  <2>2. MaxLogins \in Nat /\ MaxEvents \in Nat /\ MaxLost \in Nat
    BY ServerAssumption
  <2>3. online \in BOOLEAN /\ astray \in BOOLEAN /\ size \in {"own", "other", "none"}
    BY <2>1
  <2>4. /\ logins \in 0 .. MaxLogins /\ user \in 0 .. logins
        /\ events \in 0 .. MaxEvents /\ lost \in 0 .. MaxLost
    BY <2>1, <2>2
  <2>5. {board, asked} \subseteq Boards \cup {NoBoard} \cup [OtherPositions -> OtherPositions]
    BY <2>1
  <2>6. /\ event \in {"none", "ack-solve", "error-solve"}
        /\ ~(sent # NoStep \/ event # "none")
    BY <2>1
  <2> QED
    BY <2>3, <2>4, <2>5, <2>6 DEF ClientTypes
<1>4. ClientInv
  BY <1>2 DEF Init, ClientInv
<1> QED
  BY <1>1, <1>3, <1>4 DEF IInv

(* What an action that leaves the graph alone leaves alone.                 *)
LEMMA GraphStays ==
    ASSUME GraphInv, UNCHANGED graphVars
    PROVE  /\ GraphInv'
           /\ phase' = phase /\ nodes' = nodes /\ parents' = parents /\ Ids' = Ids
           /\ \A n : Level(nodes, n)' = Level(nodes, n)
           /\ \A n : Board(n)' = Board(n) /\ Node(n)' = Node(n)
  BY GraphKept DEF graphVars, searchVars, dijkstraVars, Ids, Level, BoardIn, Board, Node

(* A step not applied is still ahead, and one that was applied has still    *)
(* led to the board.                                                        *)
LEMMA AheadStays ==
    ASSUME GraphInv, UNCHANGED <<graphVars, board, id, asked, step>>
    PROVE  (Ahead => Ahead') /\ (Arrived => Arrived')
<1>0. /\ UNCHANGED graphVars
      /\ board' = board /\ id' = id /\ asked' = asked /\ step' = step
  OBVIOUS
<1>1. ASSUME Ahead PROVE Ahead'
  <2>1. PICK x \in Ids : /\ board = Board(x) /\ id = parents[x]
                         /\ asked \in DOMAIN Solution
                         /\ step = Solution[asked] - Level(nodes, x) + 1
    BY <1>1 DEF Ahead
  <2>2. x \in Ids' /\ board' = Board(x)' /\ id' = parents'[x]
    BY <1>0, <2>1, GraphStays
  <2>3. asked' \in DOMAIN Solution /\ step' = Solution[asked'] - Level(nodes, x)' + 1
    BY <1>0, <2>1, GraphStays
  <2> QED
    BY <2>2, <2>3 DEF Ahead
<1>2. ASSUME Arrived PROVE Arrived'
  BY <1>0, <1>2, GraphStays DEF Arrived
<1> QED
  BY <1>1, <1>2

(* What keeps the invariant while the graph and the client's place in it    *)
(* stay: the step under way is the same or gone, and so is its answer.      *)
LEMMA ClientStays ==
    ASSUME IInv, UNCHANGED <<graphVars, board, id, asked, step, astray>>,
           online' => phase = "ready",
           \/ UNCHANGED <<sent, event>> /\ (online' \/ (sent = NoStep /\ event = "none"))
           \/ sent' = NoStep /\ event' = "none"
           \/ sent' = NoStep /\ event' = event /\ online'
    PROVE  GraphInv' /\ ClientInv'
<1>1. GraphInv /\ ClientInv
  BY DEF IInv
<1>2. /\ UNCHANGED graphVars
      /\ board' = board /\ id' = id /\ asked' = asked /\ step' = step /\ astray' = astray
  OBVIOUS
<1>3. /\ GraphInv' /\ phase' = phase /\ Ids' = Ids
      /\ \A n : Node(n)' = Node(n)
  BY <1>1, <1>2, GraphStays
<1>4. (Ahead => Ahead') /\ (Arrived => Arrived')
  BY <1>1, AheadStays
<1>5. sent' # NoStep =>
          \/ id' \in Ids' /\ sent' = StepTo(Node(id))'
          \/ astray' /\ id' \in OtherIds /\ sent' = StepTo(OtherNodes[id + 1])'
  BY <1>1, <1>2, <1>3 DEF ClientInv, StepTo
<1>6. /\ online' => phase' = "ready"
      /\ id' \in Ids' \cup OtherIds /\ step' \in Nat
      /\ sent' # NoStep => event' = "none"
      /\ sent' # NoStep \/ event' # "none" => online'
  BY <1>1, <1>2, <1>3 DEF ClientInv
<1>7. /\ ~astray' /\ (sent' # NoStep \/ event' = "error-solve") => Ahead'
      /\ ~astray' /\ event' = "ack-solve" => Arrived'
  BY <1>1, <1>2, <1>4 DEF ClientInv
<1> QED
  BY <1>3, <1>5, <1>6, <1>7 DEF ClientInv

(* While the graph is built there is no connection.                         *)
LEMMA StepBuild == IInv /\ Build => IInv'
<1> SUFFICES ASSUME IInv, Build PROVE IInv'
  OBVIOUS
<1>1. /\ GraphInv /\ GraphNext
      /\ UNCHANGED <<online, logins, user, size, id, step, astray, sent, event, board,
                     asked, events, lost>>
  BY DEF IInv, Build, loginVars, clientVars, serverVars
<1>2. GraphInv' /\ Ids \subseteq Ids' /\ phase # "ready"
  BY <1>1, GraphStep, IdsKept
<1>3. ~online /\ sent = NoStep /\ event = "none" /\ id \in Ids \cup OtherIds /\ step \in Nat
  BY <1>2 DEF IInv, ClientInv
<1>4. ClientTypes'
  BY <1>1 DEF IInv, ClientTypes
<1>5. ClientInv'
  BY <1>1, <1>2, <1>3 DEF ClientInv
<1> QED
  BY <1>2, <1>4, <1>5 DEF IInv

(* Connections: a new one begins with no step under way, a lost one takes   *)
(* it along.                                                                *)
LEMMA StepLine == IInv /\ (Connect \/ Login \/ Disconnect) => IInv'
<1> SUFFICES ASSUME IInv, Connect \/ Login \/ Disconnect PROVE IInv'
  OBVIOUS
<1>1. GraphInv /\ ClientTypes /\ ClientInv
  BY DEF IInv
<1>2. CASE Connect
  <2>1. /\ phase = "ready" /\ ~online /\ logins < MaxLogins /\ online' = TRUE
        /\ logins' = logins + 1
        /\ UNCHANGED graphVars
        /\ UNCHANGED <<user, size, id, step, astray, sent, event, board, asked, events, lost>>
    BY <1>2 DEF Connect, clientVars, serverVars
  <2>2. sent = NoStep /\ event = "none"
    BY <1>1, <2>1 DEF ClientInv
  <2>3. ClientTypes'
    BY <1>1, <2>1, <2>2, ServerAssumption DEF ClientTypes
  <2>4. GraphInv' /\ ClientInv'
    <3>1. UNCHANGED <<graphVars, board, id, asked, step, astray>>
      BY <2>1
    <3>2. UNCHANGED <<sent, event>> /\ phase = "ready"
      BY <2>1
    <3> QED
      BY <2>2, <3>1, <3>2, ClientStays
  <2> QED
    BY <2>3, <2>4 DEF IInv
<1>3. CASE Login
  <2>1. /\ online /\ user # logins /\ user' = logins
        /\ UNCHANGED graphVars
        /\ UNCHANGED <<online, logins, size, id, step, astray, sent, event, board, asked,
                       events, lost>>
    BY <1>3 DEF Login, clientVars, serverVars
  <2>2. sent = NoStep /\ event = "none" /\ phase = "ready"
    BY <1>1, <2>1 DEF ClientInv, ClientTypes
  <2>3. ClientTypes'
    BY <1>1, <2>1, <2>2, ServerAssumption DEF ClientTypes
  <2>4. GraphInv' /\ ClientInv'
    BY <2>1, <2>2, ClientStays
  <2> QED
    BY <2>3, <2>4 DEF IInv
<1>4. CASE Disconnect
  <2>1. /\ online' = FALSE /\ sent' = NoStep /\ event' = "none" /\ board' = NoBoard
        /\ asked' = NoBoard
        /\ UNCHANGED graphVars
        /\ UNCHANGED <<logins, user, size, id, step, astray, events, lost>>
    BY <1>4 DEF Disconnect, clientVars
  <2>2. GraphInv' /\ Ids' = Ids
    BY <1>1, <2>1, GraphStays
  <2>3. ClientTypes'
    BY <1>1, <2>1 DEF ClientTypes
  <2>4. ClientInv'
    BY <1>1, <2>1, <2>2 DEF ClientInv
  <2> QED
    BY <2>2, <2>3, <2>4 DEF IInv
<1> QED
  BY <1>2, <1>3, <1>4

(* "get-matriz" changes size only, whether or not a solution is under way.  *)
LEMMA StepGetMatriz == IInv /\ GetMatriz => IInv'
<1> SUFFICES ASSUME IInv, GetMatriz PROVE IInv'
  OBVIOUS
<1>1. GraphInv /\ ClientTypes /\ ClientInv
  BY DEF IInv
<1>2. /\ events < MaxEvents /\ events' = events + 1
      /\ online /\ size' \in {"own", "other", "none"}
      /\ UNCHANGED graphVars
      /\ UNCHANGED <<online, logins, user, lost, id, step, astray, sent, event, board, asked>>
  BY DEF GetMatriz, ServerEvent, loginVars
<1>3. ClientTypes'
  BY <1>1, <1>2, ServerAssumption DEF ClientTypes
<1>4. GraphInv' /\ ClientInv'
  BY <1>1, <1>2, ClientStays DEF ClientInv
<1> QED
  BY <1>3, <1>4 DEF IInv

(* A board is written into a BitSet of its own size like the solved one.    *)
LEMMA ConvertOwn ==
    ASSUME NEW b \in Boards
    PROVE  Convert(NBits, SizeBS, b) = Encode(b)
<1>1. DOMAIN b = Positions
  BY BoardLaws
<1>2. \A p \in Positions, l \in Fields : BitAt(p, l) \in Nat
  BY BitPlaces
<1>3. \A q : q \in Convert(NBits, SizeBS, b) <=>
          q \in Nat /\ \E p \in Positions : \E l \in Fields :
                          Bit(b[p], l) = 1 /\ q = BitAt(p, l)
  BY <1>1 DEF Convert, Fields, BitAt
<1>4. \A q : q \in Encode(b) <=>
          \E p \in Positions : \E l \in Fields : Bit(b[p], l) = 1 /\ q = BitAt(p, l)
  BY DEF Encode, Fields
<1> QED
  BY <1>2, <1>3, <1>4

(* getId: the number of the board asked about, in its own graph.            *)
LEMMA GetIdLaws ==
    ASSUME SearchInv, NEW b \in Boards, size = "own", NEW n \in GetId(b)
    PROVE  /\ n \in Ids /\ Board(n) = b
           /\ b \in DOMAIN Solution
           /\ Level(nodes, n) = Solution[b]
<1>1. Known(nodes)
  BY DEF SearchInv
<1>2. n \in Ids /\ Node(n).bs = Encode(b)
  BY ConvertOwn DEF GetId, Numbers, GetBitSet
<1>3. Board(n) = b
  BY <1>1, <1>2, RegisteredIs
<1> QED
  BY <1>2, <1>3, StartLevel, LevelIs

(* The numbers of the graph in use, and those they lead to.                 *)
LEMMA NumbersLaws ==
    ASSUME GraphInv, phase = "ready", size \in {"own", "other", "none"}, NEW n \in Numbers
    PROVE  /\ size = "own" =>
                 /\ n \in Ids /\ GetParent(n) \in Ids /\ GetParent(n) = parents[n]
                 /\ \A m : GetBitSet(m) = Node(m)
           /\ size # "own" =>
                 /\ n \in OtherIds /\ GetParent(n) \in OtherIds
                 /\ \A m : GetBitSet(m) = OtherNodes[m + 1]
<1>1. size = "own" => n \in Ids /\ parents[n] \in Ids
  BY StepOf DEF Numbers
<1>2. size # "own" => n \in OtherIds
  BY DEF Numbers
<1> QED
  BY <1>1, <1>2, OtherSize DEF GetParent, GetBitSet

(* What the client sends names the cell of a node of the graph in use.      *)
LEMMA Emitted ==
    ASSUME GraphInv, phase = "ready", size \in {"own", "other", "none"},
           NEW s \in Nat, NEW m, Emit(s, m), id' = m, step' = s,
           UNCHANGED <<graphVars, size>>,
           (size = "own" => m \in Ids) /\ (size # "own" => m \in OtherIds /\ astray')
    PROVE  /\ id' \in Ids' \cup OtherIds
           /\ \/ id' \in Ids' /\ sent' = StepTo(Node(id))'
              \/ astray' /\ id' \in OtherIds /\ sent' = StepTo(OtherNodes[id + 1])'
<1>1. Ids' = Ids /\ Node(m)' = Node(m)
  BY GraphStays
<1>2. CASE size = "own"
  BY <1>1, <1>2 DEF Emit, GetBitSet, StepTo, Node
<1>3. CASE size # "own"
  BY <1>1, <1>3 DEF Emit, GetBitSet, StepTo
<1> QED
  BY <1>2, <1>3

(* "solve": the first step is ahead of the board asked about; when the      *)
(* board or the graph in use is of the other size, the client has gone      *)
(* astray.                                                                  *)
LEMMA StepSolve == IInv /\ Solve => IInv'
<1> SUFFICES ASSUME IInv, Solve PROVE IInv'
  OBVIOUS
<1>1. GraphInv /\ ClientTypes /\ ClientInv /\ SearchInv
  BY DEF IInv, GraphInv
<1>2. /\ online /\ user = logins /\ events < MaxEvents /\ events' = events + 1
      /\ event = "none"
      /\ UNCHANGED graphVars
      /\ UNCHANGED <<online, logins, user, lost, size, event>>
  BY DEF Solve, ServerEvent, loginVars
<1>3. PICK b \in Asked : /\ board' = b /\ asked' = b /\ SolveTaquin(b)
                         /\ astray' = (size # "own" \/ b \notin Boards)
  BY DEF Solve
<1>4. /\ GraphInv' /\ phase' = phase /\ nodes' = nodes /\ parents' = parents /\ Ids' = Ids
      /\ \A n : Level(nodes, n)' = Level(nodes, n)
      /\ \A n : Board(n)' = Board(n) /\ Node(n)' = Node(n)
  BY <1>1, <1>2, GraphStays
<1>5. b \in Boards \/ b \in [OtherPositions -> OtherPositions]
  <2>1. b \in DOMAIN Solution \/ b \in Boards \ DOMAIN Solution \/ b \in OtherAsked
    BY DEF Asked
  <2> QED
    BY <2>1, SolutionLaws, OtherAssumption
<1>6. astray' \in BOOLEAN
  BY <1>3
<1>7. ClientTypes'
  BY <1>1, <1>2, <1>3, <1>5, <1>6, ServerAssumption DEF ClientTypes
<1>8. phase = "ready" /\ step' = 1 /\ size \in {"own", "other", "none"}
  BY <1>1, <1>2, <1>3 DEF ClientInv, ClientTypes, SolveTaquin
<1>9. ASSUME NEW n \in GetId(b), id' = GetParent(n), Emit(1, GetParent(n))
      PROVE  ClientInv'
  <2> DEFINE m == GetParent(n)
  <2>1. n \in Numbers
    BY <1>9 DEF GetId
  <2>2. /\ size = "own" => m \in Ids /\ m = parents[n] /\ n \in Ids
        /\ size # "own" => m \in OtherIds /\ astray'
    BY <1>1, <1>3, <1>8, <2>1, NumbersLaws
  <2>3. Emit(1, m) /\ id' = m
    BY <1>9
  <2> HIDE DEF m
  <2>4. UNCHANGED <<graphVars, size>>
    BY <1>2
  <2>5. /\ id' \in Ids' \cup OtherIds
        /\ \/ id' \in Ids' /\ sent' = StepTo(Node(id))'
           \/ astray' /\ id' \in OtherIds /\ sent' = StepTo(OtherNodes[id + 1])'
    BY <1>1, <1>8, <2>2, <2>3, <2>4, Emitted
  <2>6. ASSUME ~astray' PROVE Ahead'
    <3>1. size = "own" /\ b \in Boards
      BY <1>3, <2>6
    <3>2. Board(n) = b /\ b \in DOMAIN Solution /\ Level(nodes, n) = Solution[b]
      BY <1>1, <1>9, <3>1, GetIdLaws
    <3>3. 1 = Solution[b] - Solution[b] + 1
      BY <3>2, SolutionLaws
    <3> QED
      BY <1>3, <1>4, <1>8, <2>2, <2>3, <3>1, <3>2, <3>3 DEF Ahead
  <2> QED
    BY <1>2, <1>4, <1>8, <2>5, <2>6 DEF ClientInv
<1>10. ASSUME id' = id, sent' = NoStep PROVE ClientInv'
  BY <1>1, <1>2, <1>4, <1>8, <1>10 DEF ClientInv
<1>11. ClientInv'
  BY <1>3, <1>9, <1>10 DEF SolveTaquin
<1> QED
  BY <1>4, <1>7, <1>11 DEF IInv

(* "ack-solve": the board has moved, and the next step is ahead of it; or,  *)
(* with another graph in use, the client has gone astray.                   *)
LEMMA StepAckSolve == IInv /\ AckSolve => IInv'
<1> SUFFICES ASSUME IInv, AckSolve PROVE IInv'
  OBVIOUS
<1>1. GraphInv /\ ClientTypes /\ ClientInv /\ SearchInv
  BY DEF IInv, GraphInv
<1>2. /\ event = "ack-solve" /\ event' = "none" /\ SolveNextStep
      /\ astray' = (astray \/ size # "own")
      /\ UNCHANGED graphVars
      /\ UNCHANGED <<online, logins, user, size, board, asked, events, lost>>
  BY DEF AckSolve, loginVars, serverVars
<1>3. /\ GraphInv' /\ phase' = phase /\ nodes' = nodes /\ parents' = parents /\ Ids' = Ids
      /\ \A n : Level(nodes, n)' = Level(nodes, n)
      /\ \A n : Board(n)' = Board(n) /\ Node(n)' = Node(n)
  BY <1>1, <1>2, GraphStays
<1>4. /\ online /\ user = logins /\ phase = "ready" /\ sent = NoStep /\ step \in Nat
      /\ size \in {"own", "other", "none"} /\ astray \in BOOLEAN
  BY <1>1, <1>2 DEF ClientInv, ClientTypes
<1>5. astray' \in BOOLEAN
  BY <1>2
<1>6. ClientTypes'
  BY <1>1, <1>2, <1>4, <1>5 DEF ClientTypes
<1>7. ASSUME ~astray' PROVE size = "own" /\ Arrived
  BY <1>1, <1>2, <1>4, <1>7 DEF ClientInv
<1>8. ASSUME id \in Numbers, id' = GetParent(id), step' = step + 1,
             Emit(step + 1, GetParent(id))
      PROVE  ClientInv'
  <2> DEFINE m == GetParent(id)
  <2>1. /\ size = "own" => m \in Ids /\ m = parents[id] /\ id \in Ids
        /\ size # "own" => m \in OtherIds /\ astray'
    BY <1>1, <1>2, <1>4, <1>8, NumbersLaws
  <2>2. Emit(step + 1, m) /\ id' = m /\ step + 1 \in Nat
    BY <1>4, <1>8
  <2> HIDE DEF m
  <2>3. UNCHANGED <<graphVars, size>>
    BY <1>2
  <2>4. /\ id' \in Ids' \cup OtherIds
        /\ \/ id' \in Ids' /\ sent' = StepTo(Node(id))'
           \/ astray' /\ id' \in OtherIds /\ sent' = StepTo(OtherNodes[id + 1])'
    BY <1>1, <1>4, <1>8, <2>1, <2>2, <2>3, Emitted
  <2>5. ASSUME ~astray' PROVE Ahead'
    <3>1. id \in Ids /\ board = Board(id) /\ asked \in DOMAIN Solution /\ m = parents[id]
      BY <1>7, <2>1, <2>5 DEF Arrived
    <3>2. step + 1 = Solution[asked] - Level(nodes, id) + 1
      BY <1>7, <2>5 DEF Arrived
    <3> QED
      BY <1>2, <1>3, <1>8, <2>2, <3>1, <3>2 DEF Ahead
  <2> QED
    BY <1>2, <1>3, <1>4, <1>8, <2>2, <2>4, <2>5 DEF ClientInv
<1>9. ASSUME id' = id, step' = step, sent' = sent PROVE ClientInv'
  BY <1>1, <1>2, <1>3, <1>4, <1>9 DEF ClientInv
<1>10. ClientInv'
  BY <1>2, <1>8, <1>9 DEF SolveNextStep
<1> QED
  BY <1>3, <1>6, <1>10 DEF IInv

(* "error-solve": the same step is sent again.                              *)
LEMMA StepErrorSolve == IInv /\ ErrorSolve => IInv'
<1> SUFFICES ASSUME IInv, ErrorSolve PROVE IInv'
  OBVIOUS
<1>1. GraphInv /\ ClientTypes /\ ClientInv /\ SearchInv
  BY DEF IInv, GraphInv
<1>2. /\ event = "error-solve" /\ event' = "none" /\ id' = id /\ step' = step
      /\ astray' = (astray \/ size # "own")
      /\ UNCHANGED graphVars
      /\ UNCHANGED <<online, logins, user, size, board, asked, events, lost>>
  BY DEF ErrorSolve, ErrorStep, loginVars, serverVars
<1>3. /\ GraphInv' /\ phase' = phase /\ Ids' = Ids
      /\ \A n : Node(n)' = Node(n)
  BY <1>1, <1>2, GraphStays
<1>4. /\ online /\ user = logins /\ phase = "ready" /\ sent = NoStep
      /\ id \in Ids \cup OtherIds /\ step \in Nat
      /\ size \in {"own", "other", "none"} /\ astray \in BOOLEAN
  BY <1>1, <1>2 DEF ClientInv, ClientTypes
<1>5. astray' \in BOOLEAN
  BY <1>2
<1>6. ClientTypes'
  BY <1>1, <1>2, <1>4, <1>5 DEF ClientTypes
<1>7. ASSUME ~astray' PROVE Ahead'
  <2>1. Ahead /\ ~astray
    BY <1>1, <1>2, <1>4, <1>7 DEF ClientInv
  <2>2. UNCHANGED <<graphVars, board, id, asked, step>>
    BY <1>2
  <2> QED
    BY <1>1, <2>1, <2>2, AheadStays
<1>8. ASSUME id \in Numbers, Emit(step, id) PROVE ClientInv'
  <2>1. /\ size = "own" => id \in Ids
        /\ size # "own" => id \in OtherIds /\ astray'
    BY <1>1, <1>2, <1>4, <1>8, NumbersLaws
  <2>2. UNCHANGED <<graphVars, size>> /\ id' = id /\ step' = step /\ step \in Nat
    BY <1>2, <1>4
  <2>3. \/ id' \in Ids' /\ sent' = StepTo(Node(id))'
        \/ astray' /\ id' \in OtherIds /\ sent' = StepTo(OtherNodes[id + 1])'
    BY <1>1, <1>4, <1>8, <2>1, <2>2, Emitted
  <2> QED
    BY <1>2, <1>3, <1>4, <1>7, <2>3 DEF ClientInv
<1>9. ASSUME sent' = sent PROVE ClientInv'
  BY <1>1, <1>2, <1>3, <1>4, <1>7, <1>9 DEF ClientInv
<1>10. ClientInv'
  BY <1>8, <1>9 DEF ErrorSolve, ErrorStep
<1> QED
  BY <1>3, <1>6, <1>10 DEF IInv

(* What is known of a step that is under way and not astray: it is legal on *)
(* the server's board unless that is solved, and leads to the board that is *)
(* next on the way.                                                         *)
LEMMA StepSent ==
    ASSUME IInv, sent # NoStep, ~astray
    PROVE  /\ id \in Ids /\ sent = StepTo(Node(id))
           /\ Position(sent.i, sent.j) = Cell(id)
           /\ board \in Boards
           /\ ~OtherLegal
           /\ Legal <=> board # Solved
           /\ Legal => /\ Slide(board, Cell(id)) = Board(id)
                       /\ asked \in DOMAIN Solution
                       /\ step = Solution[asked] - Level(nodes, id)
           /\ sent.step = Solution[asked] - Solution[board] + 1
<1>1. GraphInv /\ ClientTypes /\ ClientInv /\ SearchInv
  BY DEF IInv, GraphInv
<1>2. phase = "ready" /\ Ahead /\ id \in Ids /\ sent = StepTo(Node(id))
  BY <1>1 DEF ClientInv
<1>3. PICK x \in Ids : /\ board = Board(x) /\ id = parents[x]
                       /\ asked \in DOMAIN Solution
                       /\ step = Solution[asked] - Level(nodes, x) + 1
  BY <1>2 DEF Ahead
<1>4. sent.i = Node(id).i /\ sent.j = Node(id).j /\ sent.step = step
  BY <1>2 DEF StepTo
<1>5. Position(sent.i, sent.j) = Cell(id) /\ ValidPos(sent.i, sent.j)
  BY <1>1, <1>2, <1>4, CellLaws DEF Cell
<1>6. board \in Boards
  BY <1>1, <1>3, CellLaws
<1>7. ~OtherLegal
  <2>1. DOMAIN board = Positions
    BY <1>6, BoardLaws
  <2> QED
    BY <2>1, OtherSize DEF OtherLegal
<1>8. Legal <=> Adjacent(Cell(parents[x]), BlankOf(Board(x)))
  BY <1>3, <1>5, <1>6 DEF Legal
<1>9. Legal <=> board # Solved
  BY <1>1, <1>2, <1>3, <1>8, StepOf
<1>10. ASSUME Legal
       PROVE  /\ Slide(board, Cell(id)) = Board(id)
              /\ step = Solution[asked] - Level(nodes, id)
  <2>1. x # 0
    BY <1>1, <1>2, <1>3, <1>9, <1>10, StepOf
  <2>2. /\ Slide(Board(x), Cell(parents[x])) = Board(parents[x])
        /\ Level(nodes, parents[x]) = Level(nodes, x) - 1
    BY <1>1, <1>2, <2>1, StepOf
  <2>3. Level(nodes, x) \in Nat /\ Solution[asked] \in Nat
    BY <1>1, <1>3, StartLevel, SolutionLaws
  <2> QED
    BY <1>3, <2>2, <2>3
<1>11. sent.step = Solution[asked] - Solution[board] + 1
  BY <1>1, <1>3, <1>4, LevelIs
<1> QED
  BY <1>2, <1>3, <1>5, <1>6, <1>7, <1>9, <1>10, <1>11

(* The server moves its board as the step says, or leaves it.               *)
LEMMA StepServer == IInv /\ ServerStep => IInv'
<1> SUFFICES ASSUME IInv, ServerStep PROVE IInv'
  OBVIOUS
<1>1. GraphInv /\ ClientTypes /\ ClientInv /\ SearchInv
  BY DEF IInv, GraphInv
<1>2. /\ sent # NoStep /\ sent' = NoStep
      /\ UNCHANGED graphVars
      /\ UNCHANGED <<online, logins, user, size, id, step, astray, asked, events>>
  BY DEF ServerStep, ServerApplies, ServerRefuses, ServerLoses, loginVars, clientVars,
         serverVars
<1>3. /\ GraphInv' /\ phase' = phase /\ nodes' = nodes /\ parents' = parents /\ Ids' = Ids
      /\ \A n : Level(nodes, n)' = Level(nodes, n)
      /\ \A n : Board(n)' = Board(n) /\ Node(n)' = Node(n)
  BY <1>1, <1>2, GraphStays
<1>4. /\ online /\ user = logins /\ phase = "ready"
      /\ id \in Ids \cup OtherIds /\ step \in Nat
  BY <1>1, <1>2 DEF ClientInv, ClientTypes
<1>5. CASE ServerApplies
  <2>1. event' = "ack-solve" /\ lost' = lost
    BY <1>5 DEF ServerApplies
  <2>2. \/ board' \in Boards
        \/ board' \in [OtherPositions -> OtherPositions]
    <3>1. CASE Legal /\ board' = Slide(board, Position(sent.i, sent.j))
      <4>1. board \in Boards /\ Position(sent.i, sent.j) \in Positions
        BY <3>1, PositionLaws DEF Legal, ValidPos
      <4> QED
        BY <3>1, <4>1, SlideLaws
    <3>2. CASE OtherLegal /\ board' = Slide(board, sent.i * OtherCols + sent.j)
      <4>1. sent.i * OtherCols + sent.j \in OtherPositions
        BY <3>2, OtherSize DEF OtherLegal
      <4>2. board \in [OtherPositions -> OtherPositions]
        <5>1. \A c \in Boards : DOMAIN c = Positions
          BY BoardLaws
        <5>2. DOMAIN NoBoard = Positions
          BY DEF NoBoard
        <5>3. DOMAIN board # Positions
          BY <3>2, OtherSize DEF OtherLegal
        <5> QED
          BY <1>1, <5>1, <5>2, <5>3 DEF ClientTypes
      <4> QED
        BY <3>2, <4>1, <4>2, OtherSlide
    <3> QED
      BY <1>5, <3>1, <3>2 DEF ServerApplies
  <2>3. ClientTypes'
    BY <1>1, <1>2, <1>4, <2>1, <2>2 DEF ClientTypes
  <2>4. ASSUME ~astray PROVE Arrived'
    <3>1. /\ id \in Ids /\ Position(sent.i, sent.j) = Cell(id) /\ ~OtherLegal
          /\ Legal => /\ Slide(board, Cell(id)) = Board(id)
                      /\ asked \in DOMAIN Solution
                      /\ step = Solution[asked] - Level(nodes, id)
      BY <1>2, <2>4, StepSent
    <3>2. Legal /\ board' = Slide(board, Position(sent.i, sent.j))
      BY <1>5, <3>1 DEF ServerApplies
    <3> QED
      BY <1>2, <1>3, <3>1, <3>2 DEF Arrived
  <2>5. ClientInv'
    BY <1>2, <1>3, <1>4, <2>1, <2>4 DEF ClientInv
  <2> QED
    BY <1>3, <2>3, <2>5 DEF IInv
<1>6. CASE ServerRefuses \/ ServerLoses
  <2>1. /\ board' = board /\ event' = "error-solve"
        /\ lost' = lost \/ (lost < MaxLost /\ lost' = lost + 1)
    BY <1>6 DEF ServerRefuses, ServerLoses, serverVars
  <2>2. ClientTypes'
    BY <1>1, <1>2, <1>4, <2>1, ServerAssumption DEF ClientTypes
  <2>3. ~astray => Ahead
    BY <1>1, <1>2 DEF ClientInv
  <2>4. UNCHANGED <<graphVars, board, id, asked, step>>
    BY <1>2, <2>1
  <2>5. ~astray' => Ahead'
    BY <1>1, <1>2, <2>3, <2>4, AheadStays
  <2>6. ClientInv'
    BY <1>2, <1>3, <1>4, <2>1, <2>5 DEF ClientInv
  <2> QED
    BY <1>3, <2>2, <2>6 DEF IInv
<1> QED
  BY <1>5, <1>6 DEF ServerStep

(* Nothing changes.                                                         *)
LEMMA StepStutter == IInv /\ UNCHANGED vars => IInv'
<1> SUFFICES ASSUME IInv, UNCHANGED vars PROVE IInv'
  OBVIOUS
<1>1. /\ UNCHANGED graphVars
      /\ UNCHANGED <<online, logins, user, size, id, step, astray, sent, event, board,
                     asked, events, lost>>
  BY DEF vars, loginVars, clientVars, serverVars
<1>2. ClientTypes'
  BY <1>1 DEF IInv, ClientTypes
<1>3. /\ online' => phase = "ready"
      /\ online' \/ (sent = NoStep /\ event = "none")
  BY <1>1 DEF IInv, ClientInv
<1>4. UNCHANGED <<graphVars, board, id, asked, step, astray>> /\ UNCHANGED <<sent, event>>
  BY <1>1
<1> QED
  BY <1>2, <1>3, <1>4, ClientStays DEF IInv

-------------------------------------------------------------------------------
(*****************************************************************************)
(* The theorems.                                                             *)
(*****************************************************************************)

(* Every behaviour keeps the invariant.                                     *)
THEOREM Invariance == Spec => []IInv
<1>1. Init => IInv
  BY ClientInit
<1>2. IInv /\ [Next]_vars => IInv'
  BY StepBuild, StepLine, StepGetMatriz, StepSolve, StepAckSolve, StepErrorSolve,
     StepServer, StepStutter DEF Next, ClientStep
<1> QED
  BY <1>1, <1>2, PTL DEF Spec

(* The types follow.                                                        *)
LEMMA InvTypeOK == IInv => TypeOK
<1> SUFFICES ASSUME IInv PROVE TypeOK
  OBVIOUS
<1>1. GraphInv /\ ClientTypes /\ ClientInv /\ SearchInv
  BY DEF IInv, GraphInv
<1>2. GraphTypeOK
  BY <1>1, InvGraphTypeOK
<1>3. id \in Ids \cup OtherIds /\ step \in Nat
  BY <1>1 DEF ClientInv
<1>4. \/ sent = NoStep
      \/ ValidPos(sent.i, sent.j)
      \/ sent.i \in 0 .. OtherRows - 1 /\ sent.j \in 0 .. OtherCols - 1
  <2>1. CASE id \in Ids /\ sent = StepTo(Node(id))
    BY <1>1, <2>1, CellLaws DEF StepTo
  <2>2. CASE id \in OtherIds /\ sent = StepTo(OtherNodes[id + 1])
    BY <2>2, OtherSize DEF StepTo
  <2> QED
    BY <1>1, <2>1, <2>2 DEF ClientInv
<1> QED
  BY <1>1, <1>2, <1>3, <1>4 DEF ClientTypes, TypeOK

(* TypeOK: every variable keeps its type; steps are sent, and answered,     *)
(* only to a player who has logged in on the present connection.            *)
THEOREM TypeCorrect == Spec => []TypeOK
  BY Invariance, InvTypeOK, PTL

(* AllBoardsFound: creatGraph meets every board that can be solved, no      *)
(* other, and none twice, for every size of board.                          *)
THEOREM AllFound == Spec => []AllBoardsFound
<1>1. IInv => AllBoardsFound
  BY InvAllBoardsFound DEF IInv
<1> QED
  BY <1>1, Invariance, PTL

(* ParentsAreShortest: the parents dijkstra leaves give shortest solutions, *)
(* in every order the priority queue may have.                              *)
THEOREM ShortestParents == Spec => []ParentsAreShortest
<1>1. IInv => ParentsAreShortest
  BY InvParents DEF IInv
<1> QED
  BY <1>1, Invariance, PTL

(* FarthestIsHardest: the board sent to the opponent is one of the hardest. *)
THEOREM HardestFarthest == Spec => []FarthestIsHardest
<1>1. IInv => FarthestIsHardest
  BY InvFarthest DEF IInv
<1> QED
  BY <1>1, Invariance, PTL

(* StepsAreLegal: until a board or a graph of the other size comes in       *)
(* between, every step moves the blank of the server's board until it is    *)
(* solved, and none does after, whatever was lost, broken off or asked      *)
(* before, and however often size was changed and changed back between two  *)
(* answers.                                                                 *)
THEOREM LegalSteps == Spec => []StepsAreLegal
<1>1. IInv => StepsAreLegal
  BY StepSent DEF StepsAreLegal
<1> QED
  BY <1>1, Invariance, PTL

(* StepsAreNumbered: until then a step has the number of its move in a      *)
(* shortest solution of the board asked about.                              *)
THEOREM NumberedSteps == Spec => []StepsAreNumbered
<1>1. IInv => StepsAreNumbered
  BY StepSent DEF StepsAreNumbered
<1> QED
  BY <1>1, Invariance, PTL
===============================================================================
