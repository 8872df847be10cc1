-------------------------- MODULE RomanNumeralsProofs --------------------------
(***************************************************************************)
(* Proofs about romanoToInt, for tokens of every length: the prefix of the *)
(* clause is never negative, and every numeral up to 3999 gets its value.  *)
(***************************************************************************)
EXTENDS RomanNumerals, SequenceTheorems, TLAPS

(* The prefix is a natural number: ValueInv is inductive. *)

Value == {1, 5, 10, 50, 100, 500, 1000}

LEMMA DigitValue == \A d \in Digit : valores[d] \in Value
BY DEF Digit, valores, Value

(***************************************************************************)
(* A letter v read to the left of u leaves room for what may follow it.    *)
(***************************************************************************)
LEMMA AddLeavesRoom ==
    ASSUME NEW v \in Value, NEW x \in Int, x >= 0
    PROVE  x + v > MostSubtracted(v)
BY DEF Value, MostSubtracted

LEMMA SubtractLeavesRoom ==
    ASSUME NEW u \in Value, NEW v \in Value, v < u,
           NEW x \in Int, x > MostSubtracted(u)
    PROVE  x - v > MostSubtracted(v)
BY DEF Value, MostSubtracted

LEMMA RoomIsNatural == \A u \in Value : MostSubtracted(u) \in Nat
BY DEF Value, MostSubtracted

LEMMA ValueInit == Init => ValueInv
<1> SUFFICES ASSUME Init PROVE ValueInv
  OBVIOUS
<1>1. siglo \in Seq(Digit) \ {<<>>} /\ Len(siglo) \in Nat
  BY TokenAssumption DEF Init
<1>2. QED
  BY <1>1 DEF Init, ValueInv, TypeOK

LEMMA ValueStep == ValueInv /\ [Next]_vars => ValueInv'
<1> SUFFICES ASSUME ValueInv, [Next]_vars PROVE ValueInv'
  OBVIOUS
<1>1. CASE UNCHANGED vars
  BY <1>1 DEF vars, ValueInv, TypeOK
<1>2. CASE Next
  <2>1. /\ siglo' = siglo /\ i' = i - 1 /\ i \in 1..Len(siglo)
        /\ siglo \in Seq(Digit) \ {<<>>} /\ Len(siglo) \in Nat
        /\ ultimoVal' = valI
    BY <1>2 DEF Next, Adds, Subtracts, Reads, ValueInv, TypeOK
  <2>2. valI \in Value
    BY <2>1, DigitValue DEF valI
  <2>3. ultimoVal \in Value \cup {0} /\ val \in Int
    BY DEF ValueInv, TypeOK, Value
  <2>4. CASE Adds
    <3>1. val >= 0
      <4>1. CASE i = Len(siglo)
        BY <4>1 DEF ValueInv
      <4>2. CASE i # Len(siglo)
        <5>1. val > MostSubtracted(ultimoVal)
          BY <2>1, <4>2 DEF ValueInv
        <5>2. MostSubtracted(ultimoVal) \in Nat
          BY <2>3 DEF Value, MostSubtracted
        <5>3. QED
          BY <2>3, <5>1, <5>2
      <4>3. QED
        BY <4>1, <4>2
    <3>2. val' = val + valI /\ val' \in Int
      BY <2>2, <2>3, <2>4 DEF Adds, Reads, Value
    <3>3. val' > MostSubtracted(valI)
      BY <2>2, <2>3, <3>1, <3>2, AddLeavesRoom
    <3>4. QED
      BY <2>1, <2>2, <3>2, <3>3 DEF ValueInv, TypeOK, Value
  <2>5. CASE Subtracts
    <3>1. val' = val - valI /\ valI < ultimoVal /\ val' \in Int
      BY <2>2, <2>3, <2>5 DEF Subtracts, Reads, Value
    <3>2. i < Len(siglo) /\ ultimoVal \in Value
      BY <2>1, <2>2, <2>3, <3>1 DEF ValueInv, Value
    <3>3. val > MostSubtracted(ultimoVal)
      BY <3>2 DEF ValueInv
    <3>4. val' > MostSubtracted(valI)
      BY <2>2, <2>3, <3>1, <3>2, <3>3, SubtractLeavesRoom
    <3>5. QED
      BY <2>1, <2>2, <3>1, <3>4 DEF ValueInv, TypeOK, Value
  <2>6. QED
    BY <1>2, <2>4, <2>5 DEF Next
<1>3. QED
  BY <1>1, <1>2

(***************************************************************************)
(* romanoToInt returns at least 1 for every token it is called on, so that *)
(* construirConsultaTemporal never builds a clause from a negative number. *)
(***************************************************************************)
THEOREM PrefixNeverNegative == Spec => []PrefixIsNatural
<1>1. ValueInv => PrefixIsNatural
  <2> SUFFICES ASSUME ValueInv, i = 0 PROVE val - 1 >= 0
    BY DEF PrefixIsNatural, Returned, ClausePrefix
  <2>1. i < Len(siglo) /\ val \in Int
    BY DEF ValueInv, TypeOK
  <2>2. ultimoVal \in Value \cup {0}
    BY DEF ValueInv, TypeOK, Value
  <2>3. MostSubtracted(ultimoVal) \in Nat
    BY <2>2 DEF Value, MostSubtracted
  <2>4. QED
    BY <2>1, <2>3 DEF ValueInv
<1>2. QED
  BY <1>1, ValueInit, ValueStep, PTL DEF Spec

-------------------------------------------------------------------------------
(* Every numeral gets its value: NumeralInv says how much of it was read. *)

(***************************************************************************)
(* The value of the last q letters of a digit, in units of its place.      *)
(***************************************************************************)
ReadOf(d, q) ==
    << <<0>>, <<0, 1>>, <<0, 1, 2>>, <<0, 1, 2, 3>>, <<0, 5, 4>>, <<0, 5>>,
       <<0, 1, 6>>, <<0, 1, 2, 7>>, <<0, 1, 2, 3, 8>>, <<0, 10, 9>>
    >>[d + 1][q + 1]

(***************************************************************************)
(* A digit as it is written.                                               *)
(***************************************************************************)
IsWritten(w, d, one, five, ten) ==
    /\ w \in Seq(Digit)
    /\ d = 0 => Len(w) = 0
    /\ d \in {1, 5} => Len(w) = 1
    /\ d \in {2, 4, 6, 9} => Len(w) = 2
    /\ d \in {3, 7} => Len(w) = 3
    /\ d = 8 => Len(w) = 4
    /\ d \in {1, 2, 3, 4, 9} => w[1] = one
    /\ d \in {5, 6, 7, 8} => w[1] = five
    /\ d \in {2, 3, 6, 7, 8} => w[2] = one
    /\ d = 4 => w[2] = five
    /\ d = 9 => w[2] = ten
    /\ d \in {3, 7, 8} => w[3] = one
    /\ d = 8 => w[4] = one

(***************************************************************************)
(* Written writes the digits from 0 to 9 as IsWritten says.                *)
(***************************************************************************)
LEMMA WrittenIs ==
    ASSUME NEW d \in 0..9, NEW one \in Digit, NEW five \in Digit, NEW ten \in Digit
    PROVE  IsWritten(Written(d, one, five, ten), d, one, five, ten)
<1>. DEFINE w == Written(d, one, five, ten)
<1>0. CASE d = 0
  <2>1. w = <<>>
    BY <1>0 DEF Written
  <2>2. w \in Seq(Digit) /\ Len(w) = 0
    BY <2>1
  <2>. HIDE DEF w
  <2>. QED BY <1>0, <2>2 DEF IsWritten, w
<1>1. CASE d = 1
  <2>1. w = <<one>>
    BY <1>1 DEF Written
  <2>2. w \in Seq(Digit) /\ Len(w) = 1 /\ w[1] = one
    BY <2>1
  <2>. HIDE DEF w
  <2>. QED BY <1>1, <2>2 DEF IsWritten, w
<1>2. CASE d = 2
  <2>1. w = <<one, one>>
    BY <1>2 DEF Written
  <2>2. w \in Seq(Digit) /\ Len(w) = 2 /\ w[1] = one /\ w[2] = one
    BY <2>1
  <2>. HIDE DEF w
  <2>. QED BY <1>2, <2>2 DEF IsWritten, w
<1>3. CASE d = 3
  <2>1. w = <<one, one, one>>
    BY <1>3 DEF Written
  <2>2. w \in Seq(Digit) /\ Len(w) = 3 /\ w[1] = one /\ w[2] = one /\ w[3] = one
    BY <2>1
  <2>. HIDE DEF w
  <2>. QED BY <1>3, <2>2 DEF IsWritten, w
<1>4. CASE d = 4
  <2>1. w = <<one, five>>
    BY <1>4 DEF Written
  <2>2. w \in Seq(Digit) /\ Len(w) = 2 /\ w[1] = one /\ w[2] = five
    BY <2>1
  <2>. HIDE DEF w
  <2>. QED BY <1>4, <2>2 DEF IsWritten, w
<1>5. CASE d = 5
  <2>1. w = <<five>>
    BY <1>5 DEF Written
  <2>2. w \in Seq(Digit) /\ Len(w) = 1 /\ w[1] = five
    BY <2>1
  <2>. HIDE DEF w
  <2>. QED BY <1>5, <2>2 DEF IsWritten, w
<1>6. CASE d = 6
  <2>1. w = <<five, one>>
    BY <1>6 DEF Written
  <2>2. w \in Seq(Digit) /\ Len(w) = 2 /\ w[1] = five /\ w[2] = one
    BY <2>1
  <2>. HIDE DEF w
  <2>. QED BY <1>6, <2>2 DEF IsWritten, w
<1>7. CASE d = 7
  <2>1. w = <<five, one, one>>
    BY <1>7 DEF Written
  <2>2. w \in Seq(Digit) /\ Len(w) = 3 /\ w[1] = five /\ w[2] = one /\ w[3] = one
    BY <2>1
  <2>. HIDE DEF w
  <2>. QED BY <1>7, <2>2 DEF IsWritten, w
<1>8. CASE d = 8
  <2>1. w = <<five, one, one, one>>
    BY <1>8 DEF Written
  <2>2. w \in Seq(Digit) /\ Len(w) = 4 /\ w[1] = five /\ w[2] = one /\ w[3] = one /\ w[4] = one
    BY <2>1
  <2>. HIDE DEF w
  <2>. QED BY <1>8, <2>2 DEF IsWritten, w
<1>9. CASE d = 9
  <2>1. w = <<one, ten>>
    BY <1>9 DEF Written
  <2>2. w \in Seq(Digit) /\ Len(w) = 2 /\ w[1] = one /\ w[2] = ten
    BY <2>1
  <2>. HIDE DEF w
  <2>. QED BY <1>9, <2>2 DEF IsWritten, w
<1>. QED BY <1>0, <1>1, <1>2, <1>3, <1>4, <1>5, <1>6, <1>7, <1>8, <1>9

(***************************************************************************)
(* One more letter of a digit: its value is added or taken away as the     *)
(* letter read before it says.                                             *)
(***************************************************************************)
CanRead(d, one, five, ten, w, u, q, base, last) ==
    /\ d \in 0..9
    /\ IsWritten(w, d, one, five, ten)
    /\ u \in Nat
    /\ u > 0
    /\ valores[one] = u
    /\ d > 3 => valores[five] = 5 * u /\ valores[ten] = 10 * u
    /\ q \in Nat
    /\ q < Len(w)
    /\ base \in Nat
    /\ last \in Nat
    /\ q = 0 => last < u
    /\ q > 0 => last = valores[w[Len(w) - q + 1]]

LetterSays(d, w, u, q, base, last) ==
    LET x == valores[w[Len(w) - q]]
        v == base + ReadOf(d, q) * u
    IN  (IF x >= last THEN v + x ELSE v - x) = base + ReadOf(d, q + 1) * u

LEMMA LetterRead ==
    ASSUME NEW d, NEW one, NEW five, NEW ten, NEW w, NEW u, NEW q, NEW base, NEW last,
           CanRead(d, one, five, ten, w, u, q, base, last)
    PROVE  LetterSays(d, w, u, q, base, last)
<1>. USE DEF CanRead
<1>. SUFFICES LET x == valores[w[Len(w) - q]]
                  v == base + ReadOf(d, q) * u
              IN  (IF x >= last THEN v + x ELSE v - x) = base + ReadOf(d, q + 1) * u
  BY DEF LetterSays
<1>0. CASE d = 0
  <2>1. Len(w) = 0
    BY <1>0 DEF IsWritten
  <2>. QED BY <2>1
<1>1. CASE d = 1
  <2>1. Len(w) = 1 /\ w[1] = one
    BY <1>1 DEF IsWritten
  <2>2. CASE q = 0
    <3>1. ReadOf(d, q) = 0 /\ ReadOf(d, q + 1) = 1
      BY <1>1, <2>2 DEF ReadOf
    <3>2. valores[w[Len(w) - q]] = u
      BY <1>1, <2>1, <2>2
    <3>. QED BY <2>2, <3>1, <3>2
  <2>. QED BY <2>1, <2>2
<1>2. CASE d = 2
  <2>1. Len(w) = 2 /\ w[1] = one /\ w[2] = one
    BY <1>2 DEF IsWritten
  <2>2. CASE q = 0
    <3>1. ReadOf(d, q) = 0 /\ ReadOf(d, q + 1) = 1
      BY <1>2, <2>2 DEF ReadOf
    <3>2. valores[w[Len(w) - q]] = u
      BY <1>2, <2>1, <2>2
    <3>. QED BY <2>2, <3>1, <3>2
  <2>3. CASE q = 1
    <3>1. ReadOf(d, q) = 1 /\ ReadOf(d, q + 1) = 2
      BY <1>2, <2>3 DEF ReadOf
    <3>2. valores[w[Len(w) - q]] = u /\ last = u
      BY <1>2, <2>1, <2>3
    <3>. QED BY <2>3, <3>1, <3>2
  <2>. QED BY <2>1, <2>2, <2>3
<1>3. CASE d = 3
  <2>1. Len(w) = 3 /\ w[1] = one /\ w[2] = one /\ w[3] = one
    BY <1>3 DEF IsWritten
  <2>2. CASE q = 0
    <3>1. ReadOf(d, q) = 0 /\ ReadOf(d, q + 1) = 1
      BY <1>3, <2>2 DEF ReadOf
    <3>2. valores[w[Len(w) - q]] = u
      BY <1>3, <2>1, <2>2
    <3>. QED BY <2>2, <3>1, <3>2
  <2>3. CASE q = 1
    <3>1. ReadOf(d, q) = 1 /\ ReadOf(d, q + 1) = 2
      BY <1>3, <2>3 DEF ReadOf
    <3>2. valores[w[Len(w) - q]] = u /\ last = u
      BY <1>3, <2>1, <2>3
    <3>. QED BY <2>3, <3>1, <3>2
  <2>4. CASE q = 2
    <3>1. ReadOf(d, q) = 2 /\ ReadOf(d, q + 1) = 3
      BY <1>3, <2>4 DEF ReadOf
    <3>2. valores[w[Len(w) - q]] = u /\ last = u
      BY <1>3, <2>1, <2>4
    <3>. QED BY <2>4, <3>1, <3>2
  <2>. QED BY <2>1, <2>2, <2>3, <2>4
<1>4. CASE d = 4
  <2>1. Len(w) = 2 /\ w[1] = one /\ w[2] = five
    BY <1>4 DEF IsWritten
  <2>2. CASE q = 0
    <3>1. ReadOf(d, q) = 0 /\ ReadOf(d, q + 1) = 5
      BY <1>4, <2>2 DEF ReadOf
    <3>2. valores[w[Len(w) - q]] = 5 * u
      BY <1>4, <2>1, <2>2
    <3>. QED BY <2>2, <3>1, <3>2
  <2>3. CASE q = 1
    <3>1. ReadOf(d, q) = 5 /\ ReadOf(d, q + 1) = 4
      BY <1>4, <2>3 DEF ReadOf
    <3>2. valores[w[Len(w) - q]] = u /\ last = 5 * u
      BY <1>4, <2>1, <2>3
    <3>. QED BY <2>3, <3>1, <3>2
  <2>. QED BY <2>1, <2>2, <2>3
<1>5. CASE d = 5
  <2>1. Len(w) = 1 /\ w[1] = five
    BY <1>5 DEF IsWritten
  <2>2. CASE q = 0
    <3>1. ReadOf(d, q) = 0 /\ ReadOf(d, q + 1) = 5
      BY <1>5, <2>2 DEF ReadOf
    <3>2. valores[w[Len(w) - q]] = 5 * u
      BY <1>5, <2>1, <2>2
    <3>. QED BY <2>2, <3>1, <3>2
  <2>. QED BY <2>1, <2>2
<1>6. CASE d = 6
  <2>1. Len(w) = 2 /\ w[1] = five /\ w[2] = one
    BY <1>6 DEF IsWritten
  <2>2. CASE q = 0
    <3>1. ReadOf(d, q) = 0 /\ ReadOf(d, q + 1) = 1
      BY <1>6, <2>2 DEF ReadOf
    <3>2. valores[w[Len(w) - q]] = u
      BY <1>6, <2>1, <2>2
    <3>. QED BY <2>2, <3>1, <3>2
  <2>3. CASE q = 1
    <3>1. ReadOf(d, q) = 1 /\ ReadOf(d, q + 1) = 6
      BY <1>6, <2>3 DEF ReadOf
    <3>2. valores[w[Len(w) - q]] = 5 * u /\ last = u
      BY <1>6, <2>1, <2>3
    <3>. QED BY <2>3, <3>1, <3>2
  <2>. QED BY <2>1, <2>2, <2>3
<1>7. CASE d = 7
  <2>1. Len(w) = 3 /\ w[1] = five /\ w[2] = one /\ w[3] = one
    BY <1>7 DEF IsWritten
  <2>2. CASE q = 0
    <3>1. ReadOf(d, q) = 0 /\ ReadOf(d, q + 1) = 1
      BY <1>7, <2>2 DEF ReadOf
    <3>2. valores[w[Len(w) - q]] = u
      BY <1>7, <2>1, <2>2
    <3>. QED BY <2>2, <3>1, <3>2
  <2>3. CASE q = 1
    <3>1. ReadOf(d, q) = 1 /\ ReadOf(d, q + 1) = 2
      BY <1>7, <2>3 DEF ReadOf
    <3>2. valores[w[Len(w) - q]] = u /\ last = u
      BY <1>7, <2>1, <2>3
    <3>. QED BY <2>3, <3>1, <3>2
  <2>4. CASE q = 2
    <3>1. ReadOf(d, q) = 2 /\ ReadOf(d, q + 1) = 7
      BY <1>7, <2>4 DEF ReadOf
    <3>2. valores[w[Len(w) - q]] = 5 * u /\ last = u
      BY <1>7, <2>1, <2>4
    <3>. QED BY <2>4, <3>1, <3>2
  <2>. QED BY <2>1, <2>2, <2>3, <2>4
<1>8. CASE d = 8
  <2>1. Len(w) = 4 /\ w[1] = five /\ w[2] = one /\ w[3] = one /\ w[4] = one
    BY <1>8 DEF IsWritten
  <2>2. CASE q = 0
    <3>1. ReadOf(d, q) = 0 /\ ReadOf(d, q + 1) = 1
      BY <1>8, <2>2 DEF ReadOf
    <3>2. valores[w[Len(w) - q]] = u
      BY <1>8, <2>1, <2>2
    <3>. QED BY <2>2, <3>1, <3>2
  <2>3. CASE q = 1
    <3>1. ReadOf(d, q) = 1 /\ ReadOf(d, q + 1) = 2
      BY <1>8, <2>3 DEF ReadOf
    <3>2. valores[w[Len(w) - q]] = u /\ last = u
      BY <1>8, <2>1, <2>3
    <3>. QED BY <2>3, <3>1, <3>2
  <2>4. CASE q = 2
    <3>1. ReadOf(d, q) = 2 /\ ReadOf(d, q + 1) = 3
      BY <1>8, <2>4 DEF ReadOf
    <3>2. valores[w[Len(w) - q]] = u /\ last = u
      BY <1>8, <2>1, <2>4
    <3>. QED BY <2>4, <3>1, <3>2
  <2>5. CASE q = 3
    <3>1. ReadOf(d, q) = 3 /\ ReadOf(d, q + 1) = 8
      BY <1>8, <2>5 DEF ReadOf
    <3>2. valores[w[Len(w) - q]] = 5 * u /\ last = u
      BY <1>8, <2>1, <2>5
    <3>. QED BY <2>5, <3>1, <3>2
  <2>. QED BY <2>1, <2>2, <2>3, <2>4, <2>5
<1>9. CASE d = 9
  <2>1. Len(w) = 2 /\ w[1] = one /\ w[2] = ten
    BY <1>9 DEF IsWritten
  <2>2. CASE q = 0
    <3>1. ReadOf(d, q) = 0 /\ ReadOf(d, q + 1) = 10
      BY <1>9, <2>2 DEF ReadOf
    <3>2. valores[w[Len(w) - q]] = 10 * u
      BY <1>9, <2>1, <2>2
    <3>. QED BY <2>2, <3>1, <3>2
  <2>3. CASE q = 1
    <3>1. ReadOf(d, q) = 10 /\ ReadOf(d, q + 1) = 9
      BY <1>9, <2>3 DEF ReadOf
    <3>2. valores[w[Len(w) - q]] = u /\ last = 10 * u
      BY <1>9, <2>1, <2>3
    <3>. QED BY <2>3, <3>1, <3>2
  <2>. QED BY <2>1, <2>2, <2>3
<1>. QED BY <1>0, <1>1, <1>2, <1>3, <1>4, <1>5, <1>6, <1>7, <1>8, <1>9

(***************************************************************************)
(* The decimal places of a number: the digit, its letters, where they are, *)
(* and the value of the digits after it.                                   *)
(***************************************************************************)
Decimal == 1..3999

Unit(k) == CASE k = 0 -> 1 [] k = 1 -> 10 [] k = 2 -> 100 [] OTHER -> 1000

DigitAt(n, k) == CASE k = 0 -> n % 10 [] k = 1 -> (n \div 10) % 10
                   [] k = 2 -> (n \div 100) % 10 [] OTHER -> n \div 1000

Thousands(d) == SubSeq(<<"M", "M", "M">>, 1, d)

Block(n, k) ==
    CASE k = 0 -> Written(n % 10, "I", "V", "X")
      [] k = 1 -> Written((n \div 10) % 10, "X", "L", "C")
      [] k = 2 -> Written((n \div 100) % 10, "C", "D", "M")
      [] OTHER -> Thousands(n \div 1000)

Above(n, k) ==
    CASE k = 3 -> 0
      [] k = 2 -> Len(Block(n, 3))
      [] k = 1 -> Len(Block(n, 3)) + Len(Block(n, 2))
      [] OTHER -> Len(Block(n, 3)) + Len(Block(n, 2)) + Len(Block(n, 1))

Below(n, k) ==
    CASE k = 0 -> 0
      [] k = 1 -> DigitAt(n, 0)
      [] k = 2 -> DigitAt(n, 0) + 10 * DigitAt(n, 1)
      [] OTHER -> DigitAt(n, 0) + 10 * DigitAt(n, 1) + 100 * DigitAt(n, 2)

(***************************************************************************)
(* Of the k-th place q letters have been read.                             *)
(***************************************************************************)
ReadTo(n, k, q) ==
    /\ i = Above(n, k) + Len(Block(n, k)) - q
    /\ val = Below(n, k) + ReadOf(DigitAt(n, k), q) * Unit(k)
    /\ ultimoVal \in Nat
    /\ q = 0 => ultimoVal < Unit(k)
    /\ q > 0 => ultimoVal = valores[Block(n, k)[Len(Block(n, k)) - q + 1]]

NumeralInv ==
    \A n \in Decimal : siglo = Numeral(n) =>
        \E k \in 0..3 : \E q \in 0..Len(Block(n, k)) : ReadTo(n, k, q)

(***************************************************************************)
(* Quotient and remainder by ten.                                          *)
(***************************************************************************)
LEMMA DivideByTen ==
    ASSUME NEW n \in Nat
    PROVE  n = 10 * (n \div 10) + (n % 10) /\ (n % 10) \in 0..9 /\ n \div 10 \in Nat
<1>1. n % 10 = n - 10 * (n \div 10)
  OBVIOUS
<1>2. n % 10 \in 0..9 /\ n \div 10 \in Nat
  OBVIOUS
<1>. DEFINE r == n % 10
            q == n \div 10
<1>3. r = n - 10 * q /\ r \in 0..9 /\ q \in Nat
  BY <1>1, <1>2
<1>4. n = 10 * q + r
  <2>. HIDE DEF q, r
  <2>. QED BY <1>3
<1>. QED BY <1>2, <1>4

(***************************************************************************)
(* Remainders by ten are digits.                                           *)
(***************************************************************************)
LEMMA DigitsOf ==
    ASSUME NEW n \in Decimal
    PROVE  (n % 10) \in 0..9 /\ ((n \div 10) % 10) \in 0..9 /\ ((n \div 100) % 10) \in 0..9
<1>1. n \in Nat
  BY DEF Decimal
<1>2. n \div 10 \in Nat /\ n \div 100 \in Nat
  BY <1>1
<1>. QED BY <1>1, <1>2

DigitsAre(n) ==
    /\ \A k \in 0..3 : DigitAt(n, k) \in 0..9
    /\ DigitAt(n, 3) <= 3
    /\ n = DigitAt(n, 0) + 10 * DigitAt(n, 1) + 100 * DigitAt(n, 2) + 1000 * DigitAt(n, 3)

(***************************************************************************)
(* A number is the sum of its digits, each times the unit of its place.    *)
(***************************************************************************)
LEMMA DigitsIs ==
    ASSUME NEW n \in Decimal
    PROVE  DigitsAre(n)
<1>. DEFINE a == n \div 1000
            b == (n \div 100) % 10
            c == (n \div 10) % 10
            e == n % 10
            x == n \div 10
            y == n \div 100
<1>1. n \in Nat /\ n < 4000
  BY DEF Decimal
<1>2. n = 10 * x + e /\ e \in 0..9 /\ x \in Nat
  BY <1>1, DivideByTen
<1>3. x \div 10 = y /\ y \div 10 = a
  <2>1. (n \div 10) \div 10 = n \div 100
    BY <1>1
  <2>2. (n \div 100) \div 10 = n \div 1000
    BY <1>1
  <2>. QED BY <2>1, <2>2
<1>4. x = 10 * y + c /\ c \in 0..9 /\ y \in Nat
  <2>1. x = 10 * (x \div 10) + (x % 10) /\ (x % 10) \in 0..9 /\ x \div 10 \in Nat
    <3>. HIDE DEF x
    <3>. QED BY <1>2, DivideByTen
  <2>. QED BY <1>3, <2>1
<1>5. y = 10 * a + b /\ b \in 0..9 /\ a \in Nat
  BY <1>3, <1>4, DivideByTen
<1>6. DigitAt(n, 0) = e /\ DigitAt(n, 1) = c /\ DigitAt(n, 2) = b /\ DigitAt(n, 3) = a
  BY DEF DigitAt
<1>. HIDE DEF a, b, c, e, x, y
<1>7. a \in 0..3 /\ n = e + 10 * c + 100 * b + 1000 * a
  BY <1>1, <1>2, <1>4, <1>5
<1>8. \A k \in 0..3 : k \in {0, 1, 2, 3}
  OBVIOUS
<1>9. a \in 0..9 /\ a <= 3
  BY <1>7
<1>. QED BY <1>2, <1>4, <1>5, <1>6, <1>7, <1>8, <1>9 DEF DigitsAre

(***************************************************************************)
(* The letters of a place.                                                 *)
(***************************************************************************)
One(k) == CASE k = 0 -> "I" [] k = 1 -> "X" [] k = 2 -> "C" [] OTHER -> "M"
Five(k) == CASE k = 0 -> "V" [] k = 1 -> "L" [] k = 2 -> "D" [] OTHER -> "M"
Ten(k) == CASE k = 0 -> "X" [] k = 1 -> "C" [] k = 2 -> "M" [] OTHER -> "M"

(***************************************************************************)
(* The thousands are as many M.                                            *)
(***************************************************************************)
LEMMA ThousandsAre ==
    ASSUME NEW d \in 0..3
    PROVE  IsWritten(Thousands(d), d, "M", "M", "M")
<1>. DEFINE m == <<"M", "M", "M">>
            w == SubSeq(m, 1, d)
<1>1. m \in Seq(Digit) /\ Len(m) = 3 /\ m[1] = "M" /\ m[2] = "M" /\ m[3] = "M"
  BY DEF Digit
<1>. HIDE DEF m
<1>2. w \in Seq(Digit) /\ Len(w) = d /\ \A j \in 1..d : w[j] = m[j]
  <2>1. \A j \in 1..d : m[j] \in Digit
    BY <1>1
  <2>2. w = [j \in 1..d |-> m[j]]
    BY <1>1
  <2>. HIDE DEF w
  <2>3. w \in [1..d -> Digit] 
    BY <2>1, <2>2
  <2>4. w \in Seq(Digit) /\ Len(w) = d
    BY <2>3
  <2>. QED BY <2>2, <2>4
<1>. HIDE DEF w
<1>3. d \in {0, 1, 2, 3}
  OBVIOUS
<1>4. /\ d >= 1 => w[1] = "M"
      /\ d >= 2 => w[2] = "M"
      /\ d >= 3 => w[3] = "M"
  BY <1>1, <1>2
<1>5. IsWritten(w, d, "M", "M", "M")
  BY <1>2, <1>3, <1>4 DEF IsWritten
<1>. QED BY <1>5 DEF w, m, Thousands

BlockSays(n, k) ==
    /\ IsWritten(Block(n, k), DigitAt(n, k), One(k), Five(k), Ten(k))
    /\ Unit(k) \in Nat /\ Unit(k) > 0 /\ valores[One(k)] = Unit(k)
    /\ k < 3 => /\ valores[Five(k)] = 5 * Unit(k)
                /\ valores[Ten(k)] = 10 * Unit(k)
                /\ Unit(k + 1) = 10 * Unit(k)

(***************************************************************************)
(* The letters of a place are its digit, written with the letters of the   *)
(* place.                                                                  *)
(***************************************************************************)
LEMMA BlockIs ==
    ASSUME NEW n \in Decimal, NEW k \in 0..3
    PROVE  BlockSays(n, k)
<1>1. k \in {0, 1, 2, 3}
  OBVIOUS
<1>2. CASE k = 3
  <2>0. ~(k = 0) /\ ~(k = 1) /\ ~(k = 2) /\ ~(k < 3)
    BY <1>2
  <2>1. DigitAt(n, k) = n \div 1000 /\ Block(n, k) = Thousands(n \div 1000)
        /\ One(k) = "M" /\ Five(k) = "M" /\ Ten(k) = "M" /\ Unit(k) = 1000
    <3>1. DigitAt(n, k) = n \div 1000 /\ Unit(k) = 1000
      BY <2>0 DEF DigitAt, Unit
    <3>2. Block(n, k) = Thousands(n \div 1000)
      BY <2>0 DEF Block
    <3>3. One(k) = "M" /\ Five(k) = "M" /\ Ten(k) = "M"
      BY <2>0 DEF One, Five, Ten
    <3>. QED BY <3>1, <3>2, <3>3
  <2>2. n \div 1000 \in 0..3
    <3>1. DigitAt(n, 3) \in 0..9 /\ DigitAt(n, 3) <= 3
      <4>1. DigitsAre(n)
        BY DigitsIs
      <4>2. 3 \in 0..3
        OBVIOUS
      <4>. QED BY <4>1, <4>2 DEF DigitsAre
    <3>. QED BY <1>2, <2>1, <3>1
  <2>3. "M" \in Digit /\ valores["M"] = 1000
    BY DEF Digit, valores
  <2>4. IsWritten(Thousands(n \div 1000), n \div 1000, "M", "M", "M")
    BY <2>2, ThousandsAre
  <2>. QED BY <2>0, <2>1, <2>3, <2>4 DEF BlockSays
<1>3. CASE k = 0
  <2>1. DigitAt(n, k) = n % 10 /\ Block(n, k) = Written(n % 10, "I", "V", "X")
        /\ One(k) = "I" /\ Five(k) = "V" /\ Ten(k) = "X" /\ Unit(k) = 1 /\ Unit(k + 1) = 10
    BY <1>3 DEF DigitAt, Block, One, Five, Ten, Unit
  <2>2. (n % 10) \in 0..9 /\ "I" \in Digit /\ "V" \in Digit /\ "X" \in Digit
    BY DigitsOf DEF Digit
  <2>. QED BY <1>3, <2>1, <2>2, WrittenIs DEF valores, BlockSays
<1>4. CASE k = 1
  <2>1. DigitAt(n, k) = (n \div 10) % 10 /\ Block(n, k) = Written((n \div 10) % 10, "X", "L", "C")
        /\ One(k) = "X" /\ Five(k) = "L" /\ Ten(k) = "C" /\ Unit(k) = 10 /\ Unit(k + 1) = 100
    BY <1>4 DEF DigitAt, Block, One, Five, Ten, Unit
  <2>2. (n \div 10) % 10 \in 0..9 /\ "C" \in Digit /\ "L" \in Digit /\ "X" \in Digit
    BY DigitsOf DEF Digit
  <2>. QED BY <1>4, <2>1, <2>2, WrittenIs DEF valores, BlockSays
<1>5. CASE k = 2
  <2>1. DigitAt(n, k) = (n \div 100) % 10 /\ Block(n, k) = Written((n \div 100) % 10, "C", "D", "M")
        /\ One(k) = "C" /\ Five(k) = "D" /\ Ten(k) = "M" /\ Unit(k) = 100 /\ Unit(k + 1) = 1000
    BY <1>5 DEF DigitAt, Block, One, Five, Ten, Unit
  <2>2. (n \div 100) % 10 \in 0..9 /\ "C" \in Digit /\ "D" \in Digit /\ "M" \in Digit
    BY DigitsOf DEF Digit
  <2>. QED BY <1>5, <2>1, <2>2, WrittenIs DEF valores, BlockSays
<1>. QED BY <1>1, <1>2, <1>3, <1>4, <1>5

(***************************************************************************)
(* Once all its letters are read, a digit has its value.                   *)
(***************************************************************************)
LEMMA WholeDigit ==
    ASSUME NEW d \in 0..9, NEW one, NEW five, NEW ten, NEW w, IsWritten(w, d, one, five, ten)
    PROVE  /\ Len(w) \in 0..4 /\ w \in Seq(Digit) /\ ReadOf(d, Len(w)) = d /\ ReadOf(d, 0) = 0
           /\ Len(w) = 0 <=> d = 0
           /\ Len(w) > 0 => w[1] = one \/ (d > 3 /\ w[1] = five)
<1>1. d \in {0, 1, 2, 3, 4, 5, 6, 7, 8, 9}
  OBVIOUS
<1>2. ReadOf(d, 0) = 0
  BY <1>1 DEF ReadOf
<1>3. CASE d = 0
  <2>1. w \in Seq(Digit) /\ Len(w) = 0
    BY <1>3 DEF IsWritten
  <2>2. ReadOf(0, 0) = 0
    BY DEF ReadOf
  <2>. QED BY <1>2, <1>3, <2>1, <2>2
<1>4. CASE d = 1
  <2>1. w \in Seq(Digit) /\ Len(w) = 1 /\ w[1] = one
    BY <1>4 DEF IsWritten
  <2>2. ReadOf(1, 1) = 1
    BY DEF ReadOf
  <2>. QED BY <1>2, <1>4, <2>1, <2>2
<1>5. CASE d = 2
  <2>1. w \in Seq(Digit) /\ Len(w) = 2 /\ w[1] = one
    BY <1>5 DEF IsWritten
  <2>2. ReadOf(2, 2) = 2
    BY DEF ReadOf
  <2>. QED BY <1>2, <1>5, <2>1, <2>2
<1>6. CASE d = 3
  <2>1. w \in Seq(Digit) /\ Len(w) = 3 /\ w[1] = one
    BY <1>6 DEF IsWritten
  <2>2. ReadOf(3, 3) = 3
    BY DEF ReadOf
  <2>. QED BY <1>2, <1>6, <2>1, <2>2
<1>7. CASE d = 4
  <2>1. w \in Seq(Digit) /\ Len(w) = 2 /\ w[1] = one
    BY <1>7 DEF IsWritten
  <2>2. ReadOf(4, 2) = 4
    BY DEF ReadOf
  <2>. QED BY <1>2, <1>7, <2>1, <2>2
<1>8. CASE d = 5
  <2>1. w \in Seq(Digit) /\ Len(w) = 1 /\ w[1] = five
    BY <1>8 DEF IsWritten
  <2>2. ReadOf(5, 1) = 5
    BY DEF ReadOf
  <2>. QED BY <1>2, <1>8, <2>1, <2>2
<1>9. CASE d = 6
  <2>1. w \in Seq(Digit) /\ Len(w) = 2 /\ w[1] = five
    BY <1>9 DEF IsWritten
  <2>2. ReadOf(6, 2) = 6
    BY DEF ReadOf
  <2>. QED BY <1>2, <1>9, <2>1, <2>2
<1>10. CASE d = 7
  <2>1. w \in Seq(Digit) /\ Len(w) = 3 /\ w[1] = five
    BY <1>10 DEF IsWritten
  <2>2. ReadOf(7, 3) = 7
    BY DEF ReadOf
  <2>. QED BY <1>2, <1>10, <2>1, <2>2
<1>11. CASE d = 8
  <2>1. w \in Seq(Digit) /\ Len(w) = 4 /\ w[1] = five
    BY <1>11 DEF IsWritten
  <2>2. ReadOf(8, 4) = 8
    BY DEF ReadOf
  <2>. QED BY <1>2, <1>11, <2>1, <2>2
<1>12. CASE d = 9
  <2>1. w \in Seq(Digit) /\ Len(w) = 2 /\ w[1] = one
    BY <1>12 DEF IsWritten
  <2>2. ReadOf(9, 2) = 9
    BY DEF ReadOf
  <2>. QED BY <1>2, <1>12, <2>1, <2>2
<1>. QED BY <1>1, <1>3, <1>4, <1>5, <1>6, <1>7, <1>8, <1>9, <1>10, <1>11, <1>12

(***************************************************************************)
(* The elements of two sequences put together.                             *)
(***************************************************************************)
LEMMA JoinedAt ==
    ASSUME NEW a \in Seq(Digit), NEW b \in Seq(Digit)
    PROVE  /\ a \o b \in Seq(Digit) /\ Len(a \o b) = Len(a) + Len(b)
           /\ Len(a) \in Nat /\ Len(b) \in Nat
           /\ \A j \in 1..Len(a) : (a \o b)[j] = a[j]
           /\ \A j \in 1..Len(b) : (a \o b)[Len(a) + j] = b[j]
<1>1. Len(a) \in Nat /\ Len(b) \in Nat
  OBVIOUS
<1>2. /\ a \o b \in Seq(Digit) /\ Len(a \o b) = Len(a) + Len(b)
      /\ \A j \in 1..(Len(a) + Len(b)) :
            (a \o b)[j] = IF j <= Len(a) THEN a[j] ELSE b[j - Len(a)]
  BY ConcatProperties
<1>3. ASSUME NEW j \in 1..Len(b) PROVE (a \o b)[Len(a) + j] = b[j]
  <2>1. Len(a) + j \in 1..(Len(a) + Len(b)) /\ ~(Len(a) + j <= Len(a)) /\ (Len(a) + j) - Len(a) = j
    BY <1>1
  <2>. QED BY <1>2, <2>1
<1>4. ASSUME NEW j \in 1..Len(a) PROVE (a \o b)[j] = a[j]
  BY <1>1, <1>2
<1>. QED BY <1>1, <1>2, <1>3, <1>4

PlacesAre(n) ==
    /\ Len(Numeral(n)) = Above(n, 0) + Len(Block(n, 0))
    /\ \A k \in 0..3 : Above(n, k) \in Nat
    /\ \A k \in 0..2 : Above(n, k) = Above(n, k + 1) + Len(Block(n, k + 1))
    /\ \A k \in 0..3 : \A j \in 1..Len(Block(n, k)) :
          Numeral(n)[Above(n, k) + j] = Block(n, k)[j]

(***************************************************************************)
(* Where the letters of a place are in the numeral.                        *)
(***************************************************************************)
LEMMA LetterAt ==
    ASSUME NEW n \in Decimal
    PROVE  PlacesAre(n)
<1>. DEFINE a == Block(n, 3)
            b == Block(n, 2)
            c == Block(n, 1)
            e == Block(n, 0)
<1>1. Numeral(n) = ((a \o b) \o c) \o e
  <2>1. /\ a = Thousands(n \div 1000)
        /\ b = Written((n \div 100) % 10, "C", "D", "M")
        /\ c = Written((n \div 10) % 10, "X", "L", "C")
        /\ e = Written(n % 10, "I", "V", "X")
    BY DEF Block
  <2>2. Numeral(n) = Thousands(n \div 1000)
                       \o Written((n \div 100) % 10, "C", "D", "M")
                       \o Written((n \div 10) % 10, "X", "L", "C")
                       \o Written(n % 10, "I", "V", "X")
    BY DEF Numeral, Thousands
  <2>. HIDE DEF a, b, c, e
  <2>. QED BY <2>1, <2>2
<1>2. a \in Seq(Digit) /\ b \in Seq(Digit) /\ c \in Seq(Digit) /\ e \in Seq(Digit)
  <2>1. ASSUME NEW k \in 0..3 PROVE Block(n, k) \in Seq(Digit)
    <3>1. IsWritten(Block(n, k), DigitAt(n, k), One(k), Five(k), Ten(k))
      <4>1. BlockSays(n, k)
        BY BlockIs
      <4>. QED BY <4>1 DEF BlockSays
    <3>. QED BY <3>1 DEF IsWritten
  <2>. QED BY <2>1
<1>3. /\ Above(n, 3) = 0 /\ Above(n, 2) = Len(a) /\ Above(n, 1) = Len(a) + Len(b)
      /\ Above(n, 0) = Len(a) + Len(b) + Len(c)
  BY DEF Above
<1>4. \A k \in 0..3 : k \in {0, 1, 2, 3}
  OBVIOUS
<1>. HIDE DEF a, b, c, e
<1>5. Len(a) \in Nat /\ Len(b) \in Nat /\ Len(c) \in Nat /\ Len(e) \in Nat
  BY <1>2
<1>6. /\ a \o b \in Seq(Digit) /\ Len(a \o b) = Len(a) + Len(b)
      /\ \A j \in 1..Len(a) : (a \o b)[j] = a[j]
      /\ \A j \in 1..Len(b) : (a \o b)[Len(a) + j] = b[j]
  BY <1>2, JoinedAt
<1>7. /\ (a \o b) \o c \in Seq(Digit) /\ Len((a \o b) \o c) = Len(a) + Len(b) + Len(c)
      /\ \A j \in 1..Len(a \o b) : ((a \o b) \o c)[j] = (a \o b)[j]
      /\ \A j \in 1..Len(c) : ((a \o b) \o c)[Len(a) + Len(b) + j] = c[j]
  BY <1>2, <1>6, JoinedAt
<1>8. /\ Len(Numeral(n)) = Len(a) + Len(b) + Len(c) + Len(e)
      /\ \A j \in 1..Len((a \o b) \o c) : Numeral(n)[j] = ((a \o b) \o c)[j]
      /\ \A j \in 1..Len(e) : Numeral(n)[Len(a) + Len(b) + Len(c) + j] = e[j]
  BY <1>1, <1>2, <1>7, JoinedAt
<1>9. /\ \A j \in 1..Len(a) : Numeral(n)[0 + j] = a[j]
      /\ \A j \in 1..Len(b) : Numeral(n)[Len(a) + j] = b[j]
      /\ \A j \in 1..Len(c) : Numeral(n)[Len(a) + Len(b) + j] = c[j]
  <2>1. ASSUME NEW j \in 1..Len(a) PROVE Numeral(n)[0 + j] = a[j]
    <3>1. 0 + j = j /\ j \in 1..Len(a \o b) /\ j \in 1..Len((a \o b) \o c)
      BY <1>5, <1>6, <1>7
    <3>. QED BY <1>6, <1>7, <1>8, <3>1
  <2>2. ASSUME NEW j \in 1..Len(b) PROVE Numeral(n)[Len(a) + j] = b[j]
    <3>1. Len(a) + j \in 1..Len(a \o b) /\ Len(a) + j \in 1..Len((a \o b) \o c)
      BY <1>5, <1>6, <1>7
    <3>. QED BY <1>6, <1>7, <1>8, <3>1
  <2>3. ASSUME NEW j \in 1..Len(c) PROVE Numeral(n)[Len(a) + Len(b) + j] = c[j]
    <3>1. Len(a) + Len(b) + j \in 1..Len((a \o b) \o c)
      BY <1>5, <1>7
    <3>. QED BY <1>7, <1>8, <3>1
  <2>. QED BY <2>1, <2>2, <2>3
<1>10. ASSUME NEW k \in 0..3
       PROVE  /\ Above(n, k) \in Nat
              /\ \A j \in 1..Len(Block(n, k)) : Numeral(n)[Above(n, k) + j] = Block(n, k)[j]
  <2>1. CASE k = 3
    BY <1>3, <1>9, <2>1 DEF a
  <2>2. CASE k = 2
    BY <1>3, <1>5, <1>9, <2>2 DEF b
  <2>3. CASE k = 1
    BY <1>3, <1>5, <1>9, <2>3 DEF c
  <2>4. CASE k = 0
    BY <1>3, <1>5, <1>8, <2>4 DEF e
  <2>. QED BY <1>4, <2>1, <2>2, <2>3, <2>4
<1>11. ASSUME NEW k \in 0..2
       PROVE  Above(n, k) = Above(n, k + 1) + Len(Block(n, k + 1))
  <2>1. CASE k = 2
    BY <1>3, <1>5, <2>1 DEF a
  <2>2. CASE k = 1
    BY <1>3, <1>5, <2>2 DEF b
  <2>3. CASE k = 0
    BY <1>3, <1>5, <2>3 DEF c
  <2>. QED BY <2>1, <2>2, <2>3
<1>12. Len(Numeral(n)) = Above(n, 0) + Len(Block(n, 0))
  BY <1>3, <1>8 DEF e
<1>. QED BY <1>10, <1>11, <1>12 DEF PlacesAre

(***************************************************************************)
(* What the places of a number say of one place.                           *)
(***************************************************************************)
PlaceSays(n, k) ==
    /\ DigitAt(n, k) \in 0..9
    /\ Len(Block(n, k)) \in 0..4
    /\ Block(n, k) \in Seq(Digit)
    /\ ReadOf(DigitAt(n, k), Len(Block(n, k))) = DigitAt(n, k)
    /\ ReadOf(DigitAt(n, k), 0) = 0
    /\ Len(Block(n, k)) > 0 =>
          valores[Block(n, k)[1]] = Unit(k) \/ (k < 3 /\ valores[Block(n, k)[1]] = 5 * Unit(k))
    /\ Unit(k) \in Nat
    /\ Unit(k) > 0

LEMMA PlaceIs ==
    ASSUME NEW n \in Decimal, NEW k \in 0..3
    PROVE  PlaceSays(n, k)
<1>1. DigitsAre(n)
  BY DigitsIs
<1>2. BlockSays(n, k)
  BY BlockIs
<1>3. DigitAt(n, k) \in 0..9
  BY <1>1 DEF DigitsAre
<1>4. DigitAt(n, k) > 3 => k < 3
  <2>1. CASE k = 3
    BY <1>1, <2>1 DEF DigitsAre
  <2>2. CASE k # 3
    BY <2>2
  <2>. QED BY <2>1, <2>2
<1>. DEFINE d == DigitAt(n, k)
            w == Block(n, k)
            u == Unit(k)
            one == One(k)
            five == Five(k)
            ten == Ten(k)
<1>5. /\ IsWritten(w, d, one, five, ten)
      /\ u \in Nat /\ u > 0 /\ valores[one] = u
      /\ k < 3 => valores[five] = 5 * u
  BY <1>2 DEF BlockSays
<1>6. d \in 0..9 /\ (d > 3 => k < 3)
  BY <1>3, <1>4
<1>. HIDE DEF d, w, u, one, five, ten
<1>7. /\ Len(w) \in 0..4 /\ w \in Seq(Digit) /\ ReadOf(d, Len(w)) = d /\ ReadOf(d, 0) = 0
      /\ Len(w) > 0 => w[1] = one \/ (d > 3 /\ w[1] = five)
  BY <1>5, <1>6, WholeDigit
<1>8. Len(w) > 0 => valores[w[1]] = u \/ (k < 3 /\ valores[w[1]] = 5 * u)
  BY <1>5, <1>6, <1>7
<1>. QED BY <1>5, <1>6, <1>7, <1>8 DEF PlaceSays, d, w, u

(***************************************************************************)
(* The places before the next one are those before this one and this one.  *)
(***************************************************************************)
LEMMA BelowGrows ==
    ASSUME NEW n \in Decimal, NEW k \in 0..2
    PROVE  /\ Below(n, k) \in Nat
           /\ Below(n, k + 1) = Below(n, k) + DigitAt(n, k) * Unit(k)
           /\ Unit(k + 1) = 10 * Unit(k)
<1>1. DigitsAre(n)
  BY DigitsIs
<1>2. DigitAt(n, 0) \in Nat /\ DigitAt(n, 1) \in Nat /\ DigitAt(n, 2) \in Nat
  BY <1>1 DEF DigitsAre
<1>3. /\ Below(n, 0) = 0 /\ Below(n, 1) = DigitAt(n, 0)
      /\ Below(n, 2) = DigitAt(n, 0) + 10 * DigitAt(n, 1)
      /\ Below(n, 3) = DigitAt(n, 0) + 10 * DigitAt(n, 1) + 100 * DigitAt(n, 2)
  BY DEF Below
<1>4. Unit(0) = 1 /\ Unit(1) = 10 /\ Unit(2) = 100 /\ Unit(3) = 1000
  BY DEF Unit
<1>5. CASE k = 0
  BY <1>2, <1>3, <1>4, <1>5
<1>6. CASE k = 1
  BY <1>2, <1>3, <1>4, <1>6
<1>7. CASE k = 2
  BY <1>2, <1>3, <1>4, <1>7
<1>. QED BY <1>5, <1>6, <1>7

LEMMA BelowIsNatural ==
    ASSUME NEW n \in Decimal, NEW k \in 0..3
    PROVE  Below(n, k) \in Nat
<1>1. DigitsAre(n)
  BY DigitsIs
<1>2. DigitAt(n, 0) \in Nat /\ DigitAt(n, 1) \in Nat /\ DigitAt(n, 2) \in Nat
  BY <1>1 DEF DigitsAre
<1>. QED BY <1>2 DEF Below

(***************************************************************************)
(* After the last letter of a place comes the next place.                  *)
(***************************************************************************)
LEMMA NextPlace ==
    ASSUME NEW n \in Decimal, NEW k \in 0..2, ReadTo(n, k, Len(Block(n, k)))
    PROVE  ReadTo(n, k + 1, 0)
<1>. DEFINE l == Len(Block(n, k))
            u == Unit(k)
            v == Unit(k + 1)
            b == Below(n, k)
            c == Below(n, k + 1)
            d == DigitAt(n, k)
            m == Len(Block(n, k + 1))
<1>1. PlacesAre(n)
  BY LetterAt
<1>2. PlaceSays(n, k) /\ PlaceSays(n, k + 1)
  BY PlaceIs
<1>3. l \in Nat /\ u \in Nat /\ u > 0 /\ d \in Nat /\ m \in Nat
      /\ ReadOf(d, l) = d /\ ReadOf(DigitAt(n, k + 1), 0) = 0
  BY <1>2 DEF PlaceSays
<1>4. v = 10 * u /\ c = b + d * u /\ b \in Nat
  BY BelowGrows
<1>5. Above(n, k) = Above(n, k + 1) + m /\ Above(n, k) \in Nat /\ Above(n, k + 1) \in Nat
  <2>1. k \in 0..3 /\ k + 1 \in 0..3
    OBVIOUS
  <2>2. Above(n, k) \in Nat /\ Above(n, k + 1) \in Nat
    BY <1>1, <2>1 DEF PlacesAre
  <2>3. Above(n, k) = Above(n, k + 1) + m
    BY <1>1 DEF PlacesAre
  <2>. QED BY <2>2, <2>3
<1>6. /\ i = Above(n, k) + l - l
      /\ val = b + ReadOf(d, l) * u
      /\ ultimoVal \in Nat
      /\ l = 0 => ultimoVal < u
      /\ l > 0 => ultimoVal = valores[Block(n, k)[l - l + 1]]
  BY DEF ReadTo
<1>7. i = Above(n, k + 1) + m - 0
  <2>. HIDE DEF m, l
  <2>. QED BY <1>3, <1>5, <1>6
<1>8. val = c + ReadOf(DigitAt(n, k + 1), 0) * v
  <2>1. val = c
    BY <1>3, <1>4, <1>6
  <2>2. c \in Nat /\ v \in Nat
    <3>1. d * u \in Nat
      <4>. HIDE DEF d, u
      <4>. QED BY <1>3
    <3>. HIDE DEF b, c, d, u, v
    <3>. QED BY <1>3, <1>4, <3>1
  <2>. HIDE DEF c, v
  <2>. QED BY <1>3, <2>1, <2>2
<1>9. ultimoVal < v
  <2>1. CASE l = 0
    <3>. HIDE DEF l, u, v
    <3>. QED BY <1>3, <1>4, <1>6, <2>1
  <2>2. CASE l > 0
    <3>1. valores[Block(n, k)[1]] = u \/ valores[Block(n, k)[1]] = 5 * u
      BY <1>2, <2>2 DEF PlaceSays
    <3>2. l - l + 1 = 1
      <4>. HIDE DEF l
      <4>. QED BY <1>3
    <3>3. ultimoVal = valores[Block(n, k)[1]]
      BY <1>6, <2>2, <3>2
    <3>. HIDE DEF l, u, v
    <3>. QED BY <1>3, <1>4, <3>1, <3>3
  <2>. HIDE DEF l
  <2>. QED BY <1>3, <2>1, <2>2
<1>. QED BY <1>6, <1>7, <1>8, <1>9 DEF ReadTo

(***************************************************************************)
(* Before the end there is a place of which a letter is still to be read;  *)
(* at the end every place has been.                                        *)
(***************************************************************************)
ReadsOn(n) == \E k \in 0..3 : \E q \in Nat : q < Len(Block(n, k)) /\ ReadTo(n, k, q)

ReadOut(n) == ReadTo(n, 3, Len(Block(n, 3)))

LEMMA ReadsOnOrOut ==
    ASSUME NEW n \in Decimal, NEW k \in 0..3, NEW q \in 0..Len(Block(n, k)), ReadTo(n, k, q)
    PROVE  ReadsOn(n) \/ ReadOut(n)
<1>. DEFINE At(j) == \E p \in 0..Len(Block(n, j)) : ReadTo(n, j, p)
<1>1. ASSUME NEW j \in 0..3 PROVE Len(Block(n, j)) \in Nat
  <2>1. PlaceSays(n, j)
    BY PlaceIs
  <2>. QED BY <2>1 DEF PlaceSays
<1>2. ASSUME NEW j \in 0..3, At(j), ~ReadsOn(n) PROVE ReadTo(n, j, Len(Block(n, j)))
  <2>1. PICK p \in 0..Len(Block(n, j)) : ReadTo(n, j, p)
    BY <1>2
  <2>2. Len(Block(n, j)) \in Nat
    BY <1>1
  <2>3. ~(p < Len(Block(n, j)))
    BY <1>2, <2>1, <2>2 DEF ReadsOn
  <2>4. p = Len(Block(n, j))
    BY <2>2, <2>3
  <2>. QED BY <2>1, <2>4
<1>3. ASSUME NEW j \in 0..2, At(j), ~ReadsOn(n) PROVE At(j + 1)
  <2>1. j \in 0..3 /\ j + 1 \in 0..3
    OBVIOUS
  <2>2. ReadTo(n, j, Len(Block(n, j)))
    BY <1>2, <1>3, <2>1
  <2>3. ReadTo(n, j + 1, 0)
    BY <2>2, NextPlace
  <2>4. 0 \in 0..Len(Block(n, j + 1))
    BY <1>1, <2>1
  <2>. QED BY <2>3, <2>4
<1>4. At(k)
  OBVIOUS
<1>5. k \in {0, 1, 2, 3}
  OBVIOUS
<1>. HIDE DEF At
<1>6. SUFFICES ASSUME ~ReadsOn(n) PROVE ReadOut(n)
  OBVIOUS
<1>7. (At(0) => At(1)) /\ (At(1) => At(2)) /\ (At(2) => At(3))
  <2>1. At(0) => At(0 + 1)
    BY <1>3, <1>6
  <2>2. At(1) => At(1 + 1)
    BY <1>3, <1>6
  <2>3. At(2) => At(2 + 1)
    BY <1>3, <1>6
  <2>4. 0 + 1 = 1 /\ 1 + 1 = 2 /\ 2 + 1 = 3
    OBVIOUS
  <2>. QED BY <2>1, <2>2, <2>3, <2>4
<1>8. At(3)
  BY <1>4, <1>5, <1>7
<1>. QED BY <1>2, <1>6, <1>8 DEF ReadOut

(***************************************************************************)
(* When every place has been read the value is the number.                 *)
(***************************************************************************)
LEMMA ReadOutIsNumber ==
    ASSUME NEW n \in Decimal, ReadOut(n)
    PROVE  i = 0 /\ val = n
<1>1. PlacesAre(n)
  BY LetterAt
<1>2. PlaceSays(n, 3)
  BY PlaceIs
<1>3. DigitsAre(n)
  BY DigitsIs
<1>. DEFINE l == Len(Block(n, 3))
            d == DigitAt(n, 3)
<1>4. l \in Nat /\ d \in 0..9 /\ ReadOf(d, l) = d
  BY <1>2 DEF PlaceSays
<1>5. i = Above(n, 3) + l - l /\ val = Below(n, 3) + ReadOf(d, l) * Unit(3)
  BY DEF ReadOut, ReadTo
<1>6. Above(n, 3) = 0 /\ Unit(3) = 1000
      /\ Below(n, 3) = DigitAt(n, 0) + 10 * DigitAt(n, 1) + 100 * DigitAt(n, 2)
  BY DEF Above, Unit, Below
<1>7. n = DigitAt(n, 0) + 10 * DigitAt(n, 1) + 100 * DigitAt(n, 2) + 1000 * d
  BY <1>3 DEF DigitsAre
<1>8. DigitAt(n, 0) \in Nat /\ DigitAt(n, 1) \in Nat /\ DigitAt(n, 2) \in Nat
  BY <1>3 DEF DigitsAre
<1>. HIDE DEF l, d
<1>9. i = 0
  BY <1>4, <1>5, <1>6
<1>10. val = n
  BY <1>4, <1>5, <1>6, <1>7, <1>8
<1>. QED BY <1>9, <1>10

(***************************************************************************)
(* A turn of the loop reads one more letter of the place.                  *)
(***************************************************************************)
LEMMA TurnReads ==
    ASSUME NEW n \in Decimal, siglo = Numeral(n), ValueInv, Next,
           NEW k \in 0..3, NEW q \in Nat, q < Len(Block(n, k)), ReadTo(n, k, q)
    PROVE  ReadTo(n, k, q + 1)'
<1>. DEFINE w == Block(n, k)
            l == Len(w)
            d == DigitAt(n, k)
            u == Unit(k)
            b == Below(n, k)
            a == Above(n, k)
<1>1. PlacesAre(n)
  BY LetterAt
<1>2. PlaceSays(n, k)
  BY PlaceIs
<1>3. BlockSays(n, k)
  BY BlockIs
<1>4. DigitsAre(n)
  BY DigitsIs
<1>5. d \in 0..9 /\ l \in 0..4 /\ w \in Seq(Digit) /\ u \in Nat /\ u > 0
  BY <1>2 DEF PlaceSays
<1>6. d > 3 => k < 3
  <2>1. CASE k = 3
    BY <1>4, <2>1 DEF DigitsAre
  <2>2. CASE k # 3
    BY <2>2
  <2>. QED BY <2>1, <2>2
<1>7. /\ IsWritten(w, d, One(k), Five(k), Ten(k))
      /\ valores[One(k)] = u
      /\ d > 3 => valores[Five(k)] = 5 * u /\ valores[Ten(k)] = 10 * u
  BY <1>3, <1>6 DEF BlockSays
<1>8. b \in Nat
  BY BelowIsNatural
<1>9. a \in Nat /\ \A j \in 1..l : siglo[a + j] = w[j]
  BY <1>1 DEF PlacesAre
<1>10. /\ i = a + l - q
       /\ val = b + ReadOf(d, q) * u
       /\ ultimoVal \in Nat
       /\ q = 0 => ultimoVal < u
       /\ q > 0 => ultimoVal = valores[w[l - q + 1]]
  BY DEF ReadTo
<1>11. q < l
  OBVIOUS
<1>. DEFINE one == One(k)
            five == Five(k)
            ten == Ten(k)
            x == valores[w[l - q]]
            last == ultimoVal
<1>12. (IF x >= last THEN (b + ReadOf(d, q) * u) + x ELSE (b + ReadOf(d, q) * u) - x)
         = b + ReadOf(d, q + 1) * u
  <2>1. /\ IsWritten(w, d, one, five, ten)
        /\ valores[one] = u
        /\ d > 3 => valores[five] = 5 * u /\ valores[ten] = 10 * u
    BY <1>7
  <2>2. /\ last \in Nat
        /\ q = 0 => last < u
        /\ q > 0 => last = valores[w[Len(w) - q + 1]]
    BY <1>10
  <2>3. q < Len(w) /\ x = valores[w[Len(w) - q]]
    BY <1>11
  <2>4. d \in 0..9 /\ u \in Nat /\ u > 0 /\ b \in Nat
    BY <1>5, <1>8
  <2>5. LetterSays(d, w, u, q, b, last)
    <3>. HIDE DEF w, d, u, b, one, five, ten, last, l
    <3>1. CanRead(d, one, five, ten, w, u, q, b, last)
      BY <2>1, <2>2, <2>3, <2>4 DEF CanRead
    <3>. QED BY <3>1, LetterRead
  <2>. QED BY <2>5 DEF LetterSays
<1>13. valI = x
  <2>1. a + l - q = a + (l - q) /\ l - q \in 1..l
    <3>. HIDE DEF a, l
    <3>. QED BY <1>5, <1>9, <1>11
  <2>2. siglo[i] = w[l - q]
    BY <1>9, <1>10, <2>1
  <2>. QED BY <2>2 DEF valI
<1>14. x \in Nat
  <2>1. l - q \in 1..l
    <3>. HIDE DEF l
    <3>. QED BY <1>5, <1>11
  <2>2. w[l - q] \in Digit
    BY <1>5, <2>1
  <2>3. x \in Value
    BY <2>2, DigitValue
  <2>. HIDE DEF x
  <2>. QED BY <2>3 DEF Value
<1>15. /\ i' = i - 1 /\ ultimoVal' = x
       /\ val' = IF x >= last THEN val + x ELSE val - x
  <2>1. CASE Adds
    BY <1>13, <2>1 DEF Adds, Reads
  <2>2. CASE Subtracts
    <3>1. valI < ultimoVal /\ val' = val - valI /\ i' = i - 1 /\ ultimoVal' = valI
      BY <2>2 DEF Subtracts, Reads
    <3>2. ~(x >= last)
      <4>. HIDE DEF x
      <4>. QED BY <1>10, <1>13, <1>14, <3>1
    <3>. QED BY <1>13, <3>1, <3>2
  <2>. QED BY <2>1, <2>2 DEF Next
<1>16. val' = b + ReadOf(d, q + 1) * u
  <2>1. val' = IF x >= last THEN (b + ReadOf(d, q) * u) + x ELSE (b + ReadOf(d, q) * u) - x
    BY <1>10, <1>15
  <2>. QED BY <1>12, <2>1
<1>17. i' = a + l - (q + 1)
  <2>1. i = a + l - q /\ i' = i - 1 /\ a \in Nat /\ l \in Nat
    BY <1>5, <1>9, <1>10, <1>15
  <2>. HIDE DEF a, l
  <2>. QED BY <2>1
<1>18. x = valores[w[l - (q + 1) + 1]]
  <2>1. l - (q + 1) + 1 = l - q
    <3>. HIDE DEF l
    <3>. QED BY <1>5
  <2>. QED BY <2>1
<1>19. ~(q + 1 = 0)
  OBVIOUS
<1>20. ultimoVal' \in Nat /\ ultimoVal' = valores[w[l - (q + 1) + 1]]
  BY <1>14, <1>15, <1>18
<1>. QED BY <1>16, <1>17, <1>19, <1>20 DEF ReadTo

LEMMA NumeralInit == Init => NumeralInv
<1>. SUFFICES ASSUME Init, NEW n \in Decimal, siglo = Numeral(n)
              PROVE  \E k \in 0..3 : \E q \in 0..Len(Block(n, k)) : ReadTo(n, k, q)
  BY DEF NumeralInv
<1>1. PlacesAre(n)
  BY LetterAt
<1>2. PlaceSays(n, 0)
  BY PlaceIs
<1>3. /\ DigitAt(n, 0) \in 0..9 /\ Len(Block(n, 0)) \in Nat
      /\ ReadOf(DigitAt(n, 0), 0) = 0
  BY <1>2 DEF PlaceSays
<1>4. Len(Numeral(n)) = Above(n, 0) + Len(Block(n, 0)) /\ Above(n, 0) \in Nat
  BY <1>1 DEF PlacesAre
<1>5. Below(n, 0) = 0 /\ Unit(0) = 1
  BY DEF Below, Unit
<1>6. i = Len(Numeral(n)) /\ val = 0 /\ ultimoVal = 0
  BY DEF Init
<1>7. i = Above(n, 0) + Len(Block(n, 0)) - 0
  BY <1>3, <1>4, <1>6
<1>8. val = Below(n, 0) + ReadOf(DigitAt(n, 0), 0) * Unit(0)
  BY <1>3, <1>5, <1>6
<1>9. ReadTo(n, 0, 0)
  BY <1>5, <1>6, <1>7, <1>8 DEF ReadTo
<1>10. 0 \in 0..3 /\ 0 \in 0..Len(Block(n, 0))
  BY <1>3
<1>. QED BY <1>9, <1>10

LEMMA NumeralStep == ValueInv /\ NumeralInv /\ [Next]_vars => NumeralInv'
<1>. SUFFICES ASSUME ValueInv, NumeralInv, [Next]_vars PROVE NumeralInv'
  OBVIOUS
<1>1. CASE UNCHANGED vars
  BY <1>1 DEF vars, NumeralInv, ReadTo
<1>2. CASE Next
  <2>1. siglo' = siglo /\ i # 0
    <3>1. i \in Int
      BY DEF ValueInv, TypeOK
    <3>. QED BY <1>2, <3>1 DEF Next, Adds, Subtracts, Reads
  <2>2. SUFFICES ASSUME NEW n \in Decimal, siglo = Numeral(n)
                 PROVE  \E k \in 0..3 : \E q \in 0..Len(Block(n, k)) : ReadTo(n, k, q)'
    BY <2>1 DEF NumeralInv
  <2>3. PICK k \in 0..3 : \E q \in 0..Len(Block(n, k)) : ReadTo(n, k, q)
    BY <2>2 DEF NumeralInv
  <2>4. PICK q \in 0..Len(Block(n, k)) : ReadTo(n, k, q)
    BY <2>3
  <2>5. ReadsOn(n)
    <3>1. ReadsOn(n) \/ ReadOut(n)
      BY <2>4, ReadsOnOrOut
    <3>2. ~ReadOut(n)
      BY <2>1, ReadOutIsNumber
    <3>. QED BY <3>1, <3>2
  <2>6. PICK j \in 0..3 : \E p \in Nat : p < Len(Block(n, j)) /\ ReadTo(n, j, p)
    BY <2>5 DEF ReadsOn
  <2>7. PICK p \in Nat : p < Len(Block(n, j)) /\ ReadTo(n, j, p)
    BY <2>6
  <2>8. ReadTo(n, j, p + 1)'
    BY <1>2, <2>2, <2>7, TurnReads
  <2>9. p + 1 \in 0..Len(Block(n, j))
    <3>1. PlaceSays(n, j)
      BY PlaceIs
    <3>2. Len(Block(n, j)) \in Nat
      BY <3>1 DEF PlaceSays
    <3>. QED BY <2>7, <3>2
  <2>. QED BY <2>8, <2>9
<1>. QED BY <1>1, <1>2

(***************************************************************************)
(* romanoToInt gives every numeral from I to MMMCMXCIX its value, whatever *)
(* other tokens it is called on.                                           *)
(***************************************************************************)
THEOREM EveryNumeralIsRead == Spec => []NumeralsAreRead
<1>1. ValueInv /\ NumeralInv => NumeralsAreRead
  <2>. SUFFICES ASSUME ValueInv, NumeralInv, i = 0, siglo \in Numerals
                PROVE  val \in 1..3999 /\ siglo = Numeral(val)
    BY DEF NumeralsAreRead, Returned
  <2>1. PICK n \in Decimal : siglo = Numeral(n)
    BY DEF Numerals, Decimal
  <2>2. PICK k \in 0..3 : \E q \in 0..Len(Block(n, k)) : ReadTo(n, k, q)
    BY <2>1 DEF NumeralInv
  <2>3. PICK q \in 0..Len(Block(n, k)) : ReadTo(n, k, q)
    BY <2>2
  <2>4. ~ReadsOn(n)
    <3>1. SUFFICES ASSUME NEW j \in 0..3, NEW p \in Nat, p < Len(Block(n, j)), ReadTo(n, j, p)
                   PROVE  FALSE
      BY DEF ReadsOn
    <3>2. PlacesAre(n)
      BY LetterAt
    <3>3. PlaceSays(n, j)
      BY PlaceIs
    <3>4. Above(n, j) \in Nat /\ Len(Block(n, j)) \in Nat
      <4>1. Above(n, j) \in Nat
        BY <3>2 DEF PlacesAre
      <4>2. Len(Block(n, j)) \in Nat
        BY <3>3 DEF PlaceSays
      <4>. QED BY <4>1, <4>2
    <3>5. i = Above(n, j) + Len(Block(n, j)) - p
      BY <3>1 DEF ReadTo
    <3>. QED BY <3>1, <3>4, <3>5
  <2>5. ReadOut(n)
    BY <2>3, <2>4, ReadsOnOrOut
  <2>6. val = n
    BY <2>5, ReadOutIsNumber
  <2>. QED BY <2>1, <2>6 DEF Decimal
<1>. QED BY <1>1, ValueInit, ValueStep, NumeralInit, NumeralStep, PTL DEF Spec
===============================================================================
