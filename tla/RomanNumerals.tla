---------------------------- MODULE RomanNumerals ----------------------------
(***************************************************************************)
(* romanoToInt of Trabajo/src/SearchFiles.java, which construirConsulta-   *)
(* Temporal calls on every token of a need made only of the letters of     *)
(* Roman numerals ("xx", but also "mi", "vivi", "mil"), to look for        *)
(* documents about that century.  One step is one turn of the loop.        *)
(***************************************************************************)
EXTENDS Integers, Sequences

Digit == {"I", "V", "X", "L", "C", "D", "M"}

valores == [M |-> 1000, D |-> 500, C |-> 100, L |-> 50, X |-> 10, V |-> 5, I |-> 1]

CONSTANT Token   \* the tokens that match [mdclxvi]+, in upper case

ASSUME TokenAssumption == Token \subseteq Seq(Digit) \ {<<>>}

VARIABLES
    siglo,       \* the token
    i,           \* the position of the next letter, from right to left; 0 at the end
    val,         \* the value so far
    ultimoVal    \* the value of the letter read last

vars == <<siglo, i, val, ultimoVal>>

Init ==
    /\ siglo \in Token
    /\ i = Len(siglo)
    /\ val = 0
    /\ ultimoVal = 0

valI == valores[siglo[i]]

(* Faults of Reads: the letter to compare with is the largest so far, or    *)
(* the value so far.                                                        *)
ReadsLargest(v) ==
    /\ val' = v
    /\ ultimoVal' = IF valI > ultimoVal THEN valI ELSE ultimoVal
    /\ i' = i - 1
    /\ UNCHANGED siglo

Reads(v) ==
    /\ val' = v
    /\ ultimoVal' = valI
    /\ i' = i - 1
    /\ UNCHANGED siglo

Adds == i > 0 /\ valI >= ultimoVal /\ Reads(val + valI)

(* A fault of Subtracts: IX is read as XI. *)
AddsAlways == i > 0 /\ valI < ultimoVal /\ Reads(val + valI)

Subtracts == i > 0 /\ valI < ultimoVal /\ Reads(val - valI)

Next == Adds \/ Subtracts

Spec == Init /\ [][Next]_vars

Returned == i = 0

(***************************************************************************)
(* construirConsultaTemporal looks for the words that begin with the       *)
(* number before the century and have two more characters.                 *)
(***************************************************************************)
ClausePrefix == val - 1

-------------------------------------------------------------------------------
(* The numerals as they are written: the reference for romanoToInt. *)

(***************************************************************************)
(* A decimal digit d, written with the letters for one, five and ten.      *)
(***************************************************************************)
Written(d, one, five, ten) ==
    << <<>>, <<one>>, <<one, one>>, <<one, one, one>>, <<one, five>>, <<five>>,
       <<five, one>>, <<five, one, one>>, <<five, one, one, one>>, <<one, ten>>
    >>[d + 1]

Numeral(n) ==
    SubSeq(<<"M", "M", "M">>, 1, n \div 1000)
      \o Written((n \div 100) % 10, "C", "D", "M")
      \o Written((n \div 10) % 10, "X", "L", "C")
      \o Written(n % 10, "I", "V", "X")

Numerals == {Numeral(n) : n \in 1..3999}

(* The tokens of the runs: every numeral and every token of up to five letters. *)
ShortTokens == UNION {[1..n -> Digit] : n \in 1..5}
CheckedTokens == Numerals \cup ShortTokens

TypeOK ==
    /\ siglo \in Seq(Digit) \ {<<>>}
    /\ i \in 0..Len(siglo)
    /\ val \in Int
    /\ ultimoVal \in {0, 1, 5, 10, 50, 100, 500, 1000}

(***************************************************************************)
(* Numerals written in the usual way get their value.                      *)
(***************************************************************************)
NumeralsAreRead ==
    Returned /\ siglo \in Numerals => val \in 1..3999 /\ siglo = Numeral(val)

(***************************************************************************)
(* Any token gets at least 1, numeral or not (IIX, VIVI): the prefix that  *)
(* construirConsultaTemporal looks for is never a negative number.         *)
(***************************************************************************)
PrefixIsNatural == Returned => ClausePrefix >= 0

(***************************************************************************)
(* The value is above all that the next letters could take away: since a   *)
(* letter is subtracted only when it is worth less than the one before,    *)
(* at most one letter of each lesser value is subtracted in a row.         *)
(***************************************************************************)
MostSubtracted(v) ==
    CASE v <= 1 -> 0
      [] v = 5 -> 1
      [] v = 10 -> 6
      [] v = 50 -> 16
      [] v = 100 -> 66
      [] v = 500 -> 166
      [] OTHER -> 666

ValueInv ==
    /\ TypeOK
    /\ i < Len(siglo) => val > MostSubtracted(ultimoVal)
    /\ i = Len(siglo) => val = 0 /\ ultimoVal = 0

(***************************************************************************)
(* The comment above romanoToInt: "Si es un siglo, lo devuelve como año    *)
(* (Siglo XX -> 1900)", a century is returned as its year.                 *)
(***************************************************************************)
ReturnsYear ==
    \A century \in 1..21 :
        Returned /\ siglo = Numeral(century) => val = 100 * (century - 1)
===============================================================================
