------------------------------ MODULE AppScreen ------------------------------
(***************************************************************************)
(* The text of a counter on the dashboard.  Where the dashboard draws its  *)
(* cells, and the texts of its other cells, are left out.                  *)
(***************************************************************************)
EXTENDS Integers, Sequences, FiniteSets

(* The decimal digits of a uint32_t: how many, and which is the ith from   *)
(* the right.                                                              *)
Power == <<1, 10, 100, 1000, 10000, 100000, 1000000, 10000000, 100000000, 1000000000>>
DigitCount(v) ==
  CHOOSE n \in 1..10 : (n = 10 \/ v < Power[n + 1]) /\ (n = 1 \/ v >= Power[n])
Digit(v, i) == (v \div Power[i + 1]) % 10

(* A character is the digit it shows; these two are none.                  *)
Space == 10
Garbage == <<11>>

(* Mutant of Separated: the count begins at one.                           *)
SeparatedEarly(i) == (i + 1) % 3 = 0

Separated(i) == i > 0 /\ i % 3 = 0

(* formatThousands(): from the right into 14 bytes, a space before each    *)
(* separated digit; pos is a uint8_t that wraps when they are full.        *)
Place(i) == i + Cardinality({k \in 0..i : Separated(k)})

formatThousands(v) ==
  LET n == DigitCount(v)
      length == Place(n - 1) + 1
      at(j) == {i \in 0..(n - 1) : Place(i) = length - j}
      chars == [j \in 1..length |->
                  IF at(j) = {} THEN Space ELSE Digit(v, CHOOSE i \in at(j) : TRUE)]
      pos == (12 - length) % 256
  IN  IF pos + 1 < 14 THEN chars ELSE Garbage

(* "%9s" in ten bytes.                                                     *)
CounterText(v) ==
  LET t == formatThousands(v)
      pad == IF Len(t) < 9 THEN 9 - Len(t) ELSE 0
  IN  [i \in 1..9 |-> IF i <= pad THEN Space ELSE t[i - pad]]
=============================================================================
