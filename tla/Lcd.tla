--------------------------------- MODULE Lcd ---------------------------------
(***************************************************************************)
(* What the second line of the LCD holds, column by column (menu.c): where *)
(* the values of the setting pages stand, the tables by which the cursor   *)
(* finds their digits and the buttons change them, and the measurements.   *)
(* Operators only; the passcode and its stars are in Display.              *)
(***************************************************************************)
EXTENDS Integers
LOCAL INSTANCE Sequences

CONSTANT ValueLength   \* how long a measured value may be when printed

ASSUME LengthAssumption == ValueLength \subseteq 4..16

Width == 16            \* columns of a line; what is longer is not visible

IpPage == 120..123
NumberPage == IpPage \cup (124..126) \cup (130..131)

(* applyMenuValuetoLcd: first column and number of digits of each number.  *)
Format(p) ==
  CASE p \in IpPage -> <<[from |-> 1, digits |-> 3], [from |-> 5, digits |-> 3],
                         [from |-> 9, digits |-> 3], [from |-> 13, digits |-> 3]>>
    [] p = 124      -> <<[from |-> 1, digits |-> 5]>>
    [] p = 125      -> <<[from |-> 4, digits |-> 3], [from |-> 11, digits |-> 5]>>
    [] p = 126      -> <<[from |-> 1, digits |-> 3]>>
    [] p = 130      -> <<[from |-> 3, digits |-> 2], [from |-> 6, digits |-> 2],
                         [from |-> 9, digits |-> 2]>>
    [] p = 131      -> <<[from |-> 1, digits |-> 2], [from |-> 4, digits |-> 2],
                         [from |-> 7, digits |-> 2]>>

(* For every x the column of the cursor, what a button adds, and to which *)
(* number.                                                                 *)
Three == <<100, 10, 1>>
Five == <<10000, 1000, 100, 10, 1>>
Pairs == <<10, 1, 10, 1, 10, 1>>

IpPack == [position |-> <<1, 2, 3, 5, 6, 7, 9, 10, 11, 13, 14, 15>>,
           digit |-> Three \o Three \o Three \o Three,
           index |-> <<0, 0, 0, 1, 1, 1, 2, 2, 2, 3, 3, 3>>]
IntPack == [position |-> <<1, 2, 3, 4, 5>>, digit |-> Five, index |-> <<0, 0, 0, 0, 0>>]
Int2Pack == [position |-> <<4, 5, 6, 11, 12, 13, 14, 15>>, digit |-> Three \o Five,
             index |-> <<0, 0, 0, 1, 1, 1, 1, 1>>]
Uint8Pack == [position |-> <<1, 2, 3>>, digit |-> Three, index |-> <<0, 0, 0>>]
WrongDatePack ==       \* the columns of the time
  [position |-> <<1, 2, 4, 5, 7, 8>>, digit |-> Pairs, index |-> <<0, 0, 1, 1, 2, 2>>]
DatePack ==
  [position |-> <<3, 4, 6, 7, 9, 10>>, digit |-> Pairs, index |-> <<0, 0, 1, 1, 2, 2>>]
TimePack ==
  [position |-> <<1, 2, 4, 5, 7, 8>>, digit |-> Pairs, index |-> <<0, 0, 1, 1, 2, 2>>]

(* cursor, setMenu: the table of a page.                                   *)
Pack(p) ==
  CASE p \in IpPage -> IpPack
    [] p = 124      -> IntPack
    [] p = 125      -> Int2Pack
    [] p = 126      -> Uint8Pack
    [] p = 130      -> DatePack
    [] p = 131      -> TimePack

(* The largest value of number i, in the increase and decrease functions;  *)
(* month and day are counted from zero and printed from one.               *)
Limit(p, i) ==
  CASE p \in IpPage \cup {126} -> 255
    [] p = 124 -> 65535
    [] p = 125 -> <<255, 65535>>[i + 1]
    [] p = 130 -> <<99, 11, 30>>[i + 1]
    [] p = 131 -> <<23, 59, 59>>[i + 1]
Printed(p, i, v) == IF p = 130 /\ i > 0 THEN v + 1 ELSE v

Limited(v, limit) == IF v > limit THEN 0 ELSE IF v < 0 THEN limit ELSE v

(* increaseIp, increaseInt, ... and decrease...: the number the cursor is  *)
(* in, changed by one of its digits.                                       *)
Increase(p, x, v) == Limited(v + Pack(p).digit[x + 1], Limit(p, Pack(p).index[x + 1]))
Decrease(p, x, v) == Limited(v - Pack(p).digit[x + 1], Limit(p, Pack(p).index[x + 1]))

-----------------------------------------------------------------------------
(* displayMeasuremet: what it prints on a page, as the columns with a      *)
(* character and the last column it touches.                               *)
Text(n, unit, upto) == [ink |-> (1..n) \cup (n + 2..n + 1 + unit), upto |-> upto]

Blanks(p) == <<5, 12, 0, 9, 8, 8>>[p - 19]   \* after the unit
ValueText(p, n) ==
  IF p = 20 THEN Text(n, 4, n + 5 + Blanks(p)) ELSE Text(n, 3, n + 4 + Blanks(p))
NoValueText(p) ==
  CASE p = 20  -> Text(5, 4, 15)
    [] p = 25  -> Text(5, 3, 15)
    [] OTHER   -> Text(5, 3, Width)
OffText(p) == IF p = 20 THEN Text(5, 0, Width) ELSE Text(5, 3, Width)
InputText == [ink |-> 4..12, upto |-> 12]

Texts(p) ==
  IF p = 26 THEN {InputText}
  ELSE {ValueText(p, n) : n \in ValueLength} \cup {NoValueText(p), OffText(p)}
=============================================================================
