--------------------------- MODULE NetConfigProofs ---------------------------
(***************************************************************************)
(* Proofs about the W5500 as the unit uses it.                             *)
(*                                                                         *)
(* First NetConfig, what the chip is configured with, for any members of   *)
(* the configuration and any values: type correctness, and the correctness *)
(* of the setting menu when it is the only one to change the               *)
(* configuration.                                                          *)
(*                                                                         *)
(* Then W5500, a connection through it, for bytes of any base, buffers of  *)
(* any size that divides the range of the pointers, and segments and       *)
(* messages of any sizes that fit: type correctness, that no read ends     *)
(* inside a segment, and that both directions implement Channel.           *)
(*                                                                         *)
(* Last W5500Map, the address map: the tables are gone through row by row. *)
(***************************************************************************)
EXTENDS NetConfig, W5500, SequenceTheorems, TLAPS

-----------------------------------------------------------------------------
(* What the chip is configured with.                                       *)
LEMMA EthPartType == \A c \in Config : EthPart(c) \in [EthField -> Val]
  BY DEF EthPart, Config, Field

(* Every copy of the configuration is a whole configuration at all times.  *)
LEMMA InitTypeOK == Init => TypeOK
  BY EthPartType DEF Init, TypeOK

LEMMA NextTypeOK == TypeOK /\ [Next]_vars => TypeOK'
<1> SUFFICES ASSUME TypeOK, [Next]_vars
             PROVE  TypeOK'
  OBVIOUS
<1> USE DEF TypeOK, menu
<1>1. ASSUME NEW c \in Config, NEW confirmed \in Config, Boot(c, confirmed)
      PROVE  TypeOK'
  BY <1>1, EthPartType DEF Boot
<1>2. CASE PowerLoss
  BY <1>2 DEF PowerLoss
<1>3. ASSUME NEW p \in Field \cup {"other"}, OpenPage(p)
      PROVE  TypeOK'
  BY <1>3 DEF OpenPage
<1>4. ASSUME NEW v \in Val, Edit(v)
      PROVE  TypeOK'
  BY <1>4 DEF Edit, Config
<1>5. CASE Enter
  <2>1. want' \in Config
    BY <1>5 DEF Enter, Config
  <2>2. mEthUpdate' \in BOOLEAN
    BY <1>5 DEF Enter
  <2>3. QED
    BY <1>5, <2>1, <2>2 DEF Enter
<1>6. CASE Esc
  <2>1. mixed' \in BOOLEAN
    BY <1>6 DEF Esc
  <2>2. QED
    BY <1>6, <2>1 DEF Esc, AfterEsc
<1>7. CASE LeaveOther \/ AutoReturn
  BY <1>7 DEF LeaveOther, AutoReturn
<1>8. ASSUME NEW f \in Field, NEW v \in Val, Command(f, v)
      PROVE  TypeOK'
  <2>1. net' \in Config /\ want' \in Config
    BY <1>8 DEF Command, Config
  <2>2. QED
    BY <1>8, <2>1 DEF Command, Field
<1>9. CASE CommandDefault
  BY <1>9, DefaultAssumption DEF CommandDefault
<1>10. CASE CopyToConfig
  <2>1. mNetworkConfig' \in Config
    BY <1>10 DEF CopyToConfig, Config
  <2>2. QED
    BY <1>10, <2>1 DEF CopyToConfig
<1>11. CASE WriteConfig \/ LoadDefault \/ EthUpdateDone
  BY <1>11 DEF WriteConfig, LoadDefault, EthUpdateDone
<1>12. CASE EthUpdate
  BY <1>12, EthPartType DEF EthUpdate
<1>13. CASE UNCHANGED vars
  BY <1>13 DEF vars
<1>14. CASE PowerUp
  <2>1. eep \in Config /\ Default \in Config /\ (IF mixed THEN eep ELSE want) \in Config
    BY DefaultAssumption
  <2>2. QED
    BY <1>1, <1>14, <2>1 DEF PowerUp
<1>15. QED
  BY <1>2, <1>3, <1>4, <1>5, <1>6, <1>7, <1>8, <1>9, <1>10, <1>11,
     <1>12, <1>13, <1>14 DEF Next, Menu, Commands, Finish

(* Every copy of the configuration is a whole configuration at all times.  *)
THEOREM TypeCorrect == Spec => []TypeOK
  BY InitTypeOK, NextTypeOK, PTL DEF Spec

-----------------------------------------------------------------------------
(* The menu alone.  What ENTER saves is all of mNetworkConfig, so the      *)
(* member on the page must be the only one that may differ from what was   *)
(* confirmed, and what ESC restores must be what was confirmed last.  A    *)
(* unit without power has the EEPROM only.                                 *)
Stored == ~mixed => eep = want
Alone ==
  pc # "off" /\ ~mixed =>
    /\ eep = want
    /\ bkupNetworkConfig = want
    /\ \A f \in Field : f # page => mNetworkConfig[f] = want[f]
    /\ pc \in {"idle", "clear"}

LEMMA SameConfig ==
  ASSUME NEW c \in Config, NEW d \in Config, \A f \in Field : c[f] = d[f]
  PROVE  c = d
  BY DEF Config

LEMMA NextAlone == TypeOK /\ Alone /\ Stored /\ [Next]_vars => Alone'
<1> SUFFICES ASSUME TypeOK, Alone, Stored, [Next]_vars, pc' # "off", ~mixed'
             PROVE  /\ eep' = want'
                    /\ bkupNetworkConfig' = want'
                    /\ \A f \in Field :
                         f # page' => mNetworkConfig'[f] = want'[f]
                    /\ pc' \in {"idle", "clear"}
  BY DEF Alone
<1>1. CASE PowerUp
  <2>1. ASSUME Boot(eep, IF mixed THEN eep ELSE want)
        PROVE  /\ eep' = eep /\ mNetworkConfig' = eep /\ bkupNetworkConfig' = eep
               /\ want' = eep /\ pc' = "idle"
    BY <2>1 DEF Boot, Stored
  <2>2. ASSUME Boot(Default, Default)
        PROVE  /\ eep' = Default /\ mNetworkConfig' = Default
               /\ bkupNetworkConfig' = Default /\ want' = Default /\ pc' = "idle"
    BY <2>2 DEF Boot
  <2>3. QED
    BY <1>1, <2>1, <2>2 DEF PowerUp
<1>2. CASE PowerLoss
  BY <1>2 DEF PowerLoss
<1>3. ASSUME NEW p \in Field \cup {"other"}, OpenPage(p)
      PROVE  /\ eep' = want' /\ bkupNetworkConfig' = want'
             /\ \A f \in Field : f # page' => mNetworkConfig'[f] = want'[f]
             /\ pc' \in {"idle", "clear"}
  BY <1>3, FieldAssumption DEF OpenPage, Alone
<1>4. ASSUME NEW v \in Val, Edit(v)
      PROVE  /\ eep' = want' /\ bkupNetworkConfig' = want'
             /\ \A f \in Field : f # page' => mNetworkConfig'[f] = want'[f]
             /\ pc' \in {"idle", "clear"}
  BY <1>4 DEF Edit, Alone, menu, TypeOK, Config
<1>5. CASE Enter
  <2>1. /\ eep' = mNetworkConfig /\ bkupNetworkConfig' = mNetworkConfig
        /\ mNetworkConfig' = mNetworkConfig
        /\ pc' = pc /\ pc # "off" /\ mixed' = mixed
        /\ want' = IF page \in Field
                   THEN [want EXCEPT ![page] = mNetworkConfig[page]] ELSE want
    BY <1>5 DEF Enter
  <2>2. /\ \A f \in Field : f # page => mNetworkConfig[f] = want[f]
        /\ pc \in {"idle", "clear"}
    BY <2>1 DEF Alone
  <2>3. want' \in Config /\ mNetworkConfig \in Config
    BY <2>1 DEF TypeOK, Config
  <2>4. \A f \in Field : mNetworkConfig[f] = want'[f]
    BY <2>1, <2>2 DEF TypeOK, Config
  <2>5. mNetworkConfig = want'
    BY <2>3, <2>4, SameConfig
  <2>6. QED
    BY <2>1, <2>2, <2>5
<1>6. CASE Esc
  <2>1. mixed' = (mixed \/ mEthUpdate)
    BY <1>6 DEF Esc
  <2>2. ~mixed /\ ~mEthUpdate
    BY <2>1 DEF TypeOK
  <2>3. QED
    BY <1>6, <2>2 DEF Esc, AfterEsc, Alone
<1>7. CASE AutoReturn
  <2>1. ~mixed /\ page = "home"
    BY <1>7 DEF AutoReturn, TypeOK
  <2>2. \A f \in Field : mNetworkConfig[f] = want[f]
    BY <1>7, <2>1, FieldAssumption DEF AutoReturn, Alone
  <2>3. mNetworkConfig = want
    BY <2>2, SameConfig DEF TypeOK
  <2>4. QED
    BY <1>7, <2>1, <2>3 DEF AutoReturn, Alone
<1>8. CASE Commands
  BY <1>8 DEF Commands, Command, CommandDefault
<1>9. CASE Finish
  BY <1>9, FieldAssumption
     DEF Finish, CopyToConfig, WriteConfig, LoadDefault, EthUpdateDone, Alone,
         menu, Field
<1>10. CASE EthUpdate
  BY <1>10 DEF EthUpdate, Alone, menu
<1>11. CASE UNCHANGED vars
  BY <1>11 DEF vars, Alone
<1>12. CASE LeaveOther
  BY <1>12, FieldAssumption DEF LeaveOther, Alone
<1>13. QED
  BY <1>1, <1>2, <1>3, <1>4, <1>5, <1>6, <1>7, <1>8, <1>9, <1>10, <1>11,
     <1>12 DEF Next, Menu

(* A step from a unit with power is one of Alone; power loss leaves the    *)
(* EEPROM and the history as they are.                                     *)
LEMMA NextStored == TypeOK /\ Alone /\ Stored /\ [Next]_vars => Stored'
<1> SUFFICES ASSUME TypeOK, Alone, Stored, [Next]_vars
             PROVE  Stored'
  OBVIOUS
<1>1. CASE pc' # "off"
  BY <1>1, NextAlone DEF Alone, Stored
<1>2. CASE PowerLoss
  BY <1>2 DEF PowerLoss, Stored
<1>3. CASE UNCHANGED vars
  BY <1>3 DEF vars, Stored
<1>4. CASE pc' = "off" /\ Next /\ ~PowerLoss
  <2>1. "off" \notin ServerField
    BY FieldAssumption DEF Field
  <2>2. ~PowerUp
    BY <1>4 DEF PowerUp, Boot
  <2>3. ~Menu
    BY <1>4 DEF Menu, OpenPage, Edit, Enter, Esc, LeaveOther, AutoReturn, menu
  <2>4. ~Commands
    BY <1>4, <2>1, FieldAssumption DEF Commands, Command, CommandDefault, Field
  <2>5. ~Finish /\ ~EthUpdate
    BY <1>4 DEF Finish, CopyToConfig, WriteConfig, LoadDefault, EthUpdateDone, EthUpdate
  <2>6. QED
    BY <1>4, <2>2, <2>3, <2>4, <2>5 DEF Next
<1>5. QED
  BY <1>1, <1>2, <1>3, <1>4

(* With the menu as the only one to change the configuration, the EEPROM   *)
(* holds exactly what ENTER confirmed, over restarts too, and the home     *)
(* page no unsaved edit.                                                   *)
THEOREM MenuAloneHolds == Spec => []MenuAlone
<1>1. Init => Alone /\ Stored
  BY DEF Init, Alone, Stored
<1>2. TypeOK /\ Alone /\ Stored => MenuAlone
  <2> SUFFICES ASSUME TypeOK, Alone, Stored, ~mixed
               PROVE  /\ eep = want
                      /\ pc # "off" /\ page = "home" => mNetworkConfig = want
    BY DEF MenuAlone
  <2>1. eep = want
    BY DEF Stored
  <2>2. ASSUME pc # "off", page = "home"
        PROVE  mNetworkConfig = want
    <3>1. \A f \in Field : mNetworkConfig[f] = want[f]
      BY <2>2, FieldAssumption DEF Alone
    <3>2. QED
      BY <3>1, SameConfig DEF TypeOK
  <2>3. QED
    BY <2>1, <2>2
<1>3. QED
  BY <1>1, <1>2, InitTypeOK, NextTypeOK, NextAlone, NextStored, PTL DEF Spec

-----------------------------------------------------------------------------
(* A connection.  Arithmetic: pointers, and numbers of two bytes.          *)
LEMMA Constants ==
  /\ Base \in Nat \ {0} /\ Size \in Nat \ {0} /\ Word \in Nat \ {0}
  /\ Size < Word
  /\ Segment \subseteq 1..Size /\ Message \subseteq 1..Size
  /\ First \subseteq Places
<1>1. Base \in Nat \ {0} /\ Size \in Nat \ {0}
  BY BufferAssumption
<1>2. Word \in Nat /\ Size < Word
  BY <1>1, BufferAssumption DEF Word
<1>3. QED
  BY <1>1, <1>2, BufferAssumption DEF Places

LEMMA Reduced ==
  ASSUME NEW n \in Nat \ {0}, NEW a \in 0..(2 * n - 1)
  PROVE  a % n = IF a < n THEN a ELSE a - n
  OBVIOUS

LEMMA Rows ==
  ASSUME NEW k \in Int, NEW l \in Int, NEW n \in Nat, k < l
  PROVE  k * n + n <= l * n
<1>1. PICK d \in Nat : l = k + 1 + d
  <2>1. l - k - 1 \in Nat /\ l = k + 1 + (l - k - 1)
    OBVIOUS
  <2>2. QED
    BY <2>1
<1>2. l * n = k * n + n + d * n
  BY <1>1
<1>3. d * n \in Nat /\ k * n \in Int
  OBVIOUS
<1>4. QED
  BY <1>2, <1>3

(* Division with remainder, and that it is unique.                         *)
LEMMA Division ==
  ASSUME NEW n \in Nat \ {0}, NEW a \in Int
  PROVE  /\ a \div n \in Int /\ a % n \in 0..(n - 1)
         /\ a = (a \div n) * n + (a % n)
  OBVIOUS

LEMMA Remainder ==
  ASSUME NEW n \in Nat \ {0}, NEW q \in Int, NEW r \in 0..(n - 1)
  PROVE  (q * n + r) \div n = q /\ (q * n + r) % n = r
<1> DEFINE a == q * n + r
           d == a \div n
           m == a % n
<1>1. a \in Int /\ d \in Int /\ m \in 0..(n - 1) /\ q * n + r = d * n + m
  BY Division
<1>2. q * n \in Int /\ d * n \in Int
  BY <1>1
<1> HIDE DEF a, d, m
<1>3. ~(q < d)
  <2>1. ASSUME q < d
        PROVE  FALSE
    <3>1. q * n + n <= d * n
      BY <1>1, <2>1, Rows
    <3>2. QED
      BY <1>1, <1>2, <3>1
  <2>2. QED
    BY <2>1
<1>4. ~(d < q)
  <2>1. ASSUME d < q
        PROVE  FALSE
    <3>1. d * n + n <= q * n
      BY <1>1, <2>1, Rows
    <3>2. QED
      BY <1>1, <1>2, <3>1
  <2>2. QED
    BY <2>1
<1>5. q = d
  BY <1>1, <1>3, <1>4
<1>6. r = m
  <2>1. q * n = d * n
    BY <1>5
  <2>2. QED
    BY <1>1, <1>2, <2>1
<1>7. QED
  BY <1>5, <1>6 DEF a, d, m

(* Going on from a pointer and the way between two.                        *)
LEMMA Going ==
  \A p, q \in Places : \A n \in 0..Size :
    /\ Ahead(p, n) \in Places /\ Distance(p, q) \in Places
    /\ Ahead(p, n) = IF p + n < Word THEN p + n ELSE p + n - Word
    /\ Distance(p, q) = IF q >= p THEN q - p ELSE q - p + Word
<1> SUFFICES ASSUME NEW p \in Places, NEW q \in Places, NEW n \in 0..Size
             PROVE  /\ Ahead(p, n) \in Places /\ Distance(p, q) \in Places
                    /\ Ahead(p, n) = IF p + n < Word THEN p + n ELSE p + n - Word
                    /\ Distance(p, q) = IF q >= p THEN q - p ELSE q - p + Word
  OBVIOUS
<1>1. Word \in Nat \ {0} /\ Size < Word /\ Size \in Nat \ {0}
  BY Constants
<1>2. p \in 0..(Word - 1) /\ q \in 0..(Word - 1)
  BY DEF Places
<1>3. p + n \in 0..(2 * Word - 1) /\ q + Word - p \in 0..(2 * Word - 1)
  BY <1>1, <1>2
<1>4. PICK a \in 0..(2 * Word - 1) : a = p + n
  BY <1>3
<1>5. PICK b \in 0..(2 * Word - 1) : b = q + Word - p
  BY <1>3
<1>6. PICK w \in Nat \ {0} : w = Word
  BY <1>1
<1>7. a % w = (IF a < w THEN a ELSE a - w) /\ b % w = IF b < w THEN b ELSE b - w
  BY <1>4, <1>5, <1>6, Reduced
<1>8. Ahead(p, n) = a % w /\ Distance(p, q) = b % w
  BY <1>4, <1>5, <1>6 DEF Ahead, Distance
<1>9. QED
  BY <1>1, <1>2, <1>4, <1>5, <1>6, <1>7, <1>8 DEF Places

LEMMA Ways ==
  ASSUME NEW p \in Places, NEW q \in Places, NEW n \in 0..Size
  PROVE  /\ Distance(p, p) = 0
         /\ Distance(p, q) = 0 => q = p
         /\ Distance(p, Ahead(p, n)) = n
         /\ Distance(p, q) + n < Word =>
              Distance(p, Ahead(q, n)) = Distance(p, q) + n
         /\ n <= Distance(p, q) =>
              Distance(Ahead(p, n), q) = Distance(p, q) - n
         /\ n = Distance(p, q) => Ahead(p, n) = q
<1>1. Word \in Nat \ {0} /\ Size < Word /\ Size \in Nat \ {0}
  BY Constants
<1>2. p \in 0..(Word - 1) /\ q \in 0..(Word - 1)
  BY DEF Places
<1> DEFINE A(x) == IF x + n < Word THEN x + n ELSE x + n - Word
           D(x, y) == IF y >= x THEN y - x ELSE y - x + Word
<1>3. Ahead(p, n) = A(p) /\ Ahead(q, n) = A(q)
  BY Going
<1>4. A(p) \in Places /\ A(q) \in Places
  BY <1>1, <1>2 DEF Places
<1>5. /\ Distance(p, p) = D(p, p) /\ Distance(p, q) = D(p, q)
      /\ Distance(p, A(p)) = D(p, A(p)) /\ Distance(p, A(q)) = D(p, A(q))
      /\ Distance(A(p), q) = D(A(p), q)
  BY <1>1, <1>4, Going
<1>6. QED
  BY <1>1, <1>2, <1>3, <1>5

(* A number below Word has two digits of one byte each.                    *)
LEMMA TwoDigits ==
  ASSUME NEW b \in Nat \ {0}, NEW x \in Nat, x < b * b
  PROVE  x \div b \in 0..(b - 1) /\ x % b \in 0..(b - 1)
<1> DEFINE h == x \div b
           l == x % b
<1>1. h \in Int /\ l \in 0..(b - 1) /\ x = h * b + l
  BY Division
<1> HIDE DEF h, l
<1>2. h * b \in Int /\ b * b \in Int
  BY <1>1
<1>3. ~(h < 0)
  <2>1. ASSUME h < 0
        PROVE  FALSE
    <3>1. h * b + b <= 0 * b
      BY <1>1, <2>1, Rows
    <3>2. QED
      BY <1>1, <1>2, <3>1
  <2>2. QED
    BY <2>1
<1>4. ~(b < h)
  <2>1. ASSUME b < h
        PROVE  FALSE
    <3>1. b * b + b <= h * b
      BY <1>1, <2>1, Rows
    <3>2. QED
      BY <1>1, <1>2, <3>1
  <2>2. QED
    BY <2>1
<1>5. h # b
  BY <1>1, <1>2
<1>6. QED
  BY <1>1, <1>3, <1>4, <1>5 DEF h, l

LEMMA Digits ==
  ASSUME NEW b \in Nat \ {0}, NEW h \in 0..(b - 1), NEW l \in 0..(b - 1)
  PROVE  h * b + l \in 0..(b * b - 1) /\ (h * b + l) \div b = h
<1>1. (h * b + l) \div b = h
  BY Remainder
<1>2. h * b + b <= b * b
  BY Rows
<1>3. h * b \in Nat /\ b * b \in Nat
  OBVIOUS
<1>4. QED
  BY <1>1, <1>2, <1>3

LEMMA Ascending ==
  ASSUME NEW b \in Nat \ {0}, NEW x \in Nat, NEW y \in Nat, x <= y
  PROVE  x \div b <= y \div b
<1> DEFINE h == x \div b
           g == y \div b
           l == x % b
           m == y % b
<1>1. /\ h \in Int /\ g \in Int /\ l \in 0..(b - 1) /\ m \in 0..(b - 1)
      /\ x = h * b + l /\ y = g * b + m
  BY Division
<1> HIDE DEF h, g, l, m
<1>2. h * b \in Int /\ g * b \in Int
  BY <1>1
<1>3. ~(g < h)
  <2>1. ASSUME g < h
        PROVE  FALSE
    <3>1. g * b + b <= h * b
      BY <1>1, <2>1, Rows
    <3>2. QED
      BY <1>1, <1>2, <3>1
  <2>2. QED
    BY <2>1
<1>4. h <= g
  BY <1>1, <1>3
<1>5. QED
  BY <1>4 DEF h, g

(* A pointer wraps where its place in a buffer does.                       *)
LEMMA Residue ==
  ASSUME NEW s \in Nat \ {0}, NEW p \in Nat, NEW n \in 0..s, NEW k \in Int,
         NEW a \in Int, a = p + n + k * s
  PROVE  a % s = IF (p % s) + n < s THEN (p % s) + n ELSE (p % s) + n - s
<1> DEFINE q == p \div s
           r == p % s
<1>1. q \in Int /\ r \in 0..(s - 1) /\ p = q * s + r
  BY Division
<1> HIDE DEF q, r
<1>2. CASE r + n < s
  <2>1. a = (q + k) * s + (r + n)
    BY <1>1
  <2>2. q + k \in Int /\ r + n \in 0..(s - 1)
    BY <1>1, <1>2
  <2>3. ((q + k) * s + (r + n)) % s = r + n
    BY <2>2, Remainder
  <2>4. a % s = r + n
    BY <2>1, <2>3
  <2>5. QED
    BY <1>1, <1>2, <2>4 DEF r
<1>3. CASE ~(r + n < s)
  <2>1. a = (q + k + 1) * s + (r + n - s)
    BY <1>1
  <2>2. q + k + 1 \in Int /\ r + n - s \in 0..(s - 1)
    BY <1>1, <1>3
  <2>3. ((q + k + 1) * s + (r + n - s)) % s = r + n - s
    BY <2>2, Remainder
  <2>4. a % s = r + n - s
    BY <2>1, <2>3
  <2>5. QED
    BY <1>1, <1>3, <2>4 DEF r
<1>4. QED
  BY <1>2, <1>3

LEMMA Wrapping ==
  ASSUME NEW p \in Places, NEW n \in 0..Size
  PROVE  /\ p % Size \in 0..(Size - 1)
         /\ (p + n) % Size = IF (p % Size) + n < Size THEN (p % Size) + n
                             ELSE (p % Size) + n - Size
         /\ Ahead(p, n) % Size = (p + n) % Size
<1>1. Word \in Nat \ {0} /\ Size < Word /\ Size \in Nat \ {0} /\ Word % Size = 0
  BY Constants, BufferAssumption
<1>2. p \in Nat
  BY DEF Places
<1>3. PICK k \in Int : Word = k * Size
  <2>1. Word = (Word \div Size) * Size + (Word % Size) /\ Word \div Size \in Int
    BY <1>1, Division
  <2>2. (Word \div Size) * Size \in Int
    BY <1>1, <2>1
  <2>3. QED
    BY <1>1, <2>1, <2>2
<1> DEFINE r == p % Size
           t == IF r + n < Size THEN r + n ELSE r + n - Size
<1>4. PICK s \in Nat \ {0} : s = Size
  BY <1>1
<1>5. r \in 0..(Size - 1)
  <2>1. p % s \in 0..(s - 1)
    BY <1>2, <1>4, Division
  <2>2. QED
    BY <1>4, <2>1
<1>6. (p + n) % Size = t
  <2>1. PICK a \in Int : a = p + n
    BY <1>1, <1>2
  <2>2. PICK j \in Int : j = 0
    OBVIOUS
  <2>3. a = p + n + j * s
    BY <1>1, <1>2, <1>4, <2>1, <2>2
  <2>4. n \in 0..s
    BY <1>4
  <2>5. a % s = IF (p % s) + n < s THEN (p % s) + n ELSE (p % s) + n - s
    BY <1>2, <2>3, <2>4, Residue
  <2>6. QED
    BY <1>4, <2>1, <2>5
<1>7. (p + n - Word) % Size = t
  <2>1. PICK a \in Int : a = p + n - Word
    BY <1>1, <1>2
  <2>2. PICK j \in Int : j = -k
    OBVIOUS
  <2>3. a = p + n + j * s
    BY <1>1, <1>2, <1>3, <1>4, <2>1, <2>2
  <2>4. n \in 0..s
    BY <1>4
  <2>5. a % s = IF (p % s) + n < s THEN (p % s) + n ELSE (p % s) + n - s
    BY <1>2, <2>3, <2>4, Residue
  <2>6. QED
    BY <1>4, <2>1, <2>5
<1> HIDE DEF r, t
<1>8. Ahead(p, n) = p + n \/ Ahead(p, n) = p + n - Word
  BY Going
<1>9. Ahead(p, n) % Size = t
  BY <1>6, <1>7, <1>8
<1>10. QED
  BY <1>5, <1>6, <1>9 DEF r, t

(* Where the byte lies that comes i after one that comes n after p.        *)
LEMMA Along ==
  ASSUME NEW p \in Places, NEW n \in 0..Size, NEW i \in 0..Size, n + i <= Size
  PROVE  /\ Ahead(Ahead(p, n), i) = Ahead(p, n + i)
         /\ (Ahead(p, n) + i) % Size = (p + (n + i)) % Size
<1>1. Word \in Nat \ {0} /\ Size < Word /\ Size \in Nat \ {0}
  BY Constants
<1>2. Ahead(p, n) \in Places /\ p \in 0..(Word - 1) /\ n + i \in 0..Size
  BY <1>1, Going DEF Places
<1>3. Ahead(Ahead(p, n), i) = Ahead(p, n + i)
  BY <1>1, <1>2, Going
<1>4. /\ (Ahead(p, n) + i) % Size = Ahead(Ahead(p, n), i) % Size
      /\ (p + (n + i)) % Size = Ahead(p, n + i) % Size
  BY <1>2, Wrapping
<1>5. QED
  BY <1>3, <1>4

(* The chip writes from n after p on: whether the byte at i after p is     *)
(* written, and with which byte.                                           *)
LEMMA Slot ==
  ASSUME NEW p \in Places, NEW n \in 0..Size, NEW i \in 0..(Size - 1)
  PROVE  /\ (p + i) % Size \in 0..(Size - 1)
         /\ (((p + i) % Size) + Size - (Ahead(p, n) % Size)) % Size
              = IF i >= n THEN i - n ELSE i + Size - n
<1>1. Size \in Nat \ {0}
  BY Constants
<1> DEFINE r == p % Size
           x == (p + i) % Size
           y == Ahead(p, n) % Size
<1>2. /\ r \in 0..(Size - 1)
      /\ x = IF r + i < Size THEN r + i ELSE r + i - Size
      /\ y = IF r + n < Size THEN r + n ELSE r + n - Size
  BY <1>1, Wrapping
<1> HIDE DEF r, x, y
<1>3. x \in 0..(Size - 1) /\ y \in 0..(Size - 1)
  BY <1>1, <1>2
<1>4. PICK a \in 0..(2 * Size - 1) : a = x + Size - y
  BY <1>1, <1>3
<1>5. a % Size = IF a < Size THEN a ELSE a - Size
  BY <1>1, Reduced
<1>6. a % Size = IF i >= n THEN i - n ELSE i + Size - n
  BY <1>1, <1>2, <1>4, <1>5
<1>7. QED
  BY <1>3, <1>4, <1>6 DEF x, y

-----------------------------------------------------------------------------
(* The inductive invariant.                                                *)
Outstanding == Distance(tx.acked, tx.sent)

(* The pointers, and what each call has still to do with them.             *)
Pointers ==
  /\ Received <= Size /\ Outstanding <= Size /\ app = tx.sent
  /\ rx.rd = IF func = "RECV" THEN Ahead(rx.freed, len) ELSE rx.freed
  /\ tx.wr = IF func = "SEND" THEN Ahead(tx.sent, len) ELSE tx.sent
  /\ func \in {"send", "space", "fill", "SEND"} => len \in Message
  /\ func \in {"fill", "SEND"} => Outstanding + len <= Size

(* What is n bytes after the last byte read is the end of a segment.       *)
Boundary(n) == n = 0 \/ Ahead(rx.freed, n) \in ends

Took == {"recv", "drain", "status", "copy", "RECV"}
Whole ==
  /\ sr # "CLOSED" \/ func # "idle" => Boundary(Received)
  /\ func \in Took => len \in 1..Received /\ Boundary(len)

(* A size that has been read is one the register has had; while a call     *)
(* lasts the register only grows, so a first digit that is read again      *)
(* tells that the second was read with it.                                 *)
Had(n) == n <= Register(func) /\ (func \in {"look", "recv"} => Boundary(n))
High == Register(func) \div Base
Sizes ==
  func \in Sizing =>
    /\ part = 1 => val1 \in 0..Base-1 /\ val1 <= High
    /\ part = 2 => val1 \div Base <= High /\ (val1 \div Base = High => Had(val1))
    /\ part = 3 => /\ val \in 0..Base-1 /\ val <= High
                   /\ val = val1 \div Base => Had(val1)
    /\ part = 4 => (val = val1 => Had(val))
Sized ==
  /\ func = "status" => val \in 0..Received /\ Boundary(val)
  /\ func = "space" => val <= Free

Flow == StreamTypeOK /\ Pointers /\ Whole /\ Sizes /\ Sized

LEMMA Registers ==
  ASSUME Flow
  PROVE  /\ Received \in 0..Size /\ Outstanding \in 0..Size /\ Free \in 0..Size
         /\ \A call : Register(call) \in 0..Size /\ Register(call) \in Places
         /\ rx.freed \in Places /\ rx.wr \in Places /\ rx.rd \in Places
         /\ tx.acked \in Places /\ tx.sent \in Places /\ tx.wr \in Places
<1>1. /\ rx.freed \in Places /\ rx.wr \in Places /\ rx.rd \in Places
      /\ tx.acked \in Places /\ tx.sent \in Places /\ tx.wr \in Places
  BY DEF Flow, StreamTypeOK
<1>2. Received \in Places /\ Outstanding \in Places
  BY <1>1, Going, Constants DEF Received, Outstanding
<1>3. Received \in 0..Size /\ Outstanding \in 0..Size
  BY <1>2, Constants DEF Flow, Pointers, Places
<1>4. Free \in 0..Size
  BY <1>3, Constants DEF Free, Outstanding
<1>5. 0..Size \subseteq Places
  BY Constants DEF Places
<1>6. QED
  BY <1>1, <1>3, <1>4, <1>5 DEF Register

LEMMA FlowInit == StreamInit => Flow
<1> SUFFICES ASSUME StreamInit
             PROVE  Flow
  OBVIOUS
<1>1. 0 \in Places /\ 0 \in 0..Size /\ Size \in Nat
  BY Constants DEF Places
<1>2. StreamTypeOK
  <2>1. Len(<<>>) = 0
    OBVIOUS
  <2> DEFINE empty == [a \in 0..Size-1 |-> 0]
  <2>2. empty \in [0..Size-1 -> Places]
    BY <1>1
  <2> HIDE DEF empty
  <2>3. /\ rx = [mem |-> empty, wr |-> 0, rd |-> 0, freed |-> 0]
        /\ tx = [mem |-> empty, wr |-> 0, sent |-> 0, acked |-> 0]
    BY DEF StreamInit, empty
  <2>4. /\ rx \in [mem : [0..Size-1 -> Places], wr : Places, rd : Places, freed : Places]
        /\ tx \in [mem : [0..Size-1 -> Places], wr : Places, sent : Places, acked : Places]
    BY <1>1, <2>2, <2>3
  <2>5. /\ sr = "CLOSED" /\ ends = {} /\ sendOk = FALSE /\ sending = FALSE /\ app = 0
        /\ func = "idle" /\ part = 0 /\ val1 = 0 /\ val = 0 /\ len = 0
    BY DEF StreamInit
  <2>6. Len(buf) <= Size
    BY <1>1, <2>1 DEF StreamInit
  <2>7. sendOk \in BOOLEAN /\ sending \in BOOLEAN
    BY DEF StreamInit
  <2>8. /\ sr = "CLOSED" /\ ends = {} /\ app = 0 /\ func = "idle" /\ part = 0
        /\ val1 = 0 /\ val = 0 /\ len = 0
    BY <2>5
  <2>9. QED
    BY <1>1, <2>4, <2>6, <2>7, <2>8 DEF StreamTypeOK
<1>3. Received = 0 /\ Outstanding = 0
  <2>1. rx.freed = 0 /\ rx.wr = 0 /\ tx.acked = 0 /\ tx.sent = 0
    BY DEF StreamInit
  <2>2. Distance(0, 0) = 0
    BY <1>1, Ways
  <2>3. QED
    BY <2>1, <2>2 DEF Received, Outstanding
<1>4. QED
  BY <1>1, <1>2, <1>3 DEF StreamInit, Flow, Pointers, Whole, Sizes, Sized, Sizing,
     Took, Boundary

(* A byte of a size register.                                              *)
LEMMA SizeByteFlow ==
  ASSUME Flow, SizeByte
  PROVE  Flow'
<1> DEFINE R == Register(func)
           h == R \div Base
           l == R % Base
           k == val1 \div Base
<1>1. PICK b \in Nat \ {0} : b = Base
  BY Constants
<1>2. R \in 0..Size /\ R \in Places
  BY Registers
<1>3. Places = 0..(b * b - 1)
  BY <1>1 DEF Places, Word
<1>4. /\ h \in 0..(b - 1) /\ l \in 0..(b - 1) /\ R = h * b + l
  <2>1. PICK x \in Nat : x = R /\ x < b * b
    <3>1. b * b \in Nat
      OBVIOUS
    <3>2. QED
      BY <1>2, <1>3, <3>1
  <2>2. x \div b \in 0..(b - 1) /\ x % b \in 0..(b - 1)
    BY <2>1, TwoDigits
  <2>3. x = (x \div b) * b + (x % b)
    BY Division
  <2>4. QED
    BY <1>1, <2>1, <2>2, <2>3
<1>5. /\ \A x \in 0..(b - 1) : /\ x * b + l \in Places
                               /\ (x * b + l) \div b = x
  BY <1>3, <1>4, Digits
<1>6. /\ func \in Sizing /\ func' = func /\ Boundary(Received)
      /\ UNCHANGED <<chipVars, sending, app, len, buf>>
  BY DEF SizeByte, Sizing, Flow, Whole
<1>7. Register(func)' = R /\ High = h /\ High' = h /\ R = Register(func)
      /\ (func \in {"look", "recv"} => R = Received)
  BY <1>6 DEF Register, Received, Free, High, chipVars
<1>8. \A n : Had(n)' <=> Had(n)
  BY <1>6, <1>7 DEF Had, Boundary, chipVars
<1>9. Had(R) /\ Had(0)
  BY <1>2, <1>6, <1>7 DEF Had, Boundary
<1> HIDE DEF R, h, l, k
<1>10. Pointers' /\ Whole' /\ Sized'
  BY <1>6 DEF Flow, Pointers, Whole, Sized, Sizing, Boundary, Received, Outstanding, Free,
     chipVars
<1>11. ASSUME part' \in 0..4, val1' \in Places, val' \in Places
       PROVE  StreamTypeOK'
  BY <1>6, <1>11 DEF Flow, StreamTypeOK, chipVars
<1>12. /\ val1 \in Places /\ val \in Places /\ 0..(b - 1) \subseteq Places /\ 0 \in Places
       /\ part \in 0..3
  <2>1. b * b >= b
    BY Rows
  <2>2. b * b \in Nat
    OBVIOUS
  <2>3. QED
    BY <1>3, <2>1, <2>2 DEF Flow, StreamTypeOK, SizeByte
<1>13. CASE part = 0
  <2>1. val1' = h /\ part' = 1 /\ val' = val
    BY <1>1, <1>4, <1>6, <1>13 DEF SizeByte, ByteRead, R, h
  <2>2. Sizes'
    BY <1>1, <1>4, <1>6, <1>7, <2>1 DEF Sizes
  <2>3. QED
    BY <1>4, <1>10, <1>11, <1>12, <2>1, <2>2 DEF Flow
<1>14. CASE part = 1
  <2>1. val1' = val1 * b + l /\ part' = (IF val1' = 0 THEN 4 ELSE 2) /\ val' = val
    BY <1>1, <1>4, <1>6, <1>14 DEF SizeByte, ByteRead, R, l
  <2>2. val1 \in 0..(b - 1) /\ val1 <= h
    BY <1>1, <1>6, <1>7, <1>14 DEF Flow, Sizes
  <2>3. val1' \in Places /\ val1' \div b = val1
    BY <1>5, <2>1, <2>2
  <2>4. val1 = h => val1' = R
    BY <1>4, <2>1
  <2>5. Sizes'
    BY <1>1, <1>6, <1>7, <1>8, <1>9, <2>1, <2>2, <2>3, <2>4 DEF Sizes
  <2>6. QED
    BY <1>10, <1>11, <1>12, <2>1, <2>3, <2>5 DEF Flow
<1>15. CASE part = 2
  <2>1. val1' = val1 /\ part' = 3 /\ val' = h
    BY <1>1, <1>4, <1>6, <1>15 DEF SizeByte, ByteRead, R, h
  <2>2. k <= h /\ (k = h => Had(val1))
    BY <1>6, <1>7, <1>15 DEF Flow, Sizes, k
  <2>3. Sizes'
    BY <1>1, <1>4, <1>6, <1>7, <1>8, <2>1, <2>2 DEF Sizes, k
  <2>4. QED
    BY <1>4, <1>10, <1>11, <1>12, <2>1, <2>3 DEF Flow
<1>16. CASE part = 3
  <2>1. val1' = val1 /\ part' = 4 /\ val' = val * b + l
    BY <1>1, <1>4, <1>6, <1>16 DEF SizeByte, ByteRead, R, l
  <2>2. val \in 0..(b - 1) /\ val <= h /\ (val = k => Had(val1))
    BY <1>1, <1>6, <1>7, <1>16 DEF Flow, Sizes, k
  <2>3. val' \in Places /\ val' \div b = val
    BY <1>5, <2>1, <2>2
  <2>4. val' = val1 => val = k
    BY <1>1, <2>3 DEF k
  <2>5. Sizes'
    BY <1>6, <1>8, <2>1, <2>2, <2>4 DEF Sizes
  <2>6. QED
    BY <1>10, <1>11, <1>12, <2>1, <2>3, <2>5 DEF Flow
<1>17. QED
  BY <1>12, <1>13, <1>14, <1>15, <1>16

(* What the chip and the host copy.                                        *)
LEMMA Copies ==
  ASSUME NEW mem \in [0..Size-1 -> Places], NEW p \in Places, NEW n \in 0..Size,
         NEW first \in Places
  PROVE  /\ Store(mem, p, n, first) \in [0..Size-1 -> Places]
         /\ Len(Load(mem, p, n)) = n
<1>1. Size \in Nat \ {0} /\ p % Size \in 0..(Size - 1)
  BY Constants, Wrapping
<1> DEFINE I(a) == (a + Size - (p % Size)) % Size
<1>2. ASSUME NEW a \in 0..Size-1
      PROVE  I(a) \in 0..Size
  <2>1. PICK x \in Int : x = a + Size - (p % Size)
    BY <1>1
  <2>2. x % Size \in 0..(Size - 1)
    BY <1>1, Division
  <2>3. QED
    BY <1>1, <2>1, <2>2
<1>3. Store(mem, p, n, first) \in [0..Size-1 -> Places]
  <2>1. Store(mem, p, n, first)
          = [a \in 0..Size-1 |-> IF I(a) < n THEN Ahead(first, I(a)) ELSE mem[a]]
    BY DEF Store
  <2> HIDE DEF I
  <2>2. ASSUME NEW a \in 0..Size-1
        PROVE  (IF I(a) < n THEN Ahead(first, I(a)) ELSE mem[a]) \in Places
    BY <1>2, <2>2, Going
  <2>3. QED
    BY <2>1, <2>2
<1>4. Len(Load(mem, p, n)) = n
  BY DEF Load
<1>5. QED
  BY <1>3, <1>4

(* Calls that are over leave nothing behind.                               *)
LEMMA LeaveFlow ==
  ASSUME Flow, Leave, UNCHANGED <<rx, tx, app>>, func # "RECV", func # "SEND",
         sr' \in {"ESTABLISHED", "CLOSE_WAIT", "CLOSED"}, sendOk' \in BOOLEAN,
         sending' \in BOOLEAN, \/ sr' = "CLOSED" /\ ends' = {}
                               \/ UNCHANGED <<sr, ends>>
  PROVE  Flow'
<1>1. 0 \in Places /\ 0 \in 0..Size /\ Size \in Nat
  BY Constants DEF Places
<1>2. Len(<<>>) = 0
  OBVIOUS
<1>3. StreamTypeOK'
  BY <1>1, <1>2 DEF Flow, StreamTypeOK, Leave, Begin
<1>4. Pointers'
  BY DEF Flow, Pointers, Leave, Begin, Received, Outstanding
<1>5. Whole'
  BY DEF Flow, Whole, Took, Leave, Begin, Boundary, Received
<1>6. Sizes' /\ Sized'
  BY DEF Sizes, Sized, Sizing, Leave, Begin
<1>7. QED
  BY <1>3, <1>4, <1>5, <1>6 DEF Flow

(* The steps of a call up to the copy.                                     *)
LEMMA CallFlow ==
  ASSUME Flow, SizeAgain \/ Looked \/ RecvSized \/ RecvStatus \/ Drained
  PROVE  Flow'
<1>1. /\ 0 \in Places /\ 0 \in 0..Size /\ Size \in Nat
      /\ Received \in 0..Size /\ Free \in 0..Size
  BY Constants, Registers DEF Places
<1>2. CASE SizeAgain
  BY <1>1, <1>2 DEF SizeAgain, Restart, Flow, StreamTypeOK, Pointers, Whole, Sizes, Sized,
     Took, Boundary, Received, Outstanding, Free, chipVars, Sizing
<1>3. CASE Looked
  <2>1. CASE val = 0
    BY <1>3, <2>1, LeaveFlow DEF Looked, SizeRead, chipVars, Flow, StreamTypeOK
  <2>2. CASE val # 0
    <3>1. val \in 1..Received /\ Boundary(val)
      BY <1>1, <1>3, <2>2 DEF Looked, SizeRead, Agree, Flow, Sizes, Sizing, Had, Register,
         StreamTypeOK, Places
    <3>2. QED
      BY <1>1, <1>3, <2>2, <3>1 DEF Looked, SizeRead, Begin, Flow, StreamTypeOK, Pointers,
         Whole, Sizes, Sized, Took, Boundary, Received, Outstanding, chipVars, Sizing
  <2>3. QED
    BY <2>1, <2>2
<1>4. CASE RecvSized
  <2>1. val \in 0..Received /\ Boundary(val)
    BY <1>1, <1>4 DEF RecvSized, SizeRead, Agree, Flow, Sizes, Sizing, Had, Register,
       StreamTypeOK, Places
  <2>2. QED
    BY <1>1, <1>4, <2>1 DEF RecvSized, SizeRead, Flow, StreamTypeOK, Pointers,
       Whole, Sizes, Sized, Took, Boundary, Received, Outstanding, chipVars, Sizing
<1>5. CASE RecvStatus
  <2>1. CASE sr = "CLOSED"
    BY <1>5, <2>1, LeaveFlow DEF RecvStatus, CloseSocket
  <2>2. CASE sr # "CLOSED" /\ val # 0
    BY <1>1, <1>5, <2>2 DEF RecvStatus, Flow, StreamTypeOK, Pointers,
       Whole, Sizes, Sized, Took, Boundary, Received, Outstanding, chipVars, Sizing
  <2>3. CASE sr # "CLOSED" /\ val = 0
    BY <1>1, <1>5, <2>3 DEF RecvStatus, Begin, Flow, StreamTypeOK, Pointers,
       Whole, Sizes, Sized, Took, Boundary, Received, Outstanding, chipVars, Sizing
  <2>4. QED
    BY <2>1, <2>2, <2>3
<1>6. CASE Drained
  <2>1. CASE val = Size
    BY <1>6, <2>1, LeaveFlow DEF Drained, SizeRead, CloseSocket
  <2>2. CASE val # Size
    BY <1>1, <1>6, <2>2 DEF Drained, SizeRead, Begin, Flow, StreamTypeOK, Pointers,
       Whole, Sizes, Sized, Took, Boundary, Received, Outstanding, chipVars, Sizing
  <2>3. QED
    BY <2>1, <2>2
<1>7. QED
  BY <1>2, <1>3, <1>4, <1>5, <1>6

(* The copy to the program, and the command that frees what was copied.    *)
LEMMA RecvDataFlow ==
  ASSUME Flow, RecvData
  PROVE  Flow'
<1>1. /\ Received \in 0..Size /\ len \in 0..Size /\ rx.freed \in Places
      /\ rx.rd \in Places /\ Size \in Nat
  BY Registers, Constants DEF Flow, StreamTypeOK
<1>2. rx.rd = rx.freed
  BY DEF RecvData, Flow, Pointers
<1>3. Ahead(rx.freed, len) \in Places
  BY <1>1, Going
<1>4. /\ rx'.mem = rx.mem /\ rx'.wr = rx.wr /\ rx'.freed = rx.freed
      /\ rx'.rd = Ahead(rx.freed, len)
      /\ rx' \in [mem : [0..Size-1 -> Places], wr : Places, rd : Places, freed : Places]
  BY <1>2, <1>3 DEF RecvData, Flow, StreamTypeOK
<1>5. Received' = Received
  BY <1>4 DEF Received
<1>6. StreamTypeOK'
  <2>1. Len(buf') = len
    <3>1. rx.mem \in [0..Size-1 -> Places]
      BY DEF Flow, StreamTypeOK
    <3>2. QED
      BY <1>1, <3>1, Copies DEF RecvData
  <2>2. QED
    BY <1>1, <1>4, <2>1 DEF RecvData, Flow, StreamTypeOK
<1>7. Pointers'
  BY <1>4, <1>5 DEF RecvData, Flow, Pointers, Outstanding
<1>8. Whole'
  BY <1>4, <1>5 DEF RecvData, Flow, Whole, Boundary, Took
<1>9. Sizes' /\ Sized'
  BY DEF RecvData, Sizes, Sized, Sizing
<1>10. QED
  BY <1>6, <1>7, <1>8, <1>9 DEF Flow

LEMMA RecvCommandFlow ==
  ASSUME Flow, RecvCommand
  PROVE  Flow'
<1>1. /\ Received \in 0..Size /\ len \in 1..Received /\ rx.freed \in Places
      /\ rx.wr \in Places /\ Size \in Nat /\ 0 \in Places /\ 0 \in 0..Size
      /\ Size < Word /\ Word \in Nat
  BY Registers, Constants DEF Flow, Whole, Took, RecvCommand, Places
<1>2. len \in 0..Size
  BY <1>1
<1>3. rx.rd = Ahead(rx.freed, len) /\ rx.rd \in Places
  BY <1>1, <1>2, Going DEF RecvCommand, Flow, Pointers
<1>4. /\ rx'.mem = rx.mem /\ rx'.wr = rx.wr /\ rx'.freed = rx.rd /\ rx'.rd = rx.rd
      /\ rx' \in [mem : [0..Size-1 -> Places], wr : Places, rd : Places, freed : Places]
  BY <1>3 DEF RecvCommand, Freed, Flow, StreamTypeOK
<1>5. Received' = Received - len
  <2>1. len <= Distance(rx.freed, rx.wr)
    BY <1>1 DEF Received
  <2>2. Distance(rx.rd, rx.wr) = Distance(rx.freed, rx.wr) - len
    BY <1>1, <1>2, <1>3, <2>1, Ways
  <2>3. QED
    BY <1>4, <2>2 DEF Received
<1>6. StreamTypeOK'
  <2>1. Len(buf') <= Size
    BY <1>1 DEF RecvCommand, Leave
  <2>2. ends' \subseteq Places
    BY DEF RecvCommand, Flow, StreamTypeOK
  <2>3. /\ func' = "idle" /\ part' = 0 /\ val1' = 0 /\ val' = 0 /\ len' = 0
        /\ UNCHANGED <<sr, tx, sendOk, sending, app>>
    BY DEF RecvCommand, Leave, Begin
  <2>4. QED
    BY <1>1, <1>4, <2>1, <2>2, <2>3 DEF Flow, StreamTypeOK
<1>7. Pointers'
  BY <1>1, <1>4, <1>5 DEF RecvCommand, Leave, Begin, Flow, Pointers, Outstanding
<1>8. Whole'
  <2>1. func' = "idle"
    BY DEF RecvCommand, Leave, Begin
  <2>2. CASE Received' = 0
    BY <2>1, <2>2 DEF Whole, Took, Boundary
  <2>3. CASE Received' # 0
    <3>1. Ahead(rx.freed, Received) = rx.wr /\ Ahead(rx.rd, Received') = rx.wr
      BY <1>1, <1>3, <1>4, <1>5, Ways DEF Received
    <3>2. Boundary(Received) /\ Received # 0
      BY <1>1, <1>5, <2>3 DEF Flow, Whole, RecvCommand
    <3>3. rx.wr \in ends
      BY <3>1, <3>2 DEF Boundary
    <3>4. Distance(rx.freed, rx.rd) = len
      BY <1>1, <1>2, <1>3, Ways
    <3>5. Distance(rx.freed, rx.wr) > Distance(rx.freed, rx'.freed)
      BY <1>1, <1>4, <1>5, <2>3, <3>4 DEF Received
    <3>6. rx.wr \in ends'
      BY <3>3, <3>5 DEF RecvCommand
    <3>7. QED
      BY <1>4, <2>1, <3>1, <3>6 DEF Whole, Took, Boundary
  <2>4. QED
    BY <2>2, <2>3
<1>9. Sizes' /\ Sized'
  BY DEF RecvCommand, Leave, Begin, Sizes, Sized, Sizing
<1>10. QED
  BY <1>6, <1>7, <1>8, <1>9 DEF Flow

(* Sending.                                                                *)
LEMMA SendFlow ==
  ASSUME Flow, (\E n \in Message : Send(n)) \/ SendSized \/ SendStatus
  PROVE  Flow'
<1>1. /\ 0 \in Places /\ 0 \in 0..Size /\ Size \in Nat /\ Message \subseteq 0..Size
      /\ Received \in 0..Size /\ Free \in 0..Size /\ Outstanding \in 0..Size
      /\ Free = Size - Outstanding
  BY Constants, Registers DEF Places, Free, Outstanding
<1>2. ASSUME NEW n \in Message, Send(n)
      PROVE  Flow'
  <2>1. StreamTypeOK'
    <3>1. sendOk' \in BOOLEAN /\ sending' \in BOOLEAN
      BY <1>2 DEF Send
    <3>2. /\ len' = n /\ func' = "send" /\ part' = 0 /\ val1' = 0 /\ val' = 0
          /\ UNCHANGED <<sr, rx, tx, ends, app, buf>>
      BY <1>2 DEF Send, Begin
    <3>3. QED
      BY <1>1, <3>1, <3>2 DEF Flow, StreamTypeOK, Sizing
  <2>2. Pointers'
    BY <1>2 DEF Send, Begin, Flow, Pointers, Received, Outstanding
  <2>3. Whole'
    BY <1>2 DEF Send, Begin, Flow, Whole, Took, Boundary, Received
  <2>4. Sizes' /\ Sized'
    BY <1>2 DEF Send, Begin, Sizes, Sized
  <2>5. QED
    BY <2>1, <2>2, <2>3, <2>4 DEF Flow
<1>3. CASE SendSized
  <2>1. val <= Free
    BY <1>1, <1>3 DEF SendSized, SizeRead, Agree, Flow, Sizes, Sizing, Had, Register,
       StreamTypeOK, Places
  <2>2. QED
    BY <1>1, <1>3, <2>1 DEF SendSized, SizeRead, Flow, StreamTypeOK, Pointers,
       Whole, Sizes, Sized, Took, Boundary, Received, Outstanding, Free, chipVars, Sizing
<1>4. CASE SendStatus
  <2>1. CASE sr = "CLOSED"
    BY <1>4, <2>1, LeaveFlow DEF SendStatus, CloseSocket
  <2>2. CASE sr # "CLOSED" /\ len <= val
    <3>1. Outstanding + len <= Size
      BY <1>1, <1>4, <2>2 DEF SendStatus, Flow, Sized, StreamTypeOK, Places
    <3>2. QED
      BY <1>1, <1>4, <2>2, <3>1 DEF SendStatus, Flow, StreamTypeOK, Pointers,
         Whole, Sizes, Sized, Took, Boundary, Received, Outstanding, chipVars, Sizing
  <2>3. CASE sr # "CLOSED" /\ ~(len <= val)
    BY <1>1, <1>4, <2>3 DEF SendStatus, Begin, Flow, StreamTypeOK, Pointers,
       Whole, Sizes, Sized, Took, Boundary, Received, Outstanding, chipVars, Sizing
  <2>4. QED
    BY <2>1, <2>2, <2>3
<1>5. QED
  BY <1>2, <1>3, <1>4

LEMMA SendDataFlow ==
  ASSUME Flow, SendData
  PROVE  Flow'
<1>1. /\ len \in 0..Size /\ tx.wr \in Places /\ tx.sent \in Places /\ app \in Places
      /\ tx.mem \in [0..Size-1 -> Places]
  BY DEF Flow, StreamTypeOK
<1>2. tx.wr = tx.sent
  BY DEF SendData, Flow, Pointers
<1>3. Ahead(tx.sent, len) \in Places
  BY <1>1, Going
<1>4. /\ tx'.acked = tx.acked /\ tx'.sent = tx.sent /\ tx'.wr = Ahead(tx.sent, len)
      /\ tx' \in [mem : [0..Size-1 -> Places], wr : Places, sent : Places, acked : Places]
  <2>1. Store(tx.mem, tx.wr, len, app) \in [0..Size-1 -> Places]
    BY <1>1, Copies
  <2>2. QED
    BY <1>2, <1>3, <2>1 DEF SendData, Written, Flow, StreamTypeOK
<1>5. StreamTypeOK'
  BY <1>4 DEF SendData, Flow, StreamTypeOK
<1>6. Pointers'
  BY <1>4 DEF SendData, Flow, Pointers, Received, Outstanding
<1>7. Whole' /\ Sizes' /\ Sized'
  BY DEF SendData, Flow, Whole, Sizes, Sized, Boundary, Took, Received, Sizing
<1>8. QED
  BY <1>5, <1>6, <1>7 DEF Flow

LEMMA SendCommandFlow ==
  ASSUME Flow, SendCommand
  PROVE  Flow'
<1>1. /\ 0 \in Places /\ 0 \in 0..Size /\ Size \in Nat /\ len \in 0..Size
      /\ tx.sent \in Places /\ tx.acked \in Places /\ tx.wr \in Places
      /\ Size < Word /\ Word \in Nat /\ Outstanding \in 0..Size
  BY Constants, Registers DEF Flow, StreamTypeOK, Places
<1>2. tx.wr = Ahead(tx.sent, len) /\ app = tx.sent /\ Outstanding + len <= Size
  BY DEF SendCommand, Flow, Pointers
<1>3. /\ tx'.acked = tx.acked /\ tx'.sent = tx.wr /\ tx'.wr = tx.wr
      /\ tx' \in [mem : [0..Size-1 -> Places], wr : Places, sent : Places, acked : Places]
  BY <1>1 DEF SendCommand, Flow, StreamTypeOK
<1>4. Outstanding' = Outstanding + len
  <2>1. Distance(tx.acked, tx.sent) + len < Word
    BY <1>1, <1>2 DEF Outstanding
  <2>2. Distance(tx.acked, tx.wr) = Distance(tx.acked, tx.sent) + len
    BY <1>1, <1>2, <2>1, Ways
  <2>3. QED
    BY <1>3, <2>2 DEF Outstanding
<1>5. StreamTypeOK'
  <2>1. Len(buf') <= Size
    BY <1>1 DEF SendCommand, Leave
  <2>2. app' \in Places
    BY <1>1, <1>2 DEF SendCommand
  <2>3. /\ func' = "idle" /\ part' = 0 /\ val1' = 0 /\ val' = 0 /\ len' = 0
        /\ sending' = TRUE /\ UNCHANGED <<sr, rx, ends, sendOk>>
    BY DEF SendCommand, Leave, Begin
  <2>4. QED
    BY <1>1, <1>3, <2>1, <2>2, <2>3 DEF Flow, StreamTypeOK
<1>6. Pointers'
  BY <1>2, <1>3, <1>4 DEF SendCommand, Leave, Begin, Flow, Pointers, Received
<1>7. Whole' /\ Sizes' /\ Sized'
  BY DEF SendCommand, Leave, Begin, Flow, Whole, Sizes, Sized, Boundary, Took, Received,
     Sizing
<1>8. QED
  BY <1>5, <1>6, <1>7 DEF Flow

(* A size that grows while it is read.                                     *)
LEMMA Growing ==
  ASSUME Flow, UNCHANGED <<func, part, val1, val>>,
         Register(func) \in Nat, Register(func)' \in Nat,
         Register(func) <= Register(func)',
         \A n : Boundary(n) => Boundary(n)'
  PROVE  Sizes'
<1> DEFINE R == Register(func)
           S == Register(func)'
           k == val1 \div Base
<1>1. PICK b \in Nat \ {0} : b = Base
  BY Constants
<1>2. R \div b <= S \div b /\ R \div b \in Int /\ S \div b \in Int
  BY Ascending, Division
<1>3. High = R \div b /\ High' = S \div b
  BY <1>1 DEF High
<1>4. val1 \in Places /\ val \in Places
  BY DEF Flow, StreamTypeOK
<1>5. k \in Int
  <2>1. PICK x \in Nat : x = val1
    BY <1>4, Constants DEF Places
  <2>2. QED
    BY <1>1, <2>1, Division
<1>6. ASSUME NEW n \in Places, Had(n)
      PROVE  Had(n)'
  <2>1. n <= R /\ R <= S /\ n \in Nat
    BY <1>6, Constants DEF Had, Places
  <2>2. n <= S
    BY <2>1
  <2>3. QED
    BY <1>6, <2>2 DEF Had
<1> HIDE DEF R, S, k
<1>7. part = 1 /\ func \in Sizing =>
        val1 \in 0..Base-1 /\ val1 <= High'
  BY <1>1, <1>2, <1>3 DEF Flow, Sizes
<1>8. part = 2 /\ func \in Sizing =>
        k <= High' /\ (k = High' => Had(val1)')
  BY <1>2, <1>3, <1>4, <1>5, <1>6 DEF Flow, Sizes, k
<1>9. part = 3 /\ func \in Sizing =>
        val \in 0..Base-1 /\ val <= High' /\ (val = k => Had(val1)')
  BY <1>1, <1>2, <1>3, <1>4, <1>6 DEF Flow, Sizes, k
<1>10. part = 4 /\ func \in Sizing => (val = val1 => Had(val)')
  BY <1>4, <1>6 DEF Flow, Sizes
<1>11. QED
  BY <1>7, <1>8, <1>9, <1>10 DEF Sizes, k

LEMMA ArriveFlow ==
  ASSUME Flow, NEW n \in Segment, Arrive(n)
  PROVE  Flow'
<1>1. /\ n \in 1..Size /\ n \in 0..Size /\ Size \in Nat /\ Size < Word /\ Word \in Nat
      /\ Received \in 0..Size /\ rx.freed \in Places /\ rx.wr \in Places
      /\ Free \in 0..Size
  BY Constants, Registers
<1>2. n <= Size - Received
  BY DEF Arrive
<1>3. Ahead(rx.wr, n) \in Places
  BY <1>1, Going
<1>4. /\ rx'.wr = Ahead(rx.wr, n) /\ rx'.rd = rx.rd /\ rx'.freed = rx.freed
      /\ rx' \in [mem : [0..Size-1 -> Places], wr : Places, rd : Places, freed : Places]
  <2>1. Store(rx.mem, rx.wr, n, rx.wr) \in [0..Size-1 -> Places]
    BY <1>1, Copies DEF Flow, StreamTypeOK
  <2>2. QED
    BY <1>3, <2>1 DEF Arrive, Flow, StreamTypeOK
<1>5. Received' = Received + n
  <2>1. Distance(rx.freed, rx.wr) + n < Word
    BY <1>1, <1>2 DEF Received
  <2>2. Distance(rx.freed, Ahead(rx.wr, n)) = Distance(rx.freed, rx.wr) + n
    BY <1>1, <2>1, Ways
  <2>3. QED
    BY <1>4, <2>2 DEF Received
<1>6. StreamTypeOK'
  BY <1>3, <1>4 DEF Arrive, hostVars, Flow, StreamTypeOK
<1>7. Pointers'
  BY <1>1, <1>2, <1>4, <1>5 DEF Arrive, hostVars, Flow, Pointers, Outstanding
<1>8. ASSUME NEW m, Boundary(m)
      PROVE  Boundary(m)'
  BY <1>4, <1>8 DEF Arrive, Boundary
<1>9. Boundary(Received)'
  <2>1. Received' \in 0..Size /\ Ahead(rx.freed, Received') = rx'.wr
    <3>1. Received' = Distance(rx.freed, rx'.wr) /\ Received' \in 0..Size
      BY <1>1, <1>2, <1>4, <1>5 DEF Received
    <3>2. QED
      BY <1>1, <1>3, <1>4, <3>1, Ways
  <2>2. rx'.wr \in ends'
    BY <1>4 DEF Arrive
  <2>3. QED
    BY <1>4, <2>1, <2>2 DEF Boundary
<1>10. Whole'
  BY <1>1, <1>5, <1>8, <1>9 DEF Arrive, hostVars, Flow, Whole
<1>11. Sizes'
  <2>1. Register(func)' = IF func \in {"look", "recv"} THEN Received + n ELSE Free
    BY <1>5 DEF Register, Arrive, hostVars, Free
  <2>2. Register(func) = IF func \in {"look", "recv"} THEN Received ELSE Free
    BY DEF Register
  <2>3. QED
    BY <1>1, <1>8, <2>1, <2>2, Growing DEF Arrive, hostVars
<1>12. Sized'
  BY <1>1, <1>5, <1>8 DEF Arrive, hostVars, Flow, Sized, Free
<1>13. QED
  BY <1>6, <1>7, <1>10, <1>11, <1>12 DEF Flow

LEMMA AcknowledgeFlow ==
  ASSUME Flow, NEW n \in 1..Size, Acknowledge(n)
  PROVE  Flow'
<1>1. /\ n \in 0..Size /\ Size \in Nat /\ Size < Word /\ Word \in Nat
      /\ Outstanding \in 0..Size /\ tx.acked \in Places /\ tx.sent \in Places
      /\ Free = Size - Outstanding /\ Received \in 0..Size
      /\ n <= Outstanding
  BY Constants, Registers DEF Free, Outstanding, Acknowledge
<1>2. Ahead(tx.acked, n) \in Places
  BY <1>1, Going
<1>3. /\ tx'.acked = Ahead(tx.acked, n) /\ tx'.sent = tx.sent /\ tx'.wr = tx.wr
      /\ tx' \in [mem : [0..Size-1 -> Places], wr : Places, sent : Places, acked : Places]
  BY <1>2 DEF Acknowledge, Flow, StreamTypeOK
<1>4. Outstanding' = Outstanding - n
  <2>1. Distance(Ahead(tx.acked, n), tx.sent) = Distance(tx.acked, tx.sent) - n
    BY <1>1, Ways DEF Outstanding
  <2>2. QED
    BY <1>3, <2>1 DEF Outstanding
<1>5. StreamTypeOK'
  BY <1>3 DEF Acknowledge, hostVars, Flow, StreamTypeOK
<1>6. Pointers'
  <2>1. len \in 0..Size
    BY DEF Flow, StreamTypeOK
  <2>2. QED
    BY <1>1, <1>3, <1>4, <2>1 DEF Acknowledge, hostVars, Flow, Pointers, Received
<1>7. \A m : Boundary(m) <=> Boundary(m)'
  BY DEF Acknowledge, Boundary
<1>8. Whole'
  BY <1>7 DEF Acknowledge, hostVars, Flow, Whole, Received
<1>9. Free' = Free + n
  BY <1>1, <1>4 DEF Free, Outstanding
<1>10. Sizes'
  <2>1. Register(func)' = IF func \in {"look", "recv"} THEN Received ELSE Free + n
    BY <1>9 DEF Register, Acknowledge, hostVars, Received
  <2>2. Register(func) = IF func \in {"look", "recv"} THEN Received ELSE Free
    BY DEF Register
  <2>3. QED
    BY <1>1, <1>7, <2>1, <2>2, Growing DEF Acknowledge, hostVars
<1>11. Sized'
  <2>1. val \in Nat
    BY Constants DEF Flow, StreamTypeOK, Places
  <2>2. QED
    BY <1>1, <1>7, <1>9, <2>1 DEF Acknowledge, hostVars, Flow, Sized, Received
<1>12. QED
  BY <1>5, <1>6, <1>8, <1>10, <1>11 DEF Flow

LEMMA ConnectFlow ==
  ASSUME Flow, Connect
  PROVE  Flow'
<1>1. /\ First \subseteq Places /\ 0 \in 0..Size /\ Size \in Nat
  BY Constants
<1>2. PICK p \in Places, q \in Places :
        /\ rx' = [rx EXCEPT !.wr = p, !.rd = p, !.freed = p]
        /\ tx' = [tx EXCEPT !.wr = q, !.sent = q, !.acked = q] /\ app' = q
  BY <1>1 DEF Connect
<1>3. /\ rx'.wr = p /\ rx'.rd = p /\ rx'.freed = p
      /\ tx'.wr = q /\ tx'.sent = q /\ tx'.acked = q
      /\ rx' \in [mem : [0..Size-1 -> Places], wr : Places, rd : Places, freed : Places]
      /\ tx' \in [mem : [0..Size-1 -> Places], wr : Places, sent : Places, acked : Places]
  BY <1>2 DEF Flow, StreamTypeOK
<1>4. Received' = 0 /\ Outstanding' = 0
  BY <1>1, <1>3, Ways DEF Received, Outstanding
<1>5. StreamTypeOK'
  BY <1>2, <1>3 DEF Connect, Flow, StreamTypeOK
<1>6. Pointers'
  BY <1>1, <1>2, <1>3, <1>4 DEF Connect, Flow, Pointers
<1>7. Whole' /\ Sizes' /\ Sized'
  BY <1>4 DEF Connect, Whole, Sizes, Sized, Sizing, Took, Boundary
<1>8. QED
  BY <1>5, <1>6, <1>7 DEF Flow

(* The rest moves no pointer.                                              *)
LEMMA OtherFlow ==
  ASSUME Flow, Look \/ Disconnect \/ PeerCloses \/ ConnectionLost \/ UNCHANGED streamVars
  PROVE  Flow'
<1>1. 0 \in Places
  BY Constants DEF Places
<1>2. StreamTypeOK'
  <2>1. sendOk' \in BOOLEAN /\ sending' \in BOOLEAN
    BY DEF Flow, StreamTypeOK, Look, Disconnect, CloseSocket, PeerCloses, ConnectionLost,
       streamVars, chipVars, hostVars
  <2>2. /\ ends' \subseteq ends /\ sr' \in {sr, "CLOSED", "CLOSE_WAIT"}
        /\ UNCHANGED <<rx, tx, app, len, buf>>
        /\ \/ UNCHANGED <<func, part, val1, val>>
           \/ func' = "look" /\ part' = 0 /\ val1' = 0 /\ val' = 0
    BY DEF Look, Begin, Disconnect, CloseSocket, PeerCloses, ConnectionLost,
       streamVars, chipVars, hostVars
  <2>3. QED
    BY <1>1, <2>1, <2>2 DEF Flow, StreamTypeOK, Sizing
<1>3. Pointers'
  BY DEF Flow, Pointers, Look, Begin, Disconnect, CloseSocket, PeerCloses, ConnectionLost,
     streamVars, chipVars, hostVars, Received, Outstanding
<1>4. Whole'
  BY DEF Flow, Whole, Took, Boundary, Look, Begin, Disconnect, CloseSocket, PeerCloses,
     ConnectionLost, streamVars, chipVars, hostVars, Received
<1>5. Sizes'
  BY DEF Flow, Sizes, High, Register, Had, Boundary, Look, Begin, Disconnect, CloseSocket,
     PeerCloses, ConnectionLost, streamVars, chipVars, hostVars, Received, Free, Sizing
<1>6. Sized'
  BY DEF Flow, Sized, Boundary, Look, Begin, Disconnect, CloseSocket, PeerCloses,
     ConnectionLost, streamVars, chipVars, hostVars, Received, Free
<1>7. QED
  BY <1>2, <1>3, <1>4, <1>5, <1>6 DEF Flow

LEMMA FlowNext == Flow /\ [StreamNext]_streamVars => Flow'
  BY SizeByteFlow, CallFlow, RecvDataFlow, RecvCommandFlow, SendFlow, SendDataFlow,
     SendCommandFlow, ArriveFlow, AcknowledgeFlow, ConnectFlow, OtherFlow
  DEF StreamNext, Host, Call, Chip

LEMMA FlowHolds == StreamSpec => []Flow
  BY FlowInit, FlowNext, PTL DEF StreamSpec

(* Types and widths: the pointers stay within the range of the registers,  *)
(* and neither a size that is read nor what recv and send copy by it       *)
(* exceeds its buffer.                                                     *)
THEOREM StreamTypeCorrect == StreamSpec => []StreamTypeOK
<1>1. Flow => StreamTypeOK
  BY DEF Flow
<1>2. QED
  BY <1>1, FlowHolds, PTL

(* A read never ends inside a segment, although more arrives between the   *)
(* bytes of the size it goes by: getSn_RX_RSR only returns sizes that the  *)
(* register has had, and those are where segments end.                     *)
THEOREM WholeSegments == StreamSpec => SegmentsWhole
<1>1. Flow /\ [StreamNext]_streamVars =>
        [rx'.freed # rx.freed /\ func = "RECV" => rx'.freed \in ends]_streamVars
  <2> SUFFICES ASSUME Flow, [StreamNext]_streamVars, rx'.freed # rx.freed, func = "RECV"
               PROVE  rx'.freed \in ends
    OBVIOUS
  <2>1. ~\E n \in Segment : Arrive(n)
    BY DEF Arrive, Flow, StreamTypeOK
  <2>2. ~SendData /\ ~SendCommand /\ ~RecvData
    BY DEF SendData, SendCommand, RecvData
  <2>3. RecvCommand
    BY <2>1, <2>2 DEF StreamNext, Host, Call, Chip, SizeByte, SizeAgain, Looked, RecvSized,
       RecvStatus, Drained, SendSized, SendStatus, SizeRead, Look, Disconnect, Connect, Send,
       Acknowledge, PeerCloses, ConnectionLost, streamVars, chipVars, hostVars, Sizing
  <2>4. rx'.freed = Ahead(rx.freed, len)
    BY <2>3 DEF RecvCommand, Freed, Flow, Pointers, StreamTypeOK
  <2>5. len # 0 /\ Boundary(len)
    BY Registers DEF Flow, Whole, Took
  <2>6. QED
    BY <2>4, <2>5 DEF Boundary
<1>2. QED
  BY <1>1, FlowHolds, PTL DEF StreamSpec, SegmentsWhole

-----------------------------------------------------------------------------
(* The bytes: what lies between the pointers is the stream.                *)
Filled(mem, p, n) ==
  \A i \in 0..Size-1 : i < n => mem[(p + i) % Size] = Ahead(p, i)

Stream(p, n) == [i \in 1..n |-> Ahead(p, i - 1)]

LEMMA FilledOn ==
  ASSUME NEW mem \in [0..Size-1 -> Places], NEW p \in Places,
         NEW n \in 0..Size, NEW m \in 0..Size, n + m <= Size, Filled(mem, p, n)
  PROVE  Filled(Store(mem, Ahead(p, n), m, Ahead(p, n)), p, n + m)
<1> DEFINE w == Ahead(p, n)
           I(a) == (a + Size - (w % Size)) % Size
<1>1. Size \in Nat \ {0} /\ w \in Places
  BY Constants, Going
<1> SUFFICES ASSUME NEW i \in 0..Size-1, i < n + m
             PROVE  Store(mem, w, m, w)[(p + i) % Size] = Ahead(p, i)
  BY DEF Filled
<1>2. PICK a \in 0..Size-1 : a = (p + i) % Size
  BY Slot
<1>3. I(a) = IF i >= n THEN i - n ELSE i + Size - n
  BY <1>2, Slot
<1>4. Store(mem, w, m, w)[a] = IF I(a) < m THEN Ahead(w, I(a)) ELSE mem[a]
  BY DEF Store
<1> HIDE DEF I
<1>5. CASE i >= n
  <2>1. i - n \in 0..Size /\ n + (i - n) <= Size /\ n + (i - n) = i
    BY <1>1, <1>5
  <2>2. Ahead(w, i - n) = Ahead(p, n + (i - n))
    BY <2>1, Along
  <2>3. QED
    BY <1>1, <1>2, <1>3, <1>4, <1>5, <2>1, <2>2
<1>6. CASE i < n
  <2>1. mem[a] = Ahead(p, i)
    BY <1>2, <1>6 DEF Filled
  <2>2. QED
    BY <1>1, <1>2, <1>3, <1>4, <1>6, <2>1
<1>7. QED
  BY <1>5, <1>6

LEMMA FilledFrom ==
  ASSUME NEW mem, NEW p \in Places, NEW n \in 0..Size, NEW m \in 0..n, Filled(mem, p, n)
  PROVE  Filled(mem, Ahead(p, m), n - m)
<1>1. Size \in Nat \ {0} /\ m \in 0..Size
  BY Constants
<1> SUFFICES ASSUME NEW i \in 0..Size-1, i < n - m
             PROVE  mem[(Ahead(p, m) + i) % Size] = Ahead(Ahead(p, m), i)
  BY DEF Filled
<1>2. i \in 0..Size /\ m + i <= Size /\ m + i \in 0..Size-1 /\ m + i < n
  BY <1>1
<1>3. /\ (Ahead(p, m) + i) % Size = (p + (m + i)) % Size
      /\ Ahead(Ahead(p, m), i) = Ahead(p, m + i)
  BY <1>1, <1>2, Along
<1>4. mem[(p + (m + i)) % Size] = Ahead(p, m + i)
  BY <1>2 DEF Filled
<1>5. QED
  BY <1>3, <1>4

LEMMA Loaded ==
  ASSUME NEW mem, NEW p \in Places, NEW n \in 0..Size, NEW m \in 0..n, Filled(mem, p, n)
  PROVE  Load(mem, p, m) = Stream(p, m)
<1>1. Size \in Nat \ {0} /\ p \in Nat
  BY Constants DEF Places
<1>2. ASSUME NEW i \in 1..m
      PROVE  mem[(p + i - 1) % Size] = Ahead(p, i - 1)
  <2>1. i - 1 \in 0..Size-1 /\ i - 1 < n
    BY <1>1
  <2>2. mem[(p + (i - 1)) % Size] = Ahead(p, i - 1)
    BY <2>1 DEF Filled
  <2>3. p + (i - 1) = p + i - 1
    BY <1>1
  <2>4. QED
    BY <2>2, <2>3
<1>3. QED
  BY <1>2 DEF Load, Stream

LEMMA Streams ==
  ASSUME NEW p \in Places, NEW n \in 0..Size
  PROVE  /\ Stream(p, n) \in Seq(Places) /\ Len(Stream(p, n)) = n
         /\ \A i \in 1..n : Stream(p, n)[i] = Ahead(p, i - 1)
         /\ In!Stream(p, n) = Stream(p, n) /\ Out!Stream(p, n) = Stream(p, n)
<1>1. Size \in Nat /\ p \in Nat
  BY Constants DEF Places
<1>2. \A i \in 1..n : i - 1 \in 0..Size
  BY <1>1
<1>3. \A i \in 1..n : Ahead(p, i - 1) \in Places
  BY <1>2, Going
<1>4. Stream(p, n) \in [1..n -> Places]
  BY <1>3 DEF Stream
<1>5. Stream(p, n) \in Seq(Places)
  BY <1>1, <1>4, SeqDef
<1>6. Len(Stream(p, n)) = n
  BY <1>4 DEF Stream
<1>7. \A i \in 1..n : (p + i - 1) % Word = Ahead(p, i - 1)
  <2> SUFFICES ASSUME NEW i \in 1..n
               PROVE  (p + i - 1) % Word = Ahead(p, i - 1)
    OBVIOUS
  <2>1. p + (i - 1) = p + i - 1
    BY <1>1
  <2>2. QED
    BY <2>1 DEF Ahead
<1>8. In!Stream(p, n) = Stream(p, n) /\ Out!Stream(p, n) = Stream(p, n)
  BY <1>7 DEF In!Stream, Out!Stream, Stream
<1>9. QED
  BY <1>5, <1>6, <1>8 DEF Stream

LEMMA StreamOn ==
  ASSUME NEW p \in Places, NEW n \in 0..Size, NEW m \in 0..Size, n + m <= Size
  PROVE  Stream(p, n + m) = Stream(p, n) \o Stream(Ahead(p, n), m)
<1> DEFINE s == Stream(p, n)
           t == Stream(Ahead(p, n), m)
           u == Stream(p, n + m)
<1>1. Size \in Nat /\ n + m \in 0..Size /\ Ahead(p, n) \in Places
  BY Constants, Going
<1>2. /\ s \in Seq(Places) /\ Len(s) = n /\ \A i \in 1..n : s[i] = Ahead(p, i - 1)
      /\ t \in Seq(Places) /\ Len(t) = m
      /\ \A i \in 1..m : t[i] = Ahead(Ahead(p, n), i - 1)
      /\ u \in Seq(Places) /\ Len(u) = n + m
      /\ \A i \in 1..n + m : u[i] = Ahead(p, i - 1)
  BY <1>1, Streams
<1> HIDE DEF s, t, u
<1>3. /\ s \o t \in Seq(Places) /\ Len(s \o t) = n + m
      /\ \A i \in 1..n + m : (s \o t)[i] = IF i <= n THEN s[i] ELSE t[i - n]
  BY <1>2, ConcatProperties
<1>4. ASSUME NEW i \in 1..n + m
      PROVE  (s \o t)[i] = u[i]
  <2>1. CASE i <= n
    BY <1>1, <1>2, <1>3, <2>1
  <2>2. CASE ~(i <= n)
    <3>1. /\ i - n \in 1..m /\ (i - n) - 1 \in 0..Size /\ n + ((i - n) - 1) <= Size
          /\ n + ((i - n) - 1) = i - 1
      BY <1>1, <2>2
    <3>2. Ahead(Ahead(p, n), (i - n) - 1) = Ahead(p, n + ((i - n) - 1))
      BY <3>1, Along
    <3>3. t[i - n] = Ahead(p, i - 1)
      BY <1>2, <3>1, <3>2
    <3>4. QED
      BY <1>2, <1>3, <2>2, <3>3
  <2>3. QED
    BY <2>1, <2>2
<1>5. s \o t = u
  BY <1>2, <1>3, <1>4, SeqEqual
<1>6. QED
  BY <1>5 DEF s, t, u

LEMMA StreamFrom ==
  ASSUME NEW p \in Places, NEW n \in 0..Size, NEW m \in 0..n
  PROVE  /\ SubSeq(Stream(p, n), 1, m) = Stream(p, m)
         /\ SubSeq(Stream(p, n), m + 1, n) = Stream(Ahead(p, m), n - m)
<1> DEFINE s == Stream(p, n)
           t == Stream(Ahead(p, m), n - m)
           u == Stream(p, m)
<1>1. Size \in Nat /\ m \in 0..Size /\ n - m \in 0..Size /\ Ahead(p, m) \in Places
  BY Constants, Going
<1>2. /\ s \in Seq(Places) /\ Len(s) = n /\ \A i \in 1..n : s[i] = Ahead(p, i - 1)
      /\ t \in Seq(Places) /\ Len(t) = n - m
      /\ \A i \in 1..n - m : t[i] = Ahead(Ahead(p, m), i - 1)
      /\ u \in Seq(Places) /\ Len(u) = m
      /\ \A i \in 1..m : u[i] = Ahead(p, i - 1)
  BY <1>1, Streams
<1> HIDE DEF s, t, u
<1>3. \A i \in 1..n : s[i] \in Places
  BY <1>2, ElementOfSeq
<1>4. /\ SubSeq(s, 1, m) \in Seq(Places) /\ Len(SubSeq(s, 1, m)) = m
      /\ \A i \in 1..m : SubSeq(s, 1, m)[i] = s[i]
  <2>1. \A i \in 1..m : s[i] \in Places
    BY <1>1, <1>3
  <2>2. /\ SubSeq(s, 1, m) \in Seq(Places)
        /\ Len(SubSeq(s, 1, m)) = IF 1 <= m THEN m - 1 + 1 ELSE 0
        /\ \A i \in 1 .. m - 1 + 1 : SubSeq(s, 1, m)[i] = s[1 + i - 1]
    BY <1>1, <2>1, SubSeqProperties
  <2>3. QED
    BY <1>1, <2>2
<1>5. SubSeq(s, 1, m) = u
  <2>1. \A i \in 1..m : SubSeq(s, 1, m)[i] = u[i]
    BY <1>1, <1>2, <1>4
  <2>2. QED
    BY <1>2, <1>4, <2>1, SeqEqual
<1>6. /\ SubSeq(s, m + 1, n) \in Seq(Places) /\ Len(SubSeq(s, m + 1, n)) = n - m
      /\ \A i \in 1..n - m : SubSeq(s, m + 1, n)[i] = s[m + i]
  <2>1. PICK k \in Int : k = m + 1
    BY <1>1
  <2>2. \A i \in k..n : s[i] \in Places
    BY <1>1, <1>3, <2>1
  <2>3. /\ SubSeq(s, k, n) \in Seq(Places)
        /\ Len(SubSeq(s, k, n)) = IF k <= n THEN n - k + 1 ELSE 0
        /\ \A i \in 1 .. n - k + 1 : SubSeq(s, k, n)[i] = s[k + i - 1]
    BY <1>1, <2>2, SubSeqProperties
  <2>4. QED
    BY <1>1, <2>1, <2>3
<1>7. SubSeq(s, m + 1, n) = t
  <2>1. ASSUME NEW i \in 1..n - m
        PROVE  SubSeq(s, m + 1, n)[i] = t[i]
    <3>1. /\ m + i \in 1..n /\ i - 1 \in 0..Size /\ m + (i - 1) <= Size
          /\ m + (i - 1) = (m + i) - 1
      BY <1>1
    <3>2. Ahead(Ahead(p, m), i - 1) = Ahead(p, m + (i - 1))
      BY <1>1, <3>1, Along
    <3>3. QED
      BY <1>2, <1>6, <3>1, <3>2
  <2>2. QED
    BY <1>2, <1>6, <2>1, SeqEqual
<1>8. QED
  BY <1>5, <1>7 DEF s, t, u

(* What waits in the buffers is the stream, and so is what recv has copied *)
(* from it, which the chip cannot reach until it is freed.                 *)
Ready == Outstanding + IF func = "SEND" THEN len ELSE 0
Contents ==
  /\ Filled(rx.mem, rx.freed, Received)
  /\ Filled(tx.mem, tx.acked, Ready)
  /\ func = "RECV" => buf = Stream(rx.freed, len)

LEMMA ContentsInit == StreamInit => Contents
<1> SUFFICES ASSUME StreamInit
             PROVE  Contents
  OBVIOUS
<1>1. /\ rx.freed = 0 /\ rx.wr = 0 /\ tx.acked = 0 /\ tx.sent = 0 /\ func = "idle"
      /\ 0 \in Places /\ 0 \in 0..Size
  BY Constants DEF StreamInit, Places
<1>2. Distance(0, 0) = 0
  BY <1>1, Ways
<1>3. Received = 0 /\ Ready = 0
  BY <1>1, <1>2 DEF Received, Ready, Outstanding
<1>4. Filled(rx.mem, rx.freed, 0) /\ Filled(tx.mem, tx.acked, 0)
  BY DEF Filled
<1>5. QED
  BY <1>1, <1>3, <1>4 DEF Contents

(* Pointers, before and after.                                             *)
LEMMA Settled ==
  ASSUME Flow
  PROVE  /\ Received \in 0..Size /\ Outstanding \in 0..Size /\ Ready \in 0..Size
         /\ len \in 0..Size /\ Size \in Nat /\ Size < Word /\ Word \in Nat
         /\ Outstanding <= Ready /\ (func # "SEND" => Ready = Outstanding)
         /\ rx.freed \in Places /\ rx.wr \in Places
         /\ tx.acked \in Places /\ tx.sent \in Places
         /\ rx.mem \in [0..Size-1 -> Places] /\ tx.mem \in [0..Size-1 -> Places]
         /\ rx.wr = Ahead(rx.freed, Received) /\ tx.sent = Ahead(tx.acked, Outstanding)
<1>1. /\ Received \in 0..Size /\ Outstanding \in 0..Size /\ len \in 0..Size
      /\ Size \in Nat /\ Size < Word /\ Word \in Nat
      /\ rx.freed \in Places /\ rx.wr \in Places
      /\ tx.acked \in Places /\ tx.sent \in Places
      /\ rx.mem \in [0..Size-1 -> Places] /\ tx.mem \in [0..Size-1 -> Places]
  BY Registers, Constants DEF Flow, StreamTypeOK
<1>2. Ready \in 0..Size /\ Outstanding <= Ready /\ (func # "SEND" => Ready = Outstanding)
  BY <1>1 DEF Ready, Flow, Pointers
<1>3. rx.wr = Ahead(rx.freed, Received) /\ tx.sent = Ahead(tx.acked, Outstanding)
  BY <1>1, Ways DEF Received, Outstanding
<1>4. QED
  BY <1>1, <1>2, <1>3

(* What the four steps that touch the buffers do to them.                  *)
LEMMA ArriveEffect ==
  ASSUME Flow, NEW n \in Segment, Arrive(n)
  PROVE  /\ n \in 1..Size /\ n \in 0..Size /\ Received + n <= Size
         /\ rx'.freed = rx.freed /\ rx'.wr = Ahead(rx.wr, n) /\ Received' = Received + n
         /\ rx'.mem = Store(rx.mem, rx.wr, n, rx.wr)
<1>1. n \in 1..Size /\ n \in 0..Size /\ Received + n <= Size
  BY Constants, Settled DEF Arrive
<1>2. rx'.freed = rx.freed /\ rx'.wr = Ahead(rx.wr, n)
  BY DEF Arrive, Flow, StreamTypeOK
<1>3. rx'.mem = Store(rx.mem, rx.wr, n, rx.wr)
  BY DEF Arrive, Flow, StreamTypeOK
<1>4. Received' = Received + n
  <2>1. Distance(rx.freed, rx.wr) + n < Word
    BY <1>1, Settled DEF Received
  <2>2. Distance(rx.freed, Ahead(rx.wr, n)) = Distance(rx.freed, rx.wr) + n
    BY <1>1, <2>1, Settled, Ways
  <2>3. QED
    BY <1>2, <2>2 DEF Received
<1>5. QED
  BY <1>1, <1>2, <1>3, <1>4

LEMMA RecvCommandEffect ==
  ASSUME Flow, RecvCommand
  PROVE  /\ len \in 1..Received /\ rx'.freed = Ahead(rx.freed, len)
         /\ rx'.mem = rx.mem /\ rx'.wr = rx.wr /\ Received' = Received - len
         /\ func' = "idle"
<1>1. len \in 1..Received /\ rx.rd = Ahead(rx.freed, len)
  BY DEF RecvCommand, Flow, Whole, Took, Pointers
<1>2. rx'.freed = rx.rd /\ rx'.mem = rx.mem /\ rx'.wr = rx.wr /\ func' = "idle"
  BY DEF RecvCommand, Freed, Leave, Begin, Flow, StreamTypeOK
<1>3. Received' = Received - len
  <2>1. len <= Distance(rx.freed, rx.wr)
    BY <1>1, Settled DEF Received
  <2>2. Distance(Ahead(rx.freed, len), rx.wr) = Distance(rx.freed, rx.wr) - len
    BY <1>1, <2>1, Settled, Ways
  <2>3. QED
    BY <1>1, <1>2, <2>2 DEF Received
<1>4. QED
  BY <1>1, <1>2, <1>3

LEMMA SendCommandEffect ==
  ASSUME Flow, SendCommand
  PROVE  /\ len \in 1..Size /\ Outstanding + len <= Size /\ Outstanding' = Outstanding + len
         /\ tx'.acked = tx.acked /\ tx'.mem = tx.mem /\ func' = "idle"
         /\ app = tx.sent /\ app' = Ahead(tx.sent, len)
<1>1. /\ len \in 1..Size /\ Outstanding + len <= Size
      /\ app = tx.sent /\ tx.wr = Ahead(tx.sent, len)
  BY Constants DEF SendCommand, Flow, Pointers
<1>2. /\ tx'.sent = tx.wr /\ tx'.acked = tx.acked /\ tx'.mem = tx.mem
      /\ app' = Ahead(app, len) /\ func' = "idle"
  BY DEF SendCommand, Leave, Begin, Flow, StreamTypeOK
<1>3. Outstanding' = Outstanding + len
  <2>1. Distance(tx.acked, tx.sent) + len < Word
    BY <1>1, Settled DEF Outstanding
  <2>2. Distance(tx.acked, Ahead(tx.sent, len)) = Distance(tx.acked, tx.sent) + len
    BY <1>1, <2>1, Settled, Ways
  <2>3. QED
    BY <1>1, <1>2, <2>2 DEF Outstanding
<1>4. QED
  BY <1>1, <1>2, <1>3

LEMMA AcknowledgeEffect ==
  ASSUME Flow, NEW n \in 1..Size, Acknowledge(n)
  PROVE  /\ n \in 1..Outstanding /\ Outstanding' = Outstanding - n
         /\ tx'.acked = Ahead(tx.acked, n) /\ tx'.mem = tx.mem
         /\ UNCHANGED <<rx, func, len, buf, app>>
<1>1. n \in 1..Outstanding
  BY Settled DEF Acknowledge, Outstanding
<1>2. /\ tx'.acked = Ahead(tx.acked, n) /\ tx'.mem = tx.mem /\ tx'.sent = tx.sent
      /\ UNCHANGED <<rx, func, len, buf, app>>
  BY DEF Acknowledge, hostVars, Flow, StreamTypeOK
<1>3. Outstanding' = Outstanding - n
  <2>1. n <= Distance(tx.acked, tx.sent) /\ n \in 0..Size
    BY <1>1, Settled DEF Outstanding
  <2>2. Distance(Ahead(tx.acked, n), tx.sent) = Distance(tx.acked, tx.sent) - n
    BY <2>1, Settled, Ways
  <2>3. QED
    BY <1>2, <2>2 DEF Outstanding
<1>4. QED
  BY <1>1, <1>2, <1>3

LEMMA ConnectEffect ==
  ASSUME Flow, Connect
  PROVE  /\ Received' = 0 /\ Outstanding' = 0 /\ func' = "idle"
         /\ rx'.wr \in Places /\ app' \in Places
         /\ rx'.freed \in Places /\ tx'.acked \in Places
<1>1. PICK p \in Places, q \in Places :
        /\ rx' = [rx EXCEPT !.wr = p, !.rd = p, !.freed = p]
        /\ tx' = [tx EXCEPT !.wr = q, !.sent = q, !.acked = q] /\ app' = q
  BY Constants DEF Connect
<1>2. rx'.wr = p /\ rx'.freed = p /\ tx'.sent = q /\ tx'.acked = q
  BY <1>1 DEF Flow, StreamTypeOK
<1>3. 0 \in 0..Size
  BY Constants
<1>4. QED
  BY <1>1, <1>2, <1>3, Ways DEF Received, Outstanding, Connect

(* The other steps move nothing of either buffer.                          *)
Still == UNCHANGED <<rx, tx, app>> /\ (func = "RECV" <=> func' = "RECV") /\
         (func = "SEND" <=> func' = "SEND") /\ (func = "RECV" => UNCHANGED buf) /\
         (func \in {"RECV", "SEND"} => UNCHANGED len)

LEMMA StillOr ==
  ASSUME [StreamNext]_streamVars
  PROVE  \/ Still \/ RecvData \/ RecvCommand \/ SendData \/ SendCommand \/ Connect
         \/ \E n \in Segment : Arrive(n)
         \/ \E n \in 1..Size : Acknowledge(n)
<1>1. SizeByte \/ SizeAgain \/ Looked \/ RecvSized \/ RecvStatus \/ Drained => Still
  BY DEF Still, SizeByte, SizeAgain, Looked, RecvSized, RecvStatus, Drained, SizeRead,
     Leave, Begin, Sizing, chipVars
<1>2. SendSized \/ SendStatus \/ Look \/ Disconnect \/ (\E n \in Message : Send(n)) => Still
  BY DEF Still, SendSized, SendStatus, Look, Disconnect, Send, SizeRead, Leave, Begin, chipVars
<1>3. PeerCloses \/ ConnectionLost \/ UNCHANGED streamVars => Still
  BY DEF Still, PeerCloses, ConnectionLost, streamVars, chipVars, hostVars
<1>4. QED
  BY <1>1, <1>2, <1>3 DEF StreamNext, Host, Call, Chip

LEMMA ContentsNext ==
  ASSUME Flow, Contents, [StreamNext]_streamVars
  PROVE  Contents'
<1>1. CASE Still
  BY <1>1 DEF Still, Contents, Ready, Received, Outstanding
<1>2. CASE RecvData
  <2>1. /\ rx'.mem = rx.mem /\ rx'.wr = rx.wr /\ rx'.freed = rx.freed
        /\ UNCHANGED <<tx, len>> /\ func = "copy" /\ func' = "RECV"
        /\ buf' = Load(rx.mem, rx.freed, len)
    BY <1>2 DEF RecvData, Flow, Pointers, StreamTypeOK
  <2>2. len \in 0..Received
    BY <2>1, Settled DEF Flow, Whole, Took
  <2>3. buf' = Stream(rx.freed, len)
    BY <2>1, <2>2, Settled, Loaded DEF Contents
  <2>4. Received' = Received /\ Ready' = Ready
    BY <2>1 DEF Received, Ready, Outstanding
  <2>5. QED
    BY <2>1, <2>3, <2>4 DEF Contents
<1>3. CASE RecvCommand
  <2>1. len \in 0..Received /\ Received \in 0..Size /\ rx.freed \in Places
    BY <1>3, Settled, RecvCommandEffect
  <2>2. Filled(rx.mem, Ahead(rx.freed, len), Received - len)
    BY <2>1, FilledFrom DEF Contents
  <2>3. Ready' = Ready /\ UNCHANGED tx
    BY <1>3 DEF RecvCommand, Leave, Begin, Ready, Outstanding
  <2>4. QED
    BY <1>3, <2>2, <2>3, RecvCommandEffect DEF Contents
<1>4. CASE SendData
  <2>1. /\ tx'.acked = tx.acked /\ tx'.sent = tx.sent
        /\ tx'.mem = Store(tx.mem, tx.sent, len, tx.sent)
        /\ func = "fill" /\ func' = "SEND" /\ UNCHANGED <<rx, len, buf>>
    BY <1>4 DEF SendData, Flow, Pointers, StreamTypeOK
  <2>2. Outstanding + len <= Size
    BY <2>1 DEF Flow, Pointers
  <2>3. Filled(tx.mem, tx.acked, Outstanding)
    BY <2>1, Settled DEF Contents
  <2>4. Filled(tx'.mem, tx.acked, Outstanding + len)
    BY <2>1, <2>2, <2>3, Settled, FilledOn
  <2>5. Ready' = Outstanding + len /\ Received' = Received
    BY <2>1 DEF Ready, Outstanding, Received
  <2>6. QED
    BY <2>1, <2>4, <2>5 DEF Contents
<1>5. CASE SendCommand
  <2>1. Ready' = Ready
    <3>1. func = "SEND"
      BY <1>5 DEF SendCommand
    <3>2. /\ func' = "idle" /\ Outstanding' = Outstanding + len
          /\ Outstanding \in Int /\ len \in Int
      BY <1>5, SendCommandEffect, Settled
    <3>3. QED
      BY <3>1, <3>2 DEF Ready
  <2>2. Received' = Received /\ UNCHANGED rx
    BY <1>5 DEF SendCommand, Received
  <2>3. QED
    BY <1>5, <2>1, <2>2, SendCommandEffect DEF Contents
<1>6. CASE Connect
  <2>1. Ready' = 0 /\ Received' = 0 /\ func' = "idle"
    BY <1>6, ConnectEffect DEF Ready
  <2>2. \A mem, p : Filled(mem, p, 0)
    BY DEF Filled
  <2>3. QED
    BY <2>1, <2>2 DEF Contents
<1>7. ASSUME NEW n \in Segment, Arrive(n)
      PROVE  Contents'
  <2>1. Filled(rx'.mem, rx.freed, Received + n)
    BY <1>7, Settled, ArriveEffect, FilledOn DEF Contents
  <2>2. Ready' = Ready /\ UNCHANGED <<tx, func, buf, len>>
    BY <1>7 DEF Arrive, hostVars, Ready, Outstanding
  <2>3. QED
    BY <1>7, <2>1, <2>2, ArriveEffect DEF Contents
<1>8. ASSUME NEW n \in 1..Size, Acknowledge(n)
      PROVE  Contents'
  <2>1. n \in 0..Ready
    BY <1>8, Settled, AcknowledgeEffect
  <2>2. Filled(tx.mem, Ahead(tx.acked, n), Ready - n)
    BY <2>1, Settled, FilledFrom DEF Contents
  <2>3. Ready' = Ready - n /\ Received' = Received
    BY <1>8, Settled, AcknowledgeEffect DEF Ready, Received
  <2>4. QED
    BY <1>8, <2>2, <2>3, AcknowledgeEffect DEF Contents
<1>9. QED
  BY <1>1, <1>2, <1>3, <1>4, <1>5, <1>6, <1>7, <1>8, StillOr

(* The two directions of a connection as Channel has them.                 *)
Queues ==
  /\ Load(rx.mem, rx.freed, Received) = Stream(rx.freed, Received)
  /\ Load(tx.mem, tx.acked, Outstanding) = Stream(tx.acked, Outstanding)

Streaming == Flow /\ Contents /\ Queues

LEMMA StreamingHolds == StreamSpec => []Streaming
<1>1. StreamInit => Flow /\ Contents
  BY FlowInit, ContentsInit
<1>2. Flow /\ Contents /\ [StreamNext]_streamVars => Flow' /\ Contents'
  BY FlowNext, ContentsNext
<1>3. Flow /\ Contents => Queues
  <2> SUFFICES ASSUME Flow, Contents
               PROVE  Queues
    OBVIOUS
  <2>1. Received \in 0..Received /\ Outstanding \in 0..Ready
    BY Settled
  <2>2. QED
    BY <2>1, Settled, Loaded DEF Contents, Queues
<1>4. QED
  BY <1>1, <1>2, <1>3, PTL DEF StreamSpec, Streaming

LEMMA Empty == \A mem, p : Load(mem, p, 0) = <<>>
  BY DEF Load

LEMMA Opened ==
  ASSUME [StreamNext]_streamVars, sr = "CLOSED", sr' # "CLOSED"
  PROVE  Connect
  BY DEF StreamNext, Host, Call, Chip, SizeByte, SizeAgain, Looked, RecvSized, RecvStatus,
     Drained, RecvData, RecvCommand, SendSized, SendStatus, SendData, SendCommand, Look, Disconnect,
     Send, SizeRead, CloseSocket, Arrive, Acknowledge, PeerCloses, ConnectionLost,
     streamVars, chipVars, hostVars

(* Receiving: segments are put, a read copies and RECV removes.            *)
LEMMA InStep ==
  ASSUME Streaming, Streaming', [StreamNext]_streamVars
  PROVE  [In!Next]_(In!vars)
<1> DEFINE up == sr # "CLOSED"
           queue == IF Up THEN Load(rx.mem, rx.freed, Received) ELSE <<>>
           chunk == IF Up /\ func = "RECV" THEN buf ELSE <<>>
           put == IF Up THEN rx.wr ELSE 0
           Same == UNCHANGED <<Up, queue, chunk, put>>
<1>1. Same => [In!Next]_(In!vars)
  BY DEF In!vars
<1>2. CASE ~up /\ ~up'
  BY <1>1, <1>2 DEF Up
<1>3. CASE up /\ ~up'
  <2>1. In!Close
    BY <1>3 DEF In!Close, In!Nothing, Up
  <2>2. QED
    BY <2>1 DEF In!Next
<1>4. CASE ~up /\ up'
  <2>1. /\ Load(rx'.mem, rx'.freed, Received') = <<>> /\ func' = "idle"
        /\ rx'.wr \in Places
    BY <1>4, Opened, ConnectEffect, Empty DEF Streaming
  <2>2. In!Open
    BY <1>4, <2>1 DEF In!Open, In!Nothing, Up, Places
  <2>3. QED
    BY <2>2 DEF In!Next
<1>5. CASE up /\ up'
  <2>1. Up /\ Up'
    BY <1>5 DEF Up
  <2>2. /\ queue = Stream(rx.freed, Received) /\ queue' = Stream(rx'.freed, Received')
        /\ put = rx.wr /\ put' = rx'.wr
        /\ chunk = (IF func = "RECV" THEN buf ELSE <<>>)
        /\ chunk' = (IF func' = "RECV" THEN buf' ELSE <<>>)
    BY <2>1 DEF Streaming, Queues
  <2>3. /\ Len(queue) = Received /\ Received \in 0..Size /\ rx.freed \in Places
        /\ rx.wr \in Places /\ rx.wr = Ahead(rx.freed, Received) /\ Size \in Nat
    BY <2>2, Settled, Streams DEF Streaming
  <2> HIDE DEF queue, chunk, put
  <2>4. CASE Still \/ SendData \/ SendCommand \/ \E n \in 1..Size : Acknowledge(n)
    <3>1. UNCHANGED rx /\ (func = "RECV" <=> func' = "RECV") /\ (func = "RECV" => UNCHANGED buf)
      BY <2>4, AcknowledgeEffect DEF Still, SendData, SendCommand, Leave, Begin, Streaming
    <3>2. Same
      BY <2>1, <2>2, <3>1 DEF Received
    <3>3. QED
      BY <1>1, <3>2
  <2>5. CASE Connect
    BY <1>5, <2>5 DEF Connect
  <2>6. CASE RecvData
    <3>1. /\ rx'.wr = rx.wr /\ rx'.freed = rx.freed /\ UNCHANGED len
          /\ func = "copy" /\ func' = "RECV"
      BY <2>6 DEF RecvData, Streaming, Flow, StreamTypeOK
    <3>2. len \in 1..Received
      BY <3>1 DEF Streaming, Flow, Whole, Took
    <3>3. chunk' = Stream(rx.freed, len)
      BY <2>2, <3>1 DEF Streaming, Contents
    <3>4. chunk' = SubSeq(queue, 1, len)
      <4>1. len \in 0..Received
        BY <3>2
      <4>2. QED
        BY <2>2, <2>3, <3>3, <4>1, StreamFrom
    <3>5. queue' = queue /\ put' = put
      BY <2>2, <3>1 DEF Received
    <3>6. In!Copy
      BY <2>1, <2>3, <3>2, <3>4, <3>5 DEF In!Copy, queue, chunk, put
    <3>7. QED
      BY <3>6 DEF In!Next
  <2>7. CASE RecvCommand
    <3>1. /\ len \in 1..Received /\ rx'.freed = Ahead(rx.freed, len) /\ rx'.wr = rx.wr
          /\ Received' = Received - len /\ func' = "idle" /\ func = "RECV"
      BY <2>7, RecvCommandEffect DEF Streaming, RecvCommand
    <3>2. chunk = Stream(rx.freed, len) /\ chunk' = <<>>
      BY <2>2, <3>1 DEF Streaming, Contents
    <3>3. Len(chunk) = len
      BY <3>1, <3>2, Settled, Streams DEF Streaming
    <3>4. queue' = SubSeq(queue, len + 1, Received)
      <4>1. len \in 0..Received
        BY <3>1
      <4>2. QED
        BY <2>2, <2>3, <3>1, <4>1, StreamFrom
    <3>5. chunk # <<>>
      <4>1. Len(<<>>) = 0
        OBVIOUS
      <4>2. QED
        BY <3>1, <3>3, <4>1
    <3>6. In!Remove
      BY <2>1, <2>2, <2>3, <3>1, <3>2, <3>3, <3>4, <3>5 DEF In!Remove, queue, chunk, put
    <3>7. QED
      BY <3>6 DEF In!Next
  <2>8. ASSUME NEW n \in Segment, Arrive(n)
        PROVE  In!Put
    <3>1. /\ n \in 1..Size /\ n \in 0..Size /\ Received + n <= Size
          /\ rx'.freed = rx.freed /\ rx'.wr = Ahead(rx.wr, n) /\ Received' = Received + n
          /\ UNCHANGED <<func, buf>>
      BY <2>8, ArriveEffect DEF Streaming, Arrive, hostVars
    <3>2. queue' = queue \o Stream(rx.wr, n)
      BY <2>2, <2>3, <3>1, StreamOn
    <3>3. In!Stream(rx.wr, n) = Stream(rx.wr, n)
      BY <3>1, Settled, Streams DEF Streaming
    <3>4. put' = (rx.wr + n) % Word /\ chunk' = chunk
      BY <2>2, <3>1 DEF Ahead
    <3>5. n \in 1..Size - Len(queue)
      BY <2>3, <3>1, Settled DEF Streaming
    <3>6. QED
      BY <2>1, <2>2, <3>2, <3>3, <3>4, <3>5 DEF In!Put, queue, chunk, put
  <2>9. QED
    BY <2>4, <2>5, <2>6, <2>7, <2>8, StillOr DEF In!Next
<1>6. QED
  BY <1>2, <1>3, <1>4, <1>5

(* Sending: the command SEND puts a message, acknowledgements take it.     *)
LEMMA OutStep ==
  ASSUME Streaming, Streaming', [StreamNext]_streamVars
  PROVE  [Out!Next]_(Out!vars)
<1> DEFINE up == sr # "CLOSED"
           queue == IF Up THEN Load(tx.mem, tx.acked, Distance(tx.acked, tx.sent)) ELSE <<>>
           put == IF Up THEN app ELSE 0
           Same == UNCHANGED <<Up, queue, put>>
<1>1. Same => [Out!Next]_(Out!vars)
  BY DEF Out!vars
<1>2. CASE ~up /\ ~up'
  BY <1>1, <1>2 DEF Up
<1>3. CASE up /\ ~up'
  <2>1. Out!Close
    BY <1>3 DEF Out!Close, Out!Nothing, Up
  <2>2. QED
    BY <2>1 DEF Out!Next
<1>4. CASE ~up /\ up'
  <2>1. Load(tx'.mem, tx'.acked, Outstanding') = <<>> /\ app' \in Places
    BY <1>4, Opened, ConnectEffect, Empty DEF Streaming
  <2>2. Out!Open
    BY <1>4, <2>1 DEF Out!Open, Out!Nothing, Up, Places, Outstanding
  <2>3. QED
    BY <2>2 DEF Out!Next
<1>5. CASE up /\ up'
  <2>1. Up /\ Up'
    BY <1>5 DEF Up
  <2>2. /\ queue = Stream(tx.acked, Outstanding) /\ queue' = Stream(tx'.acked, Outstanding')
        /\ put = app /\ put' = app'
    BY <2>1 DEF Streaming, Queues, Outstanding
  <2>3. /\ Len(queue) = Outstanding /\ Outstanding \in 0..Size /\ tx.acked \in Places
        /\ tx.sent \in Places /\ tx.sent = Ahead(tx.acked, Outstanding) /\ Size \in Nat
    BY <2>2, Settled, Streams DEF Streaming
  <2> HIDE DEF queue, put
  <2>4. CASE Still \/ RecvData \/ RecvCommand \/ SendData \/ \E n \in Segment : Arrive(n)
    <3>1. /\ tx'.acked = tx.acked /\ tx'.sent = tx.sent /\ UNCHANGED app
      BY <2>4 DEF Still, RecvData, RecvCommand, SendData, Arrive, hostVars, Streaming, Flow,
         StreamTypeOK
    <3>2. Same
      BY <2>1, <2>2, <3>1 DEF Outstanding
    <3>3. QED
      BY <1>1, <3>2
  <2>5. CASE Connect
    BY <1>5, <2>5 DEF Connect
  <2>6. CASE SendCommand
    <3>1. /\ len \in 1..Size /\ len \in 0..Size /\ Outstanding + len <= Size
          /\ Outstanding' = Outstanding + len /\ tx'.acked = tx.acked
          /\ app = tx.sent /\ app' = Ahead(tx.sent, len)
      BY <2>6, SendCommandEffect, Settled DEF Streaming
    <3>2. queue' = queue \o Stream(app, len)
      BY <2>2, <2>3, <3>1, StreamOn
    <3>3. Out!Stream(app, len) = Stream(app, len)
      BY <3>1, Settled, Streams DEF Streaming
    <3>4. put' = (app + len) % Word
      BY <2>2, <3>1 DEF Ahead
    <3>5. len \in 1..Size - Len(queue)
      BY <2>3, <3>1, Settled DEF Streaming
    <3>6. Out!Put
      BY <2>1, <2>2, <3>2, <3>3, <3>4, <3>5 DEF Out!Put, queue, put
    <3>7. QED
      BY <3>6 DEF Out!Next
  <2>7. ASSUME NEW n \in 1..Size, Acknowledge(n)
        PROVE  Out!Take
    <3>1. /\ n \in 1..Outstanding /\ Outstanding' = Outstanding - n
          /\ tx'.acked = Ahead(tx.acked, n) /\ UNCHANGED app
      BY <2>7, AcknowledgeEffect DEF Streaming
    <3>2. queue' = SubSeq(queue, n + 1, Outstanding)
      <4>1. n \in 0..Outstanding
        BY <3>1
      <4>2. QED
        BY <2>2, <2>3, <3>1, <4>1, StreamFrom
    <3>3. QED
      BY <2>1, <2>2, <2>3, <3>1, <3>2 DEF Out!Take, queue, put
  <2>8. QED
    BY <2>4, <2>5, <2>6, <2>7, StillOr DEF Out!Next
<1>6. QED
  BY <1>2, <1>3, <1>4, <1>5

(* recv and send implement a queue of bytes in each direction: nothing is  *)
(* lost, doubled, moved or overwritten, wherever the pointers wrap and     *)
(* whatever the chip writes beside what is being copied.                   *)
THEOREM StreamsCarried == StreamSpec => CarriesStreams
<1>1. StreamInit => In!Init /\ Out!Init
  BY DEF StreamInit, In!Init, In!Nothing, Out!Init, Out!Nothing, Up
<1>2. Streaming /\ Streaming' /\ [StreamNext]_streamVars
        => [In!Next]_(In!vars) /\ [Out!Next]_(Out!vars)
  BY InStep, OutStep
<1>3. QED
  BY <1>1, <1>2, StreamingHolds, PTL DEF StreamSpec, CarriesStreams, In!Spec, Out!Spec

-----------------------------------------------------------------------------
(* The address map of the W5500.                                           *)

(* What a transfer opens is what its block and offset were put together of.*)
Uint16 == {n \in Nat : n < 65536}

LEMMA Place ==
  ASSUME NEW block \in 0..31, NEW o \in Nat, NEW k \in Nat, NEW p \in Uint16, p = o + k,
         NEW write \in BOOLEAN
  PROVE  Selected(Opening(OffsetInc(AddrSel(block, o), k), write)) = <<block, p>>
<1>1. p \in Nat /\ p < 65536
  BY DEF Uint16
<1>2. OffsetInc(AddrSel(block, o), k) = p * 256 + block * 8
  <2>1. (o * 256 + block * 8) + k * 256 = p * 256 + block * 8
    OBVIOUS
  <2>2. QED
    BY <2>1 DEF OffsetInc, AddrSel
<1>3. QED
  BY <1>1, <1>2 DEF Selected, Opening

(* The tables, row by row: a register, its offset and how wide it is.      *)
Row(r, o, w, name, offset, width) == r = name /\ o = offset /\ w = width

LEMMA AddressRows ==
  ASSUME NEW r \in DOMAIN AddressOffset, NEW o, o = AddressOffset[r], NEW w, w = AddressWidth[r]
  PROVE
    \/ Row(r, o, w, "MR", 0, 1)
    \/ Row(r, o, w, "GAR", 1, 4)
    \/ Row(r, o, w, "SUBR", 5, 4)
    \/ Row(r, o, w, "SHAR", 9, 6)
    \/ Row(r, o, w, "SIPR", 15, 4)
BY DEF AddressOffset, AddressWidth, Row

LEMMA InterruptRows ==
  ASSUME NEW r \in DOMAIN InterruptOffset, NEW o, o = InterruptOffset[r], NEW w, w = InterruptWidth[r]
  PROVE
    \/ Row(r, o, w, "INTLEVEL", 19, 2)
    \/ Row(r, o, w, "IR", 21, 1)
    \/ Row(r, o, w, "IMR", 22, 1)
    \/ Row(r, o, w, "SIR", 23, 1)
    \/ Row(r, o, w, "SIMR", 24, 1)
    \/ Row(r, o, w, "RTR", 25, 2)
    \/ Row(r, o, w, "RCR", 27, 1)
BY DEF InterruptOffset, InterruptWidth, Row

LEMMA LinkRows ==
  ASSUME NEW r \in DOMAIN LinkOffset, NEW o, o = LinkOffset[r], NEW w, w = LinkWidth[r]
  PROVE
    \/ Row(r, o, w, "PTIMER", 28, 1)
    \/ Row(r, o, w, "PMAGIC", 29, 1)
    \/ Row(r, o, w, "PHAR", 30, 6)
    \/ Row(r, o, w, "PSID", 36, 2)
    \/ Row(r, o, w, "PMRU", 38, 2)
    \/ Row(r, o, w, "UIPR", 40, 4)
    \/ Row(r, o, w, "UPORTR", 44, 2)
    \/ Row(r, o, w, "PHYCFGR", 46, 1)
    \/ Row(r, o, w, "VERSIONR", 57, 1)
BY DEF LinkOffset, LinkWidth, Row

CommonRow(r, o, w) ==
  \/ Row(r, o, w, "MR", 0, 1)
  \/ Row(r, o, w, "GAR", 1, 4)
  \/ Row(r, o, w, "SUBR", 5, 4)
  \/ Row(r, o, w, "SHAR", 9, 6)
  \/ Row(r, o, w, "SIPR", 15, 4)
  \/ Row(r, o, w, "INTLEVEL", 19, 2)
  \/ Row(r, o, w, "IR", 21, 1)
  \/ Row(r, o, w, "IMR", 22, 1)
  \/ Row(r, o, w, "SIR", 23, 1)
  \/ Row(r, o, w, "SIMR", 24, 1)
  \/ Row(r, o, w, "RTR", 25, 2)
  \/ Row(r, o, w, "RCR", 27, 1)
  \/ Row(r, o, w, "PTIMER", 28, 1)
  \/ Row(r, o, w, "PMAGIC", 29, 1)
  \/ Row(r, o, w, "PHAR", 30, 6)
  \/ Row(r, o, w, "PSID", 36, 2)
  \/ Row(r, o, w, "PMRU", 38, 2)
  \/ Row(r, o, w, "UIPR", 40, 4)
  \/ Row(r, o, w, "UPORTR", 44, 2)
  \/ Row(r, o, w, "PHYCFGR", 46, 1)
  \/ Row(r, o, w, "VERSIONR", 57, 1)

SocketRow(r, o, w) ==
  \/ Row(r, o, w, "MR", 0, 1)
  \/ Row(r, o, w, "CR", 1, 1)
  \/ Row(r, o, w, "IR", 2, 1)
  \/ Row(r, o, w, "SR", 3, 1)
  \/ Row(r, o, w, "PORT", 4, 2)
  \/ Row(r, o, w, "DHAR", 6, 6)
  \/ Row(r, o, w, "DIPR", 12, 4)
  \/ Row(r, o, w, "DPORT", 16, 2)
  \/ Row(r, o, w, "MSSR", 18, 2)
  \/ Row(r, o, w, "TOS", 21, 1)
  \/ Row(r, o, w, "TTL", 22, 1)
  \/ Row(r, o, w, "RXBUF_SIZE", 30, 1)
  \/ Row(r, o, w, "TXBUF_SIZE", 31, 1)
  \/ Row(r, o, w, "TX_FSR", 32, 2)
  \/ Row(r, o, w, "TX_RD", 34, 2)
  \/ Row(r, o, w, "TX_WR", 36, 2)
  \/ Row(r, o, w, "RX_RSR", 38, 2)
  \/ Row(r, o, w, "RX_RD", 40, 2)
  \/ Row(r, o, w, "RX_WR", 42, 2)
  \/ Row(r, o, w, "IMR", 44, 1)
  \/ Row(r, o, w, "FRAG", 45, 2)
  \/ Row(r, o, w, "KPALVTR", 47, 1)

CommonAt(o) ==
  IF o < 1 THEN "MR" ELSE IF o < 5 THEN "GAR" ELSE
  IF o < 9 THEN "SUBR" ELSE IF o < 15 THEN "SHAR" ELSE
  IF o < 19 THEN "SIPR" ELSE IF o < 21 THEN "INTLEVEL" ELSE
  IF o < 22 THEN "IR" ELSE IF o < 23 THEN "IMR" ELSE
  IF o < 24 THEN "SIR" ELSE IF o < 25 THEN "SIMR" ELSE
  IF o < 27 THEN "RTR" ELSE IF o < 28 THEN "RCR" ELSE
  IF o < 29 THEN "PTIMER" ELSE IF o < 30 THEN "PMAGIC" ELSE
  IF o < 36 THEN "PHAR" ELSE IF o < 38 THEN "PSID" ELSE
  IF o < 40 THEN "PMRU" ELSE IF o < 44 THEN "UIPR" ELSE
  IF o < 46 THEN "UPORTR" ELSE IF o < 47 THEN "PHYCFGR" ELSE
  "VERSIONR"

SocketAt(o) ==
  IF o < 1 THEN "MR" ELSE IF o < 2 THEN "CR" ELSE
  IF o < 3 THEN "IR" ELSE IF o < 4 THEN "SR" ELSE
  IF o < 6 THEN "PORT" ELSE IF o < 12 THEN "DHAR" ELSE
  IF o < 16 THEN "DIPR" ELSE IF o < 18 THEN "DPORT" ELSE
  IF o < 20 THEN "MSSR" ELSE IF o < 22 THEN "TOS" ELSE
  IF o < 23 THEN "TTL" ELSE IF o < 31 THEN "RXBUF_SIZE" ELSE
  IF o < 32 THEN "TXBUF_SIZE" ELSE IF o < 34 THEN "TX_FSR" ELSE
  IF o < 36 THEN "TX_RD" ELSE IF o < 38 THEN "TX_WR" ELSE
  IF o < 40 THEN "RX_RSR" ELSE IF o < 42 THEN "RX_RD" ELSE
  IF o < 44 THEN "RX_WR" ELSE IF o < 45 THEN "IMR" ELSE
  IF o < 47 THEN "FRAG" ELSE "KPALVTR"

(* Where a register is tells which it is.                                  *)
LEMMA CommonFound ==
  ASSUME NEW r, NEW o, NEW w, CommonRow(r, o, w), NEW k \in 0..5, k < w, NEW p, p = o + k
  PROVE  r = CommonAt(p) /\ o \in Nat /\ p \in Nat /\ p \in Uint16
<1>1. o \in Nat /\ p \in Nat /\ p \in Uint16
  BY DEF CommonRow, Row, Uint16
<1>2. r = CommonAt(p)
  BY DEF CommonRow, Row, CommonAt
<1>3. QED
  BY <1>1, <1>2

LEMMA SocketFound ==
  ASSUME NEW r, NEW o, NEW w, SocketRow(r, o, w), NEW k \in 0..5, k < w, NEW p, p = o + k
  PROVE  r = SocketAt(p) /\ o \in Nat /\ p \in Nat /\ p \in Uint16
<1>1. o \in Nat /\ p \in Nat /\ p \in Uint16
  BY DEF SocketRow, Row, Uint16
<1>2. r = SocketAt(p)
  BY DEF SocketRow, Row, SocketAt
<1>3. QED
  BY <1>1, <1>2

LEMMA OverFirst ==
  ASSUME NEW f, NEW g, NEW r, r \in DOMAIN f
  PROVE  Over(f, g)[r] = f[r]
BY DEF Over

LEMMA OverSecond ==
  ASSUME NEW f, NEW g, NEW r, r \in DOMAIN g, r \notin DOMAIN f
  PROVE  Over(f, g)[r] = g[r]
BY DEF Over

LEMMA OverDomain ==
  ASSUME NEW f, NEW g
  PROVE  DOMAIN Over(f, g) = (DOMAIN f) \cup (DOMAIN g)
BY DEF Over

LEMMA CommonTable ==
  ASSUME NEW r \in DOMAIN CommonOffset
  PROVE  CommonRow(r, CommonOffset[r], CommonWidth[r])
<1>1. /\ DOMAIN AddressOffset = {"MR", "GAR", "SUBR", "SHAR", "SIPR"}
      /\ DOMAIN AddressWidth = {"MR", "GAR", "SUBR", "SHAR", "SIPR"}
  BY DEF AddressOffset, AddressWidth
<1>2. /\ DOMAIN InterruptOffset = {"INTLEVEL", "IR", "IMR", "SIR", "SIMR", "RTR", "RCR"}
      /\ DOMAIN InterruptWidth = {"INTLEVEL", "IR", "IMR", "SIR", "SIMR", "RTR", "RCR"}
  BY DEF InterruptOffset, InterruptWidth
<1>3. /\ DOMAIN LinkOffset = {"PTIMER", "PMAGIC", "PHAR", "PSID", "PMRU", "UIPR", "UPORTR",
                              "PHYCFGR", "VERSIONR"}
      /\ DOMAIN LinkWidth = DOMAIN LinkOffset
  BY DEF LinkOffset, LinkWidth
<1>4. /\ DOMAIN Over(InterruptOffset, LinkOffset)
           = (DOMAIN InterruptOffset) \cup (DOMAIN LinkOffset)
      /\ DOMAIN Over(InterruptWidth, LinkWidth)
           = (DOMAIN InterruptWidth) \cup (DOMAIN LinkWidth)
      /\ DOMAIN CommonOffset
           = (DOMAIN AddressOffset) \cup (DOMAIN Over(InterruptOffset, LinkOffset))
  BY OverDomain DEF CommonOffset
<1>5. CASE r \in DOMAIN AddressOffset
  <2>1. r \in DOMAIN AddressWidth
    BY <1>1, <1>5
  <2>2. CommonOffset[r] = AddressOffset[r]
    BY <1>5, OverFirst, Zenon DEF CommonOffset
  <2>3. CommonWidth[r] = AddressWidth[r]
    BY <2>1, OverFirst, Zenon DEF CommonWidth
  <2>4. QED
    BY <1>5, <2>2, <2>3, AddressRows DEF CommonRow
<1>6. CASE r \in DOMAIN Over(InterruptOffset, LinkOffset)
  <2>1. /\ r \notin DOMAIN AddressOffset /\ r \notin DOMAIN AddressWidth
        /\ r \in DOMAIN Over(InterruptWidth, LinkWidth)
    BY <1>1, <1>2, <1>3, <1>4, <1>6
  <2>2. CommonOffset[r] = Over(InterruptOffset, LinkOffset)[r]
    BY <1>6, <2>1, OverSecond, Zenon DEF CommonOffset
  <2>3. CommonWidth[r] = Over(InterruptWidth, LinkWidth)[r]
    BY <2>1, OverSecond, Zenon DEF CommonWidth
  <2>4. CASE r \in DOMAIN InterruptOffset
    <3>1. r \in DOMAIN InterruptWidth
      BY <1>2, <2>4
    <3>2. Over(InterruptOffset, LinkOffset)[r] = InterruptOffset[r]
      BY <2>4, OverFirst, Zenon
    <3>3. Over(InterruptWidth, LinkWidth)[r] = InterruptWidth[r]
      BY <3>1, OverFirst, Zenon
    <3>4. CommonOffset[r] = InterruptOffset[r] /\ CommonWidth[r] = InterruptWidth[r]
      BY <2>2, <2>3, <3>2, <3>3
    <3>5. QED
      BY <2>4, <3>4, InterruptRows DEF CommonRow
  <2>5. CASE r \in DOMAIN LinkOffset
    <3>1. /\ r \notin DOMAIN InterruptOffset /\ r \notin DOMAIN InterruptWidth
          /\ r \in DOMAIN LinkWidth
      BY <1>2, <1>3, <2>5
    <3>2. Over(InterruptOffset, LinkOffset)[r] = LinkOffset[r]
      BY <2>5, <3>1, OverSecond, Zenon
    <3>3. Over(InterruptWidth, LinkWidth)[r] = LinkWidth[r]
      BY <3>1, OverSecond, Zenon
    <3>4. CommonOffset[r] = LinkOffset[r] /\ CommonWidth[r] = LinkWidth[r]
      BY <2>2, <2>3, <3>2, <3>3
    <3>5. QED
      BY <2>5, <3>4, LinkRows DEF CommonRow
  <2>6. QED
    BY <1>4, <1>6, <2>4, <2>5
<1>7. QED
  BY <1>4, <1>5, <1>6

LEMMA ControlRows ==
  ASSUME NEW r \in DOMAIN ControlOffset, NEW o, o = ControlOffset[r], NEW w
  PROVE  IF r \in DOMAIN ControlWidth
           THEN w = ControlWidth[r] => SocketRow(r, o, w)
           ELSE r \in DOMAIN PeerWidth /\ (w = PeerWidth[r] => SocketRow(r, o, w))
BY DEF ControlOffset, ControlWidth, PeerWidth, SocketRow, Row

(* The width of a socket's interrupt mask is in the table of the controls. *)
LEMMA PointerRows ==
  ASSUME NEW r \in DOMAIN PointerOffset, NEW o, o = PointerOffset[r], NEW w
  PROVE  IF r \in DOMAIN ControlWidth
           THEN w = ControlWidth[r] => SocketRow(r, o, w)
           ELSE /\ r \notin DOMAIN PeerWidth /\ r \in DOMAIN PointerWidth
                /\ w = PointerWidth[r] => SocketRow(r, o, w)
BY DEF PointerOffset, ControlWidth, PeerWidth, PointerWidth, SocketRow, Row

LEMMA SocketTable ==
  ASSUME NEW r \in DOMAIN SocketOffset
  PROVE  SocketRow(r, SocketOffset[r], SocketWidth[r])
<1>1. DOMAIN SocketOffset = (DOMAIN ControlOffset) \cup (DOMAIN PointerOffset)
  BY OverDomain DEF SocketOffset
<1>2. DOMAIN Over(PeerWidth, PointerWidth) = (DOMAIN PeerWidth) \cup (DOMAIN PointerWidth)
  BY OverDomain
<1>3. r \in DOMAIN ControlWidth => SocketWidth[r] = ControlWidth[r]
  BY OverFirst, Zenon DEF SocketWidth
<1>4. r \in DOMAIN PeerWidth /\ r \notin DOMAIN ControlWidth => SocketWidth[r] = PeerWidth[r]
  <2>1. SUFFICES ASSUME r \in DOMAIN PeerWidth, r \notin DOMAIN ControlWidth
                 PROVE  SocketWidth[r] = PeerWidth[r]
    OBVIOUS
  <2>2. r \in DOMAIN Over(PeerWidth, PointerWidth)
    BY <1>2, <2>1
  <2>3. SocketWidth[r] = Over(PeerWidth, PointerWidth)[r]
    BY <2>1, <2>2, OverSecond, Zenon DEF SocketWidth
  <2>4. Over(PeerWidth, PointerWidth)[r] = PeerWidth[r]
    BY <2>1, OverFirst, Zenon
  <2>5. QED
    BY <2>3, <2>4
<1>5. r \in DOMAIN PointerWidth /\ r \notin DOMAIN ControlWidth /\ r \notin DOMAIN PeerWidth
        => SocketWidth[r] = PointerWidth[r]
  <2>1. SUFFICES ASSUME r \in DOMAIN PointerWidth, r \notin DOMAIN ControlWidth,
                        r \notin DOMAIN PeerWidth
                 PROVE  SocketWidth[r] = PointerWidth[r]
    OBVIOUS
  <2>2. r \in DOMAIN Over(PeerWidth, PointerWidth)
    BY <1>2, <2>1
  <2>3. SocketWidth[r] = Over(PeerWidth, PointerWidth)[r]
    BY <2>1, <2>2, OverSecond, Zenon DEF SocketWidth
  <2>4. Over(PeerWidth, PointerWidth)[r] = PointerWidth[r]
    BY <2>1, OverSecond, Zenon
  <2>5. QED
    BY <2>3, <2>4
<1>6. CASE r \in DOMAIN ControlOffset
  <2>1. SocketOffset[r] = ControlOffset[r]
    BY <1>6, OverFirst, Zenon DEF SocketOffset
  <2>2. QED
    BY <1>3, <1>4, <1>6, <2>1, ControlRows
<1>7. CASE r \in DOMAIN PointerOffset /\ r \notin DOMAIN ControlOffset
  <2>1. SocketOffset[r] = PointerOffset[r]
    BY <1>7, OverSecond, Zenon DEF SocketOffset
  <2>2. QED
    BY <1>3, <1>5, <1>7, <2>1, PointerRows
<1>8. QED
  BY <1>1, <1>6, <1>7

(* Where the bytes of the registers are.                                   *)
CommonIs(b, write, o, p) ==
  /\ o = CommonOffset[b[1]] /\ p = o + b[2]
  /\ CommonPlace(b, write) = <<0, p>> /\ b[1] = CommonAt(p)
SocketIs(n, b, write, o, p) ==
  /\ o = SocketOffset[b[1]] /\ p = o + b[2]
  /\ SocketPlace(n, b, write) = <<1 + 4*n, p>> /\ b[1] = SocketAt(p)

LEMMA CommonPlaces ==
  ASSUME NEW b \in CommonByte, NEW write \in BOOLEAN
  PROVE  \E o \in Nat, p \in Nat : CommonIs(b, write, o, p)
<1>1. PICK r \in DOMAIN CommonOffset, k \in 0..5 : b = <<r, k>> /\ k < CommonWidth[r]
  BY DEF CommonByte
<1>2. PICK o : o = CommonOffset[r]
  OBVIOUS
<1>3. PICK w : w = CommonWidth[r]
  OBVIOUS
<1>4. PICK p : p = o + k
  OBVIOUS
<1>5. CommonRow(r, o, w)
  BY <1>2, <1>3, CommonTable
<1>6. r = CommonAt(p) /\ o \in Nat /\ p \in Nat /\ p \in Uint16
  BY <1>1, <1>3, <1>4, <1>5, CommonFound
<1>7. PICK m \in Nat : m = k /\ p = o + m
  BY <1>4
<1>8. PICK block \in 0..31 : block = CREG /\ block = 0
  BY DEF CREG
<1>9. Selected(Opening(OffsetInc(AddrSel(block, o), m), write)) = <<block, p>>
  <2>1. /\ block \in 0..31 /\ o \in Nat /\ m \in Nat /\ p \in Uint16
        /\ p = o + m /\ write \in BOOLEAN
    BY <1>6, <1>7
  <2>2. QED
    BY <2>1, Place
<1>10. CommonPlace(b, write) = <<block, p>>
  BY <1>1, <1>2, <1>7, <1>8, <1>9 DEF CommonPlace
<1>11. b[1] = r /\ b[2] = k
  BY <1>1
<1>12. CommonIs(b, write, o, p)
  <2>1. o = CommonOffset[b[1]] /\ p = o + b[2] /\ b[1] = CommonAt(p)
    BY <1>2, <1>4, <1>6, <1>11
  <2>2. CommonPlace(b, write) = <<0, p>>
    BY <1>8, <1>10
  <2>3. QED
    BY <2>1, <2>2 DEF CommonIs
<1>13. QED
  BY <1>6, <1>12

LEMMA SocketPlaces ==
  ASSUME NEW n \in Sn, NEW b \in SocketByte, NEW write \in BOOLEAN
  PROVE  \E o \in Nat, p \in Nat : SocketIs(n, b, write, o, p)
<1>1. PICK r \in DOMAIN SocketOffset, k \in 0..5 : b = <<r, k>> /\ k < SocketWidth[r]
  BY DEF SocketByte
<1>2. PICK o : o = SocketOffset[r]
  OBVIOUS
<1>3. PICK w : w = SocketWidth[r]
  OBVIOUS
<1>4. PICK p : p = o + k
  OBVIOUS
<1>5. SocketRow(r, o, w)
  BY <1>2, <1>3, SocketTable
<1>6. r = SocketAt(p) /\ o \in Nat /\ p \in Nat /\ p \in Uint16
  BY <1>1, <1>3, <1>4, <1>5, SocketFound
<1>7. PICK m \in Nat : m = k /\ p = o + m
  BY <1>4
<1>8. PICK block \in 0..31 : block = SREG(n) /\ block = 1 + 4*n
  BY DEF SREG, Sn
<1>9. Selected(Opening(OffsetInc(AddrSel(block, o), m), write)) = <<block, p>>
  <2>1. /\ block \in 0..31 /\ o \in Nat /\ m \in Nat /\ p \in Uint16
        /\ p = o + m /\ write \in BOOLEAN
    BY <1>6, <1>7
  <2>2. QED
    BY <2>1, Place
<1>10. SocketPlace(n, b, write) = <<block, p>>
  BY <1>1, <1>2, <1>7, <1>8, <1>9 DEF SocketPlace
<1>11. b[1] = r /\ b[2] = k
  BY <1>1
<1>12. SocketIs(n, b, write, o, p)
  <2>1. o = SocketOffset[b[1]] /\ p = o + b[2] /\ b[1] = SocketAt(p)
    BY <1>2, <1>4, <1>6, <1>11
  <2>2. SocketPlace(n, b, write) = <<1 + 4*n, p>>
    BY <1>8, <1>10
  <2>3. QED
    BY <2>1, <2>2 DEF SocketIs
<1>13. QED
  BY <1>6, <1>12

(* A byte of a register is known by its name and its place in it.          *)
LEMMA SameByte ==
  ASSUME NEW R, NEW b \in R \X (0..5), NEW c \in R \X (0..5), NEW o \in Nat,
         b[1] = c[1], o + b[2] = o + c[2]
  PROVE  b = c
OBVIOUS

LEMMA CommonsApart ==
  ASSUME NEW write \in BOOLEAN
  PROVE  CommonApart(write)
<1>1. SUFFICES ASSUME NEW b \in CommonByte, NEW c \in CommonByte,
                      CommonPlace(b, write) = CommonPlace(c, write)
               PROVE  b = c
  BY DEF CommonApart
<1>2. PICK o \in Nat, p \in Nat : CommonIs(b, write, o, p)
  BY CommonPlaces, Zenon
<1>3. PICK u \in Nat, q \in Nat : CommonIs(c, write, u, q)
  BY CommonPlaces, Zenon
<1>4. p = q
  <2>1. <<0, p>> = <<0, q>>
    BY <1>1, <1>2, <1>3 DEF CommonIs
  <2>2. QED
    BY <2>1
<1>5. b[1] = c[1] /\ o = u
  BY <1>2, <1>3, <1>4 DEF CommonIs
<1>6. PICK R : R = DOMAIN CommonOffset
  OBVIOUS
<1>7. b \in R \X (0..5) /\ c \in R \X (0..5)
  BY <1>6 DEF CommonByte
<1>8. o + b[2] = o + c[2]
  BY <1>2, <1>3, <1>4, <1>5 DEF CommonIs
<1>9. QED
  BY <1>5, <1>7, <1>8, SameByte

LEMMA SocketsAreApart ==
  ASSUME NEW write \in BOOLEAN
  PROVE  SocketsApart(write)
<1>1. SUFFICES ASSUME NEW n \in Sn, NEW m \in Sn, NEW b \in SocketByte, NEW c \in SocketByte,
                      SocketPlace(n, b, write) = SocketPlace(m, c, write)
               PROVE  n = m /\ b = c
  BY DEF SocketsApart
<1>2. PICK o \in Nat, p \in Nat : SocketIs(n, b, write, o, p)
  BY SocketPlaces, Zenon
<1>3. PICK u \in Nat, q \in Nat : SocketIs(m, c, write, u, q)
  BY SocketPlaces, Zenon
<1>4. p = q /\ 1 + 4*n = 1 + 4*m
  <2>1. <<1 + 4*n, p>> = <<1 + 4*m, q>>
    BY <1>1, <1>2, <1>3 DEF SocketIs
  <2>2. QED
    BY <2>1
<1>5. b[1] = c[1] /\ o = u
  BY <1>2, <1>3, <1>4 DEF SocketIs
<1>6. PICK R : R = DOMAIN SocketOffset
  OBVIOUS
<1>7. b \in R \X (0..5) /\ c \in R \X (0..5)
  BY <1>6 DEF SocketByte
<1>8. o + b[2] = o + c[2]
  BY <1>2, <1>3, <1>4, <1>5 DEF SocketIs
<1>9. b = c
  BY <1>5, <1>7, <1>8, SameByte
<1>10. n = m
  BY <1>4 DEF Sn
<1>11. QED
  BY <1>9, <1>10

LEMMA BlocksAreApart ==
  ASSUME NEW write \in BOOLEAN
  PROVE  BlocksApart(write)
<1>1. ASSUME NEW b \in CommonByte PROVE CommonPlace(b, write)[1] = 0
  <2>1. PICK p \in Nat : CommonPlace(b, write) = <<0, p>>
    BY CommonPlaces DEF CommonIs
  <2>2. QED
    BY <2>1
<1>2. ASSUME NEW n \in Sn, NEW b \in SocketByte PROVE SocketPlace(n, b, write)[1] = 1 + 4*n
  <2>1. PICK p \in Nat : SocketPlace(n, b, write) = <<1 + 4*n, p>>
    BY SocketPlaces DEF SocketIs
  <2>2. QED
    BY <2>1
<1>3. ASSUME NEW n \in Sn PROVE 1 + 4*n # 0 /\ 1 + 4*n \notin BufferBlocks
  BY DEF Sn, BufferBlocks, TXBUF, RXBUF
<1>4. 0 \notin BufferBlocks
  BY DEF Sn, BufferBlocks, TXBUF, RXBUF
<1>5. ASSUME NEW b \in CommonByte, NEW n \in Sn, NEW c \in SocketByte
      PROVE  CommonPlace(b, write) # SocketPlace(n, c, write)
  BY <1>1, <1>2, <1>3
<1>6. QED
  BY <1>1, <1>2, <1>3, <1>4, <1>5 DEF BlocksApart

LEMMA BuffersAreReached ==
  ASSUME NEW write \in BOOLEAN
  PROVE  BuffersReached(write)
<1>1. SUFFICES ASSUME NEW block \in BufferBlocks, NEW ptr \in 0..UINT16_MAX
               PROVE  Selected(Opening(AddrSel(block, ptr), write)) = <<block, ptr>>
  BY DEF BuffersReached
<1>2. block \in 0..31
  BY DEF BufferBlocks, TXBUF, RXBUF, Sn
<1>3. ptr \in Nat /\ ptr < 65536
  <2>1. UINT16_MAX \in Nat /\ UINT16_MAX < 65536
    BY DEF UINT16_MAX
  <2>2. QED
    BY <2>1
<1>4. QED
  BY <1>2, <1>3 DEF AddrSel, Selected, Opening

LEMMA ResultsApart == State["ESTABLISHED"] \notin {Result[r] : r \in DOMAIN Result}
<1>1. State["ESTABLISHED"] = 23
  BY DEF State
<1>2. ASSUME NEW r \in DOMAIN Result PROVE Result[r] =< 1 /\ Result[r] \in Int
  BY DEF Result
<1>3. QED
  BY <1>1, <1>2

(* Every byte of every register, of the common ones and of every socket's, *)
(* has an address of its own, and none is in a buffer; the pointers of the *)
(* buffers reach every byte of them; and no result of the library passes   *)
(* for SOCK_ESTABLISHED.                                                   *)
THEOREM MapIsUnambiguous == StreamSpec => []MapUnambiguous
<1>1. MapUnambiguous
  <2>1. AllApart
    BY CommonsApart, SocketsAreApart, BlocksAreApart, BuffersAreReached DEF AllApart
  <2>2. QED
    BY <2>1, ResultsApart DEF MapUnambiguous, Apart
<1>2. QED
  BY <1>1, PTL
=============================================================================
