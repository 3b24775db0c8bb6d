----------------------------- MODULE MenuProofs ------------------------------
(***************************************************************************)
(* Proofs about Menu for passcodes of any length and any ten minutes:      *)
(* where in the tree the panel can be, and from it type correctness, the   *)
(* gate of the passcodes, that the page shown is that of the position, the *)
(* lock of an unattended panel, and that the menu implements Panel; then   *)
(* about Display, for the passcodes of up to four places that its columns  *)
(* have room for: what is printed and where the cursor stands.             *)
(***************************************************************************)
EXTENDS Display, FiniteSetTheorems, TLAPS

Stages == 0..2
Tops == 0..3
Indices == (0..6) \cup {None}
Modes == {"shopping", "setting"}
Column == 0..255
Record == [stage : Stages, top : Tops, sub : Indices, item : Indices, page : Page,
           mode : Modes, x : Column, level : Stages]

(* The places of the tree.  What lies below SETTING depends on the level   *)
(* of the passcode; everything else is reached without one.                *)
Root(m) == m.stage = 0 /\ m.sub = None /\ m.item = None /\ m.level = 0
Locked(m) ==
  /\ m.top = Setting /\ m.stage = 1 /\ m.level = 0
  /\ m.sub = None /\ m.item = None
Group(m) ==
  /\ m.top = Setting /\ m.stage = 1 /\ m.level \in 1..2
  /\ m.sub \in 0..2 * m.level - 1 /\ m.item = None
Leaf(m) ==
  /\ m.top = Setting /\ m.stage = 2 /\ m.level \in 1..2
  /\ m.sub \in 0..2 * m.level - 1 /\ m.item \in 0..SizeOf(m.sub) - 1
Measure(m) ==
  /\ m.top = Measurement /\ m.stage = 1 /\ m.level = 0
  /\ m.sub \in 0..6 /\ m.item = None
Events(m) ==
  /\ m.top = EventList /\ m.stage = 1 /\ m.level = 0
  /\ m.sub \in {0, 1, None} /\ m.item = None
Viewer(m) ==
  /\ m.top = EventList /\ m.stage = 2 /\ m.level = 0
  /\ m.sub \in {0, 1, None} /\ m.item = 0

Position(m) ==
  \/ Root(m) \/ Locked(m) \/ Group(m) \/ Leaf(m)
  \/ Measure(m) \/ Events(m) \/ Viewer(m)

(* Locked settings as the buttons leave them, before getMenu sets the      *)
(* index back.                                                             *)
Entry(m) ==
  /\ m.top = Setting /\ m.stage = 1 /\ m.level = 0
  /\ m.item = None /\ m.page \in {1, 14}

(* The page of each place.                                                 *)
Place2Page(m, p) ==
  /\ Root(m) => p = m.top
  /\ Locked(m) => p = 14
  /\ Group(m) => p = 13 - m.sub
  /\ Leaf(m) => p = ItemPage(m.sub, m.item)
  /\ Measure(m) => p = 20 + m.sub
  /\ Events(m) => p = IF m.sub = None THEN 3 ELSE 30 + m.sub
  /\ Viewer(m) => p = IF m.sub = 0 THEN 301 ELSE 0

OnPage(m) == m \in Record /\ Position(m) /\ Place2Page(m, m.page)

USE DEF HeadLine, Setting, Measurement, EventList

LEMMA FieldTypes ==
  ASSUME NEW m \in Record
  PROVE  /\ m.stage \in 0..2 /\ m.top \in 0..3 /\ m.level \in 0..2
         /\ m.sub \in (0..6) \cup {None} /\ m.item \in (0..6) \cup {None}
         /\ m.x \in 0..255 /\ m.mode \in {"shopping", "setting"}
  BY DEF Record, Stages, Tops, Indices, Column, Modes

LEMMA Members ==
  /\ None \in Indices /\ 0 \in Indices
  /\ 0 \in Stages /\ 1 \in Stages /\ 2 \in Stages
  BY DEF Indices, Stages

LEMMA NoIndex == None = 255
  BY DEF None

-----------------------------------------------------------------------------
(* getMenu gives each place its page.                                      *)

LEMMA Sizes ==
  /\ SizeOf(0) = 2 /\ SizeOf(1) = 7 /\ SizeOf(2) = 2 /\ SizeOf(3) = 6
  BY DEF SizeOf

LEMMA PageOfPosition ==
  ASSUME NEW m \in Record, Position(m), Locked(m) => m.page \in {1, 14}
  PROVE  Place2Page(m, PageOf(m))
<1>1. Root(m) => PageOf(m) = m.top
  BY FieldTypes, NoIndex DEF Record, Stages, Tops, Indices, Column, Modes, Root, PageOf
<1>2. Locked(m) => PageOf(m) = 14
  BY DEF Locked, PageOf
<1>3. Group(m) => PageOf(m) = 13 - m.sub
  <2> SUFFICES ASSUME Group(m)
               PROVE  PageOf(m) = 13 - m.sub
    OBVIOUS
  <2>1. m.top = Setting /\ m.level # 0 /\ m.sub \in 0..3 /\ m.item = None
    BY DEF Group
  <2>2. None \notin 0..SizeOf(m.sub) - 1
    BY <2>1, Sizes, NoIndex
  <2>3. QED
    BY <2>1, <2>2 DEF PageOf
<1>4. Leaf(m) => PageOf(m) = ItemPage(m.sub, m.item)
  <2> SUFFICES ASSUME Leaf(m)
               PROVE  PageOf(m) = ItemPage(m.sub, m.item)
    OBVIOUS
  <2>1. /\ m.top = Setting /\ m.level # 0 /\ m.sub \in 0..3
        /\ m.item \in 0..SizeOf(m.sub) - 1 /\ m.item # None
    <3>1. m.sub \in 0..3 /\ m.top = Setting /\ m.level # 0
      BY DEF Leaf
    <3>2. SizeOf(m.sub) \in 0..7
      BY <3>1, Sizes
    <3>3. QED
      BY <3>1, <3>2, NoIndex DEF Leaf
  <2>2. QED
    BY <2>1 DEF PageOf
<1>5. Measure(m) => PageOf(m) = 20 + m.sub
  BY DEF Record, Measure, PageOf
<1>6. Events(m) => PageOf(m) = IF m.sub = None THEN 3 ELSE 30 + m.sub
  BY NoIndex DEF Record, Events, PageOf
<1>7. Viewer(m) => PageOf(m) = IF m.sub = 0 THEN 301 ELSE 0
  BY NoIndex DEF Record, Viewer, PageOf
<1>8. QED
  BY <1>1, <1>2, <1>3, <1>4, <1>5, <1>6, <1>7 DEF Place2Page

LEMMA PageOfEntry ==
  ASSUME NEW m, Entry(m)
  PROVE  PageOf(m) = 14
  BY DEF Entry, PageOf

(* Every page has a number of Page.                                        *)
LEMMA PageType ==
  ASSUME NEW m \in Record, Position(m), NEW p, Place2Page(m, p)
  PROVE  p \in Page
<1> USE DEF Page, SensorPage, ModePage, NetworkPage, ClockPage
<1>1. CASE Root(m)
  BY <1>1, FieldTypes DEF Place2Page, Record, Stages, Tops, Indices, Column, Modes
<1>2. CASE Locked(m)
  BY <1>2 DEF Place2Page
<1>3. CASE Group(m)
  BY <1>3 DEF Place2Page, Group
<1>4. CASE Leaf(m)
  <2>1. p = ItemPage(m.sub, m.item)
    BY <1>4 DEF Place2Page
  <2>2. CASE m.sub = 0
    BY <1>4, <2>1, <2>2, Sizes DEF Leaf, ItemPage
  <2>3. CASE m.sub = 1
    BY <1>4, <2>1, <2>3, Sizes DEF Leaf, ItemPage
  <2>4. CASE m.sub = 2
    BY <1>4, <2>1, <2>4, Sizes DEF Leaf, ItemPage
  <2>5. CASE m.sub = 3
    BY <1>4, <2>1, <2>5, Sizes DEF Leaf, ItemPage
  <2>6. m.sub \in 0..3
    BY <1>4 DEF Leaf
  <2>7. QED
    BY <2>2, <2>3, <2>4, <2>5, <2>6
<1>5. CASE Measure(m)
  BY <1>5 DEF Place2Page, Measure
<1>6. CASE Events(m)
  BY <1>6 DEF Place2Page, Events
<1>7. CASE Viewer(m)
  BY <1>7 DEF Place2Page, Viewer
<1>8. QED
  BY <1>1, <1>2, <1>3, <1>4, <1>5, <1>6, <1>7 DEF Position

LEMMA PutPage ==
  ASSUME NEW m \in Record, NEW p \in Page, NEW u \in Indices
  PROVE  [m EXCEPT !.page = p, !.sub = u] \in Record
  BY DEF Record

(* What Show leaves alone.                                                 *)
LEMMA ShowFields ==
  ASSUME NEW m \in Record
  PROVE  /\ Show(m).page = PageOf(m)
         /\ Show(m).stage = m.stage /\ Show(m).top = m.top
         /\ Show(m).item = m.item /\ Show(m).level = m.level
         /\ Show(m).mode = m.mode /\ Show(m).x = m.x
         /\ Show(m).sub = IF m.top = Setting /\ m.level = 0 /\ PageOf(m) # 0
                          THEN None ELSE m.sub
         /\ (PageOf(m) \in Page => Show(m) \in Record)
<1> DEFINE s == IF m.top = Setting /\ m.level = 0 /\ PageOf(m) # 0
                THEN None ELSE m.sub
<1>1. Show(m) = [m EXCEPT !.page = PageOf(m), !.sub = s]
  BY DEF Show
<1>2. s \in Indices
  BY FieldTypes DEF Record, Stages, Tops, Indices, Column, Modes
<1> HIDE DEF s
<1>3. /\ Show(m).page = PageOf(m)
      /\ Show(m).stage = m.stage /\ Show(m).top = m.top
      /\ Show(m).item = m.item /\ Show(m).level = m.level
      /\ Show(m).mode = m.mode /\ Show(m).x = m.x
      /\ Show(m).sub = s
  BY <1>1 DEF Record
<1>4. PageOf(m) \in Page => Show(m) \in Record
  <2> SUFFICES ASSUME PageOf(m) \in Page
               PROVE  [m EXCEPT !.page = PageOf(m), !.sub = s] \in Record
    BY <1>1
  <2>1. \A p \in Page, u \in Indices :
          [m EXCEPT !.page = p, !.sub = u] \in Record
    BY PutPage
  <2>2. QED
    BY <1>2, <2>1, Zenon
<1>5. QED
  BY <1>3, <1>4 DEF s

(* Whatever place the buttons lead to, its page is shown.                  *)
LEMMA ShowOnPage ==
  ASSUME NEW m \in Record, Position(m) \/ Entry(m), Locked(m) => Entry(m)
  PROVE  OnPage(Show(m))
<1>1. CASE Entry(m)
  <2>1. PageOf(m) = 14 /\ 14 \in Page
    BY <1>1, PageOfEntry DEF Page
  <2>2. Locked(Show(m)) /\ Show(m).page = 14 /\ Show(m) \in Record
    BY <1>1, <2>1, ShowFields DEF Entry, Locked
  <2>3. Place2Page(Show(m), 14)
    BY <2>2 DEF Place2Page, Root, Locked, Group, Leaf, Measure, Events, Viewer
  <2>4. QED
    BY <2>2, <2>3 DEF OnPage, Position
<1>2. CASE ~Entry(m)
  <2>1. Place2Page(m, PageOf(m)) /\ PageOf(m) \in Page
    BY <1>2, PageOfPosition, PageType
  <2>2. m.top = Setting /\ m.level = 0 => m.sub = None
    BY <1>2 DEF Position, Root, Locked, Group, Leaf, Measure, Events, Viewer
  <2> DEFINE s == Show(m)
  <2>3. /\ s.stage = m.stage /\ s.top = m.top /\ s.sub = m.sub
        /\ s.item = m.item /\ s.level = m.level /\ s.page = PageOf(m)
        /\ s \in Record
    BY <2>1, <2>2, ShowFields
  <2> HIDE DEF s
  <2>4. /\ Root(s) <=> Root(m)
        /\ Locked(s) <=> Locked(m)
        /\ Group(s) <=> Group(m)
        /\ Leaf(s) <=> Leaf(m)
        /\ Measure(s) <=> Measure(m)
        /\ Events(s) <=> Events(m)
        /\ Viewer(s) <=> Viewer(m)
    BY <2>3 DEF Root, Locked, Group, Leaf, Measure, Events, Viewer
  <2>5. Position(s)
    BY <1>2, <2>4 DEF Position
  <2>6. Place2Page(s, s.page)
    BY <2>1, <2>3, <2>4 DEF Place2Page
  <2>7. QED
    BY <2>3, <2>5, <2>6 DEF OnPage, s
<1>3. QED
  BY <1>1, <1>2

-----------------------------------------------------------------------------
(* The buttons lead from place to place.                                   *)

LEMMA PutX ==
  ASSUME NEW m \in Record, NEW x \in 0..255
  PROVE  [m EXCEPT !.x = x] \in Record
  BY FieldTypes DEF Record, Stages, Tops, Indices, Column, Modes

LEMMA PutMode ==
  ASSUME NEW m \in Record, NEW mode \in {"shopping", "setting"}
  PROVE  [m EXCEPT !.mode = mode] \in Record
  BY FieldTypes DEF Record, Stages, Tops, Indices, Column, Modes

(* A record with the fields of a place is at it.                           *)
LEMMA SamePlace ==
  ASSUME NEW m, NEW n,
         n.stage = m.stage, n.top = m.top, n.sub = m.sub, n.item = m.item,
         n.level = m.level
  PROVE  /\ Root(n) <=> Root(m)
         /\ Locked(n) <=> Locked(m)
         /\ Group(n) <=> Group(m)
         /\ Leaf(n) <=> Leaf(m)
         /\ Measure(n) <=> Measure(m)
         /\ Events(n) <=> Events(m)
         /\ Viewer(n) <=> Viewer(m)
         /\ \A p : Place2Page(n, p) <=> Place2Page(m, p)
<1>1. /\ Root(n) <=> Root(m)
      /\ Locked(n) <=> Locked(m)
      /\ Group(n) <=> Group(m)
      /\ Leaf(n) <=> Leaf(m)
      /\ Measure(n) <=> Measure(m)
      /\ Events(n) <=> Events(m)
      /\ Viewer(n) <=> Viewer(m)
  BY DEF Root, Locked, Group, Leaf, Measure, Events, Viewer
<1>2. ASSUME NEW p
      PROVE  Place2Page(n, p) <=> Place2Page(m, p)
  BY <1>1 DEF Place2Page
<1>3. QED
  BY <1>1, <1>2

(* UP and DOWN go round the entries of the place.                          *)
LEMMA SelectPlace ==
  ASSUME NEW m \in Record, OnPage(m), NEW i,
         Locked(m) => i \in 0..6, ~Locked(m) => i \in 0..Entries(m) - 1
  PROVE  LET n == Select(m, i)
         IN /\ n \in Record /\ (Position(n) \/ Entry(n)) /\ (Locked(n) => Entry(n))
            /\ n.stage = m.stage /\ n.level = m.level /\ n.mode = m.mode
<1> DEFINE n == Select(m, i)
<1>k. n.stage = m.stage /\ n.level = m.level /\ n.mode = m.mode
  <2>1. CASE m.stage = 0
    BY <2>1 DEF Select, Record
  <2>2. CASE m.stage = 1
    BY <2>2 DEF Select, PutIndex, Record
  <2>3. CASE m.stage = 2
    BY <2>3 DEF Select, PutIndex, Record
  <2>4. QED
    BY <2>1, <2>2, <2>3, FieldTypes
<1>1. CASE Root(m)
  <2>1. Entries(m) = 4 /\ m.stage = 0 /\ ~Locked(m)
    BY <1>1 DEF Root, Entries, Locked
  <2>2. n = [m EXCEPT !.top = i, !.sub = None, !.item = None] /\ i \in 0..3
    BY <2>1 DEF Select
  <2>3. i \in Tops
    BY <2>2 DEF Tops
  <2>6. n \in Record
    BY <2>2, <2>3, Members DEF Record
  <2>4. n.stage = 0 /\ n.sub = None /\ n.item = None /\ n.level = 0
    BY <1>1, <2>2 DEF Record, Root
  <2>5. QED
    BY <1>k, <2>4, <2>6 DEF Position, Root, Locked
<1>2. CASE Locked(m)
  <2>1. m.stage = 1 /\ m.page = 14 /\ i \in 0..6
    BY <1>2 DEF Locked, OnPage, Place2Page
  <2>2. n = [m EXCEPT !.sub = i]
    BY <2>1 DEF Select, PutIndex
  <2>3. n \in Record /\ Entry(n)
    BY <1>2, <2>1, <2>2, FieldTypes DEF Record, Stages, Tops, Indices, Column, Modes, Locked, Entry
  <2>4. QED
    BY <1>k, <2>3
<1>3. CASE Group(m)
  <2>1. m.stage = 1 /\ i \in 0..2 * m.level - 1 /\ m.level \in 1..2 /\ m.top = Setting
    BY <1>3 DEF Group, Entries, Locked
  <2>2. n = [m EXCEPT !.sub = i]
    BY <2>1 DEF Select, PutIndex
  <2>3. n \in Record
    BY <2>1, <2>2, FieldTypes DEF Record, Stages, Tops, Indices, Column, Modes
  <2>4. Group(n)
    BY <1>3, <2>1, <2>2 DEF Record, Group
  <2>5. QED
    BY <1>k, <2>3, <2>4 DEF Position, Group, Locked
<1>4. CASE Leaf(m)
  <2>1. m.stage = 2 /\ m.sub \in 0..3 /\ m.top = Setting
    BY <1>4 DEF Leaf
  <2>2. i \in 0..SizeOf(m.sub) - 1
    BY <1>4, <2>1 DEF Leaf, Entries, Locked
  <2>3. n = [m EXCEPT !.item = i]
    BY <2>1 DEF Select, PutIndex
  <2>4. SizeOf(m.sub) \in 0..7
    BY <2>1, Sizes
  <2>5. n \in Record
    BY <2>2, <2>3, <2>4, FieldTypes DEF Record, Stages, Tops, Indices, Column, Modes
  <2>6. Leaf(n)
    BY <1>4, <2>2, <2>3 DEF Record, Leaf
  <2>7. QED
    BY <1>k, <2>5, <2>6 DEF Position, Leaf, Locked
<1>5. CASE Measure(m)
  <2>1. m.stage = 1 /\ i \in 0..6
    BY <1>5 DEF Measure, Entries, Locked
  <2>2. n = [m EXCEPT !.sub = i]
    BY <2>1 DEF Select, PutIndex
  <2>3. n \in Record /\ Measure(n)
    BY <1>5, <2>1, <2>2, FieldTypes DEF Record, Stages, Tops, Indices, Column, Modes, Measure
  <2>4. QED
    BY <1>k, <2>3 DEF Position, Measure, Locked
<1>6. CASE Events(m)
  <2>1. m.stage = 1 /\ i \in 0..1
    BY <1>6 DEF Events, Entries, Locked
  <2>2. n = [m EXCEPT !.sub = i]
    BY <2>1 DEF Select, PutIndex
  <2>3. n \in Record /\ Events(n)
    BY <1>6, <2>1, <2>2, FieldTypes DEF Record, Stages, Tops, Indices, Column, Modes, Events
  <2>4. QED
    BY <1>k, <2>3 DEF Position, Events, Locked
<1>7. CASE Viewer(m)
  <2>1. m.stage = 2 /\ i = 0
    BY <1>7 DEF Viewer, Entries, Locked
  <2>2. n = [m EXCEPT !.item = 0]
    BY <2>1 DEF Select, PutIndex
  <2>3. n \in Record /\ Viewer(n)
    BY <1>7, <2>1, <2>2 DEF Record, Viewer
  <2>4. QED
    BY <1>k, <2>3 DEF Position, Viewer, Locked
<1>8. QED
  BY <1>1, <1>2, <1>3, <1>4, <1>5, <1>6, <1>7 DEF OnPage, Position

LEMMA UpDownPlace ==
  ASSUME NEW m \in Record, OnPage(m), NEW n \in {MoveUp(m), MoveDown(m)}
  PROVE  /\ n \in Record /\ (Position(n) \/ Entry(n)) /\ (Locked(n) => Entry(n))
         /\ n.stage = m.stage /\ n.level = m.level /\ n.mode = m.mode
<1> DEFINE up == IF Index(m) = None THEN 0
                 ELSE IF Index(m) = 0 THEN Entries(m) - 1 ELSE Index(m) - 1
           down == IF Index(m) = None THEN 0 ELSE (Index(m) + 1) % Entries(m)
<1>1. Locked(m) => up = 0 /\ down = 0
  BY DEF Locked, Index
<1>2. ASSUME ~Locked(m)
      PROVE  /\ Entries(m) \in 1..7
             /\ Index(m) = None \/ Index(m) \in 0..Entries(m) - 1
  <2>1. CASE Root(m)
    BY <2>1, FieldTypes DEF Root, Entries, Index, Record, Stages, Tops, Indices, Column, Modes
  <2>2. CASE Group(m)
    BY <2>2 DEF Group, Entries, Index, Record
  <2>3. CASE Leaf(m)
    <3>1. m.sub \in 0..3 /\ m.stage = 2 /\ m.top = Setting
      BY <2>3 DEF Leaf
    <3>2. Entries(m) = SizeOf(m.sub) /\ Index(m) = m.item
      BY <3>1 DEF Entries, Index
    <3>3. SizeOf(m.sub) \in 1..7
      BY <3>1, Sizes
    <3>4. QED
      BY <2>3, <3>2, <3>3 DEF Leaf
  <2>4. CASE Measure(m)
    BY <2>4 DEF Measure, Entries, Index, Record
  <2>5. CASE Events(m)
    BY <2>5 DEF Events, Entries, Index, Record
  <2>6. CASE Viewer(m)
    BY <2>6 DEF Viewer, Entries, Index, Record
  <2>7. QED
    BY <1>2, <2>1, <2>2, <2>3, <2>4, <2>5, <2>6 DEF OnPage, Position
<1>3. ASSUME ~Locked(m)
      PROVE  up \in 0..Entries(m) - 1 /\ down \in 0..Entries(m) - 1
  <2> DEFINE e == Entries(m)
             k == Index(m)
  <2>1. e \in 1..7 /\ (k = None \/ k \in 0..e - 1)
    BY <1>2, <1>3
  <2> HIDE DEF e, k
  <2>2. /\ (IF k = None THEN 0 ELSE IF k = 0 THEN e - 1 ELSE k - 1) \in 0..e - 1
        /\ (IF k = None THEN 0 ELSE (k + 1) % e) \in 0..e - 1
    BY <2>1
  <2>3. QED
    BY <2>2 DEF e, k
<1>4. n \in {Select(m, up), Select(m, down)}
  BY DEF MoveUp, MoveDown
<1> HIDE DEF up, down
<1>5. QED
  BY <1>1, <1>3, <1>4, SelectPlace

(* RIGHT leads deeper as far as there is something; LEFT leads back.       *)
Step(m) == IF m.stage + 1 >= Deepest(m) THEN Deepest(m) ELSE m.stage + 1

LEMMA RightMoves ==
  ASSUME NEW m \in Record
  PROVE  LET n == MoveRight(m)
         IN /\ n \in Record /\ n.top = m.top /\ n.level = m.level
            /\ n.mode = m.mode /\ n.page = m.page /\ n.stage = Step(m)
            /\ Step(m) \in 0..2
            /\ Step(m) = 0 => n.sub = None /\ n.item = None
            /\ Step(m) = 1 => n.sub = (IF m.sub = None THEN 0 ELSE m.sub) /\ n.item = None
            /\ Step(m) = 2 => n.sub = m.sub /\ n.item = IF m.item = None THEN 0 ELSE m.item
<1> DEFINE n == MoveRight(m)
           s == Step(m)
           u == IF m.sub = None THEN 0 ELSE m.sub
           v == IF m.item = None THEN 0 ELSE m.item
           top == [m EXCEPT !.stage = s, !.sub = None, !.item = None]
           mid == [m EXCEPT !.stage = s, !.item = None, !.sub = u]
           low == [m EXCEPT !.stage = s, !.item = v]
<1>1. s \in 0..2
  BY FieldTypes DEF Step, Deepest, Record, Stages, Tops, Indices, Column, Modes
<1>2. n = CASE s = 0 -> top [] s = 1 -> mid [] s = 2 -> low
  BY Zenon DEF MoveRight, Step
<1>3. u \in Indices /\ v \in Indices /\ s \in Stages
  BY <1>1, Members DEF Record, Stages
<1>4. /\ s = 0 => n = top
      /\ s = 1 => n = mid
      /\ s = 2 => n = low
  <2> HIDE DEF n, s, top, mid, low
  <2>1. QED
    BY <1>2
<1> HIDE DEF n, u, v, s
<1>5. CASE s = 0
  <2>1. /\ n \in Record /\ n.top = m.top /\ n.level = m.level /\ n.mode = m.mode
        /\ n.page = m.page /\ n.stage = s /\ n.sub = None /\ n.item = None
    BY <1>3, <1>4, <1>5, Members DEF Record
  <2>2. QED
    BY <1>5, <2>1 DEF n, s
<1>6. CASE s = 1
  <2>1. /\ n \in Record /\ n.top = m.top /\ n.level = m.level /\ n.mode = m.mode
        /\ n.page = m.page /\ n.stage = s /\ n.sub = u /\ n.item = None
    BY <1>3, <1>4, <1>6, Members DEF Record
  <2>2. QED
    BY <1>6, <2>1 DEF n, s, u
<1>7. CASE s = 2
  <2>1. /\ n \in Record /\ n.top = m.top /\ n.level = m.level /\ n.mode = m.mode
        /\ n.page = m.page /\ n.stage = s /\ n.sub = m.sub /\ n.item = v
    BY <1>3, <1>4, <1>7, Members DEF Record
  <2>2. QED
    BY <1>7, <2>1 DEF n, s, v
<1>8. QED
  BY <1>1, <1>5, <1>6, <1>7

LEMMA RightPlace ==
  ASSUME NEW m \in Record, OnPage(m)
  PROVE  LET n == MoveRight(m)
         IN /\ n \in Record /\ (Position(n) \/ Entry(n)) /\ (Locked(n) => Entry(n))
            /\ n.mode = m.mode /\ n.page = m.page /\ n.level = m.level
            /\ n.stage = 0 => m.stage = 0
<1> DEFINE n == MoveRight(m)
           s == Step(m)
<1>m. /\ n \in Record /\ n.top = m.top /\ n.level = m.level
      /\ n.mode = m.mode /\ n.page = m.page /\ n.stage = s
      /\ s = 0 => n.sub = None /\ n.item = None
      /\ s = 1 => n.sub = (IF m.sub = None THEN 0 ELSE m.sub) /\ n.item = None
      /\ s = 2 => n.sub = m.sub /\ n.item = IF m.item = None THEN 0 ELSE m.item
  BY RightMoves
<1>5. s = IF m.stage + 1 >= Deepest(m) THEN Deepest(m) ELSE m.stage + 1
  BY DEF Step
<1> HIDE DEF n, s
<1>6. CASE Root(m)
  <2>1. ASSUME m.top = 0
        PROVE  Position(n) \/ Entry(n)
    BY <1>m, <1>5, <1>6, <2>1 DEF Deepest, Root, Position, Locked
  <2>2. ASSUME m.top = 1
        PROVE  Position(n) \/ Entry(n)
    BY <1>m, <1>5, <1>6, <2>2 DEF Deepest, Root, Entry, OnPage, Place2Page
  <2>3. ASSUME m.top = 2
        PROVE  Position(n) \/ Entry(n)
    BY <1>m, <1>5, <1>6, <2>3 DEF Deepest, Root, Measure, Position, Locked
  <2>4. ASSUME m.top = 3
        PROVE  Position(n) \/ Entry(n)
    BY <1>m, <1>5, <1>6, <2>4 DEF Deepest, Root, Events, Position, Locked
  <2>5. m.top \in 0..3
    BY FieldTypes DEF Record, Stages, Tops, Indices, Column, Modes
  <2>6. Position(n) \/ Entry(n)
    BY <2>1, <2>2, <2>3, <2>4, <2>5
  <2>7. Locked(n) => Entry(n)
    BY <1>m, <1>5, <1>6, <2>5 DEF Deepest, Root, Locked, Entry, OnPage, Place2Page
  <2>8. QED
    BY <1>m, <1>6, <2>6, <2>7 DEF n, Root
<1>7. CASE Locked(m)
  <2>1. Entry(n)
    BY <1>m, <1>5, <1>7 DEF Deepest, Locked, Entry, OnPage, Place2Page
  <2>2. QED
    BY <1>m, <2>1 DEF n, Entry
<1>8. CASE Group(m)
  <2>1. s = 2
    BY <1>5, <1>8 DEF Deepest, Group
  <2>2. SizeOf(m.sub) \in 2..7
    BY <1>8, Sizes DEF Group
  <2>3. Leaf(n)
    BY <1>m, <1>8, <2>1, <2>2 DEF Leaf, Group
  <2>4. QED
    BY <1>m, <2>3 DEF n, Position, Leaf, Locked
<1>9. CASE Leaf(m)
  <2>1. s = 2
    BY <1>5, <1>9 DEF Deepest, Leaf
  <2>2. SizeOf(m.sub) \in 2..7
    BY <1>9, Sizes DEF Leaf
  <2>3. Leaf(n)
    BY <1>m, <1>9, <2>1, <2>2 DEF Leaf
  <2>4. QED
    BY <1>m, <2>3 DEF n, Position, Leaf, Locked
<1>10. CASE Measure(m)
  <2>1. Measure(n)
    BY <1>m, <1>5, <1>10 DEF Deepest, Measure
  <2>2. QED
    BY <1>m, <2>1 DEF n, Position, Measure, Locked
<1>11. CASE Events(m) \/ Viewer(m)
  <2>1. Viewer(n)
    BY <1>m, <1>5, <1>11 DEF Deepest, Events, Viewer
  <2>2. QED
    BY <1>m, <2>1 DEF n, Position, Viewer, Locked
<1>12. QED
  BY <1>6, <1>7, <1>8, <1>9, <1>10, <1>11 DEF OnPage, Position

LEMMA LeftPlace ==
  ASSUME NEW m \in Record, OnPage(m)
  PROVE  LET n == MoveLeft(m)
         IN /\ n \in Record /\ Position(n) /\ ~Locked(n) /\ n.mode = m.mode
            /\ n.level = m.level \/ (m.stage <= 1 /\ n.stage = 0)
<1> DEFINE n == MoveLeft(m)
<1>2. CASE m.stage <= 1
  <2>1. n = [m EXCEPT !.stage = 0, !.sub = None, !.item = None, !.level = 0]
    BY <1>2 DEF MoveLeft
  <2>2. n \in Record
    BY <2>1, Members DEF Record
  <2>3. Root(n) /\ ~Locked(n) /\ n.mode = m.mode
    BY <2>1 DEF Root, Locked, Record
  <2>4. QED
    BY <1>2, <2>2, <2>3 DEF Position, Root
<1>3. CASE m.stage = 2
  <2>1. n = [m EXCEPT !.stage = 1, !.item = None]
    BY <1>3 DEF MoveLeft
  <2>2. n \in Record
    BY <2>1, Members DEF Record
  <2>3. Leaf(m) \/ Viewer(m)
    BY <1>3 DEF OnPage, Position, Root, Locked, Group, Measure, Events
  <2>4. CASE Leaf(m)
    BY <2>1, <2>2, <2>4 DEF Leaf, Group, Locked, Position, Record
  <2>5. CASE Viewer(m)
    BY <2>1, <2>2, <2>5 DEF Viewer, Events, Locked, Position, Record
  <2>6. QED
    BY <2>3, <2>4, <2>5
<1>4. m.stage \in 0..2
  BY FieldTypes DEF Record, Stages, Tops, Indices, Column, Modes
<1>5. QED
  BY <1>2, <1>3, <1>4

-----------------------------------------------------------------------------
(* A place has one page.                                                   *)
LEMMA OnePage ==
  ASSUME NEW m, Position(m), NEW p, NEW q, Place2Page(m, p), Place2Page(m, q)
  PROVE  p = q
  BY DEF Position, Place2Page

LEMMA LeafPages ==
  ASSUME NEW m, Leaf(m)
  PROVE  /\ m.sub = 0 => ItemPage(m.sub, m.item) \in 130..131
         /\ m.sub = 1 => ItemPage(m.sub, m.item) \in 120..126
         /\ m.sub = 2 => ItemPage(m.sub, m.item) \in 110..111
         /\ m.sub = 3 => ItemPage(m.sub, m.item) \in 100..105
  BY Sizes DEF Leaf, ItemPage

(* What a page tells of the level and the depth.                           *)
LEMMA PageTells ==
  ASSUME NEW m, OnPage(m)
  PROVE  /\ m.page \in (10..13) \cup OnOff \cup NetworkPage \cup ClockPage
              => m.level # 0
         /\ m.page \in {10, 11} \cup OnOff => m.level = 2
         /\ m.level # 0 => m.top = Setting /\ m.page # 0 /\ m.stage # 0
         /\ m.page \in ClockPage => m.stage = 2
         /\ m.page = 14 => Locked(m)
         /\ m.page = 31 => Events(m)
<1> USE DEF OnOff, SensorPage, ModePage, NetworkPage, ClockPage
<1>1. CASE Root(m)
  BY <1>1, FieldTypes DEF OnPage, Place2Page, Root
<1>2. CASE Locked(m)
  BY <1>2 DEF OnPage, Place2Page, Locked
<1>3. CASE Group(m)
  BY <1>3 DEF OnPage, Place2Page, Group
<1>4. CASE Leaf(m)
  <2>1. m.page = ItemPage(m.sub, m.item)
    BY <1>4 DEF OnPage, Place2Page
  <2>2. m.sub \in 0..3 /\ m.stage = 2 /\ m.top = Setting /\ m.level \in 1..2
    BY <1>4 DEF Leaf
  <2>3. m.sub \in 0..2 * m.level - 1
    BY <1>4 DEF Leaf
  <2>4. m.page \in 100..131 /\ (m.page \in 100..111 => m.sub \in 2..3)
    BY <1>4, <2>1, <2>2, LeafPages
  <2>5. QED
    BY <2>2, <2>3, <2>4
<1>5. CASE Measure(m)
  BY <1>5 DEF OnPage, Place2Page, Measure
<1>6. CASE Events(m)
  BY <1>6, NoIndex DEF OnPage, Place2Page, Events
<1>7. CASE Viewer(m)
  BY <1>7 DEF OnPage, Place2Page, Viewer
<1>8. QED
  BY <1>1, <1>2, <1>3, <1>4, <1>5, <1>6, <1>7 DEF OnPage, Position

(* What holds of the record between two ticks: the page is that of the     *)
(* place, and while a value is set the cursor is on it.                    *)
Good(m) ==
  /\ OnPage(m)
  /\ m.mode = "setting" => IsSettingMenu(m.page) /\ m.x <= XLimit(m.page)

(* A step through the tree gives up a level only for the first stage.      *)
LevelKept(m, n) == n.level = m.level \/ (m.stage <= 1 /\ n.stage = 0)

LEMMA LimitType ==
  ASSUME NEW p
  PROVE  XLimit(p) \in 0..254
  BY CodeAssumption DEF XLimit, ClockPage, DigitPage

-----------------------------------------------------------------------------
(* menuProcess: from place to place, and into the setting mode on a page   *)
(* with a value.                                                           *)
LEMMA MovedPlace ==
  ASSUME NEW m \in Record, OnPage(m), m.mode = "shopping", NEW b
  PROVE  LET n == Moved(m, b)
         IN /\ n \in Record /\ (Position(n) \/ Entry(n)) /\ (Locked(n) => Entry(n))
            /\ LevelKept(m, n)
            /\ n.stage = 0 /\ b # "left" => m.stage = 0
            /\ n.mode = "setting" => b = "set" /\ IsSettingMenu(m.page) /\ n.x = m.x
            /\ b \notin {"up", "down", "left", "right"}
                 => Position(n) /\ Place2Page(n, m.page)
<1> DEFINE n == Moved(m, b)
<1>0. Locked(m) => Entry(m)
  BY DEF OnPage, Place2Page, Locked, Entry
<1>1. CASE b \in {"up", "down"}
  <2>1. n \in {MoveUp(m), MoveDown(m)}
    BY <1>1 DEF Moved
  <2> HIDE DEF n
  <2>2. QED
    BY <1>1, <2>1, UpDownPlace DEF n, LevelKept
<1>2. CASE b = "right"
  <2>1. n = MoveRight(m)
    BY <1>2 DEF Moved
  <2> HIDE DEF n
  <2>2. QED
    BY <1>2, <2>1, RightPlace DEF n, LevelKept
<1>3. CASE b = "left"
  <2>1. n = MoveLeft(m)
    BY <1>3 DEF Moved
  <2>2. QED
    BY <1>3, <2>1, LeftPlace DEF LevelKept
<1>4. CASE b \notin {"up", "down", "left", "right"}
  <2> DEFINE mode == IF b = "set" /\ IsSettingMenu(m.page) THEN "setting" ELSE "shopping"
  <2>1. n = [m EXCEPT !.mode = mode]
    <3>1. CASE b = "set"
      BY <3>1 DEF Moved
    <3>2. CASE b = "esc"
      BY <3>2 DEF Moved
    <3>3. CASE b \notin {"set", "esc"}
      <4>1. n = m
        BY <1>4, <3>3 DEF Moved
      <4>2. mode = m.mode
        BY <3>3
      <4> HIDE DEF mode
      <4>3. m = [m EXCEPT !.mode = m.mode]
        BY DEF Record
      <4>4. QED
        BY <4>1, <4>2, <4>3
    <3>4. QED
      BY <3>1, <3>2, <3>3
  <2>2. mode \in Modes
    BY DEF Modes
  <2>3. mode = "setting" => b = "set" /\ IsSettingMenu(m.page)
    OBVIOUS
  <2> HIDE DEF n, mode
  <2>4. /\ n \in Record /\ n.stage = m.stage /\ n.top = m.top /\ n.sub = m.sub
        /\ n.item = m.item /\ n.level = m.level /\ n.x = m.x /\ n.page = m.page
        /\ n.mode = mode
    BY <2>1, <2>2 DEF Record
  <2>5. /\ Position(n)
        /\ Locked(n) => Entry(n)
        /\ Place2Page(n, m.page)
    <3>1. \A p : Place2Page(n, p) <=> Place2Page(m, p)
      BY <2>4, SamePlace
    <3>2. Position(n) <=> Position(m)
      BY <2>4, SamePlace DEF Position
    <3>3. Locked(n) => Entry(n)
      BY <1>0, <2>4 DEF Locked, Entry
    <3>4. QED
      BY <3>1, <3>2, <3>3 DEF OnPage
  <2>6. QED
    BY <2>3, <2>4, <2>5 DEF LevelKept, n
<1>5. QED
  BY <1>1, <1>2, <1>3, <1>4

LEMMA MenuProcessGood ==
  ASSUME Good(m_menu), m_menu.mode = "shopping", NEW b
  PROVE  LET n == MenuProcess(b).menu
         IN /\ Good(n) /\ LevelKept(m_menu, n)
            /\ n.stage = 0 /\ b # "left" => m_menu.stage = 0
            /\ n.mode = "setting" \/ b = "none" => n.page = m_menu.page
            /\ n.mode = "setting" => b = "set"
<1> DEFINE m == [m_menu EXCEPT !.x = 0]
           r == Moved(m, b)
           n == Show(r)
<1>1. m_menu \in Record
  BY DEF Good, OnPage
<1>2. /\ m \in Record /\ m.mode = "shopping" /\ m.x = 0 /\ m.page = m_menu.page
      /\ m.stage = m_menu.stage /\ m.top = m_menu.top /\ m.sub = m_menu.sub
      /\ m.item = m_menu.item /\ m.level = m_menu.level
  <2>1. 0 \in Column
    BY DEF Column
  <2>2. QED
    BY <1>1, <2>1 DEF Record
<1> HIDE DEF m
<1>3. OnPage(m)
  <2>1. Position(m) <=> Position(m_menu)
    BY <1>2, SamePlace DEF Position
  <2>2. Place2Page(m, m.page) <=> Place2Page(m_menu, m_menu.page)
    BY <1>2, SamePlace
  <2>3. QED
    BY <1>2, <2>1, <2>2 DEF Good, OnPage
<1>4. /\ r \in Record /\ (Position(r) \/ Entry(r)) /\ (Locked(r) => Entry(r))
      /\ LevelKept(m, r)
      /\ r.stage = 0 /\ b # "left" => m.stage = 0
      /\ r.mode = "setting" => b = "set" /\ IsSettingMenu(m.page) /\ r.x = m.x
      /\ b \notin {"up", "down", "left", "right"}
           => Position(r) /\ Place2Page(r, m.page)
  BY <1>2, <1>3, MovedPlace
<1> HIDE DEF r
<1>5. OnPage(n)
  BY <1>4, ShowOnPage
<1>6. n.stage = r.stage /\ n.level = r.level /\ n.mode = r.mode /\ n.x = r.x
  BY <1>4, ShowFields
<1>7. ASSUME n.mode = "setting" \/ b = "none"
      PROVE  n.page = m_menu.page
  <2>1. Position(r) /\ Place2Page(r, m.page)
    BY <1>4, <1>6, <1>7
  <2>2. Locked(r) => r.page \in {1, 14}
    BY <1>4 DEF Entry
  <2>3. Place2Page(r, PageOf(r))
    BY <1>4, <2>1, <2>2, PageOfPosition
  <2>4. PageOf(r) = m.page
    BY <2>1, <2>3, OnePage
  <2>5. QED
    BY <1>2, <1>4, <2>4, ShowFields
<1>8. n.mode = "setting" => IsSettingMenu(n.page) /\ n.x <= XLimit(n.page)
  <2> SUFFICES ASSUME n.mode = "setting"
               PROVE  IsSettingMenu(n.page) /\ n.x <= XLimit(n.page)
    OBVIOUS
  <2>1. n.page = m_menu.page /\ n.x = 0
    BY <1>2, <1>4, <1>6, <1>7
  <2>2. IsSettingMenu(m.page)
    BY <1>4, <1>6
  <2>3. XLimit(n.page) \in 0..254
    BY LimitType
  <2>4. QED
    BY <1>2, <2>1, <2>2, <2>3
<1>9. MenuProcess(b).menu = n
  BY DEF MenuProcess, m, r
<1>10. LevelKept(m_menu, n)
  BY <1>2, <1>4, <1>6 DEF LevelKept
<1> HIDE DEF n
<1>11. QED
  BY <1>2, <1>4, <1>5, <1>6, <1>7, <1>8, <1>9, <1>10 DEF Good

-----------------------------------------------------------------------------
(* setProcess: the cursor, and the digits of a passcode.                   *)
Cleared(r) == r.menu.stage = 0 \/ r.cleared => r.menu.level = 0 /\ r.digits = Zeros

LEMMA TypedType ==
  ASSUME NEW m \in Record, m.x <= LastPlace, NEW t \in Digits, NEW b
  PROVE  Typed(m, t, b) \in Digits
<1>1. m.x \in Place
  BY FieldTypes, CodeAssumption DEF Place
<1>2. t[m.x] \in 0..Digit - 1
  BY <1>1 DEF Digits
<1> DEFINE d == (IF b = "up" THEN t[m.x] + 1 ELSE t[m.x] + Digit - 1) % Digit
<1>3. d \in 0..Digit - 1
  BY <1>2, CodeAssumption
<1> HIDE DEF d
<1>4. Typed(m, t, b) = [t EXCEPT ![m.x] = d]
  BY DEF Typed, d
<1>5. QED
  BY <1>1, <1>3, <1>4 DEF Digits

LEMMA ZerosType == Zeros \in Digits
  BY CodeAssumption DEF Zeros, Digits, Place

(* A passcode opens the settings or clears the log and is given up.        *)
AcceptedFrom(k, l, m, n) ==
  /\ OnPage(n) /\ n.mode = "shopping" /\ n.stage = 1
  /\ k.page = 14 => n.level = l /\ m.top = Setting
  /\ k.page = 31 => n.level = 0 /\ m.top = EventList

LEMMA AcceptGood ==
  ASSUME NEW k \in Record, OnPage(k), k.page \in DigitPage, NEW l \in 1..2,
         NEW m, m = [k EXCEPT !.level = l]
  PROVE  AcceptedFrom(k, l, m, Show(Accept(m)))
<1> USE DEF AcceptedFrom
<1>1. CASE k.page = 14
  <2>1. Locked(k)
    BY <1>1, PageTells
  <2>2. l \in Stages /\ "shopping" \in Modes
    BY DEF Stages, Modes
  <2>3. m \in Record /\ m.top = Setting /\ m.stage = 1 /\ m.item = None /\ m.level = l
    BY <2>1, <2>2 DEF Record, Locked
  <2> DEFINE q == [m EXCEPT !.mode = "shopping"]
             a == [q EXCEPT !.sub = 0]
  <2>4. q \in Record /\ q.stage = 1
    BY <2>2, <2>3 DEF Record
  <2>5. Accept(m) = a
    BY <2>3, <2>4 DEF Accept, PutIndex
  <2> HIDE DEF q
  <2>6. a \in Record /\ a.sub = 0 /\ a.stage = 1 /\ a.mode = "shopping"
        /\ a.top = Setting /\ a.level = l /\ a.item = None
    BY <2>3, <2>4, Members DEF Record, q
  <2> HIDE DEF a
  <2>7. Group(a)
    BY <2>6 DEF Group
  <2>8. QED
    BY <1>1, <2>3, <2>5, <2>6, <2>7, ShowOnPage, ShowFields DEF Position, Group, Locked
<1>2. CASE k.page = 31
  <2>1. Events(k)
    BY <1>2, PageTells
  <2>2. l \in Stages /\ "shopping" \in Modes
    BY DEF Stages, Modes
  <2>3. m \in Record /\ m.top = EventList /\ m.stage = 1 /\ m.item = None
    BY <2>1, <2>2 DEF Record, Events
  <2> DEFINE q == [[m EXCEPT !.mode = "shopping"] EXCEPT !.level = 0]
             a == [q EXCEPT !.sub = None]
  <2>4. q \in Record /\ q.stage = 1
    BY <2>2, <2>3, Members DEF Record
  <2>5. Accept(m) = a
    BY <2>3, <2>4 DEF Accept, PutIndex
  <2> HIDE DEF q
  <2>6. a \in Record /\ a.sub = None /\ a.stage = 1 /\ a.mode = "shopping"
        /\ a.top = EventList /\ a.level = 0 /\ a.item = None
    BY <2>3, <2>4, Members DEF Record, q
  <2> HIDE DEF a
  <2>7. Events(a)
    BY <2>6 DEF Events
  <2>8. QED
    BY <1>2, <2>3, <2>5, <2>6, <2>7, ShowOnPage, ShowFields DEF Position, Events, Locked
<1>3. QED
  BY <1>1, <1>2 DEF DigitPage

(* What a handler of the tick must leave.                                  *)
Handled(r) ==
  /\ Good(r.menu) /\ r.digits \in Digits /\ r.cleared \in BOOLEAN
  /\ Cleared(r)

LEMMA TypeDigitGood ==
  ASSUME Good(m_menu), m_menu.mode = "setting", m_menu.page \in DigitPage,
         tPassCode \in Digits, NEW b
  PROVE  /\ Handled(TypeDigit(b))
         /\ TypeDigit(b).menu.mode = "setting"
              => TypeDigit(b).menu.page = m_menu.page
<1> DEFINE t == Typed(m_menu, tPassCode, b)
           l == LevelOf(t, m_menu.level)
           m == [m_menu EXCEPT !.level = l]
           hit == m.level # 0 /\ m.top = EventList
           r == TypeDigit(b)
<1>1. m_menu \in Record /\ OnPage(m_menu)
  BY DEF Good, OnPage
<1>2. XLimit(m_menu.page) = LastPlace
  BY DEF DigitPage, XLimit, ClockPage
<1>3. t \in Digits
  BY <1>1, <1>2, TypedType DEF Good
<1>4. m_menu.level = 0 /\ m_menu.stage = 1
  BY <1>1, PageTells DEF DigitPage, Locked, Events
<1>5. l \in 0..2
  BY <1>4 DEF LevelOf
<1>6. r = [menu    |-> IF m.level # 0 THEN Show(Accept(m)) ELSE m,
           digits  |-> IF hit THEN Zeros ELSE t,
           cleared |-> hit /\ b = "up"]
  BY Zenon DEF TypeDigit
<1> HIDE DEF t, l, r
<1>7. m.level = l /\ m.top = m_menu.top
  BY <1>1 DEF Record
<1>8. CASE l = 0
  <2>1. m = m_menu
    <3>1. m_menu = [m_menu EXCEPT !.level = m_menu.level]
      BY <1>1 DEF Record
    <3>2. QED
      BY <1>4, <1>8, <3>1
  <2> HIDE DEF m
  <2>2. r.menu = m_menu /\ r.digits = t /\ r.cleared = FALSE
    BY <1>6, <1>7, <1>8, <2>1
  <2>3. Handled(r)
    <3>1. r.menu.stage # 0
      BY <1>4, <2>2
    <3>2. QED
      BY <1>3, <2>2, <3>1, Zenon DEF Handled, Cleared
  <2>4. QED
    BY <2>2, <2>3 DEF r
<1>9. CASE l # 0
  <2> DEFINE n == Show(Accept(m))
  <2>1. l \in 1..2
    BY <1>5, <1>9
  <2>0. m = [m_menu EXCEPT !.level = l]
    OBVIOUS
  <2> HIDE DEF m
  <2>10. AcceptedFrom(m_menu, l, m, n)
    BY <1>1, <2>0, <2>1, AcceptGood, Zenon
  <2>2. /\ OnPage(n) /\ n.mode = "shopping" /\ n.stage = 1
        /\ m_menu.page = 14 => n.level = l /\ m.top = Setting
        /\ m_menu.page = 31 => n.level = 0 /\ m.top = EventList
    BY <2>10, Zenon DEF AcceptedFrom
  <2>3. r.menu = n /\ r.digits = (IF hit THEN Zeros ELSE t)
        /\ r.cleared = (hit /\ b = "up")
    BY <1>6, <1>7, <1>9
  <2> HIDE DEF n
  <2>4. hit => n.level = 0
    BY <2>2 DEF DigitPage
  <2>5. r.cleared => n.level = 0 /\ r.digits = Zeros
    BY <2>3, <2>4
  <2>6. r.digits \in Digits
    BY <1>3, <2>3, ZerosType, Zenon
  <2>7. r.cleared \in BOOLEAN
    BY <2>3, Zenon
  <2>8. Good(n)
    BY <2>2 DEF Good
  <2>9. QED
    BY <2>2, <2>3, <2>5, <2>6, <2>7, <2>8 DEF Handled, Cleared, r
<1>10. QED
  BY <1>8, <1>9

LEMMA SetProcessGood ==
  ASSUME Good(m_menu), m_menu.mode = "setting", tPassCode \in Digits, NEW b
  PROVE  LET r == SetProcess(b)
         IN /\ Handled(r)
            /\ r.menu.mode = "setting" \/ b \notin {"up", "down"}
                 \/ m_menu.page \notin DigitPage => r.menu.page = m_menu.page
<1> DEFINE r == SetProcess(b)
           Kept(n) == /\ n \in Record /\ n.stage = m_menu.stage /\ n.top = m_menu.top
                      /\ n.sub = m_menu.sub /\ n.item = m_menu.item
                      /\ n.level = m_menu.level /\ n.page = m_menu.page
                      /\ n.mode = "setting" => n.x <= XLimit(m_menu.page)
<1>1. m_menu \in Record /\ IsSettingMenu(m_menu.page) /\ m_menu.x <= XLimit(m_menu.page)
  BY DEF Good, OnPage
<1>2. m_menu.stage # 0
  <2>1. m_menu.page \notin 0..3
    BY <1>1 DEF IsSettingMenu, DigitPage
  <2>2. ~Root(m_menu)
    BY <1>1, <2>1, FieldTypes DEF Good, OnPage, Place2Page
  <2>3. QED
    BY <2>2 DEF Good, OnPage, Position, Locked, Group, Leaf, Measure, Events, Viewer
<1>3. ASSUME NEW n, Kept(n), r = Keep(n)
      PROVE  /\ Handled(r) /\ r.menu.page = m_menu.page
  <2>1. OnPage(n)
    <3>1. Position(n) <=> Position(m_menu)
      BY <1>3, SamePlace DEF Position
    <3>2. Place2Page(n, n.page) <=> Place2Page(m_menu, m_menu.page)
      BY <1>3, SamePlace
    <3>3. QED
      BY <1>3, <3>1, <3>2 DEF Good, OnPage
  <2>2. Good(n)
    BY <1>1, <1>3, <2>1 DEF Good
  <2>3. r.menu = n /\ r.digits = tPassCode /\ r.cleared = FALSE
    BY <1>3 DEF Keep
  <2> HIDE DEF r
  <2>4. QED
    BY <1>2, <1>3, <2>2, <2>3 DEF Handled, Cleared
<1>4. CASE b \in {"up", "down"} /\ m_menu.page \in DigitPage
  <2>1. r = TypeDigit(b)
    BY <1>4 DEF SetProcess
  <2>2. QED
    BY <1>4, <2>1, TypeDigitGood
<1>5. CASE b = "left" \/ b = "right"
  <2> DEFINE lim == XLimit(m_menu.page)
             up == IF m_menu.x + 1 > lim THEN 0 ELSE m_menu.x + 1
             down == IF m_menu.x = 0 THEN lim ELSE m_menu.x - 1
             shop == [m_menu EXCEPT !.mode = "shopping"]
             inc == [m_menu EXCEPT !.x = up]
             dec == [m_menu EXCEPT !.x = down]
  <2>1. up \in Column /\ down \in Column /\ up <= lim /\ down <= lim
    <3>1. m_menu.x \in 0..255 /\ lim \in 0..254
      BY <1>1, FieldTypes, LimitType
    <3>2. m_menu.x <= lim
      BY <1>1
    <3> HIDE DEF lim
    <3>3. up \in 0..255 /\ up <= lim
      BY <3>1, <3>2
    <3>4. down \in 0..255 /\ down <= lim
      BY <3>1, <3>2
    <3>5. QED
      BY <3>3, <3>4 DEF Column
  <2>2. inc = IncreasePosition(m_menu) /\ dec = DecreasePosition(m_menu)
    BY Zenon DEF IncreasePosition, DecreasePosition
  <2>3. "shopping" \in Modes
    BY DEF Modes
  <2> HIDE DEF up, down, lim
  <2>4. Kept(shop) /\ Kept(m_menu)
    BY <1>1, <2>3 DEF Record
  <2>5. Kept(inc) /\ Kept(dec)
    BY <1>1, <2>1 DEF Record, lim
  <2> HIDE DEF Kept
  <2>6. r = Keep(IF m_menu.page \in OnOff THEN shop ELSE dec)
        \/ r = Keep(IF m_menu.page \in OnOff THEN m_menu ELSE inc)
    BY <1>5, <2>2 DEF SetProcess
  <2>7. r \in {Keep(shop), Keep(dec), Keep(m_menu), Keep(inc)}
    BY <2>6
  <2> HIDE DEF shop, inc, dec, r
  <2>8. QED
    BY <1>3, <2>4, <2>5, <2>7 DEF r
<1>6. CASE b \notin {"left", "right"} /\ ~(b \in {"up", "down"} /\ m_menu.page \in DigitPage)
  <2> DEFINE shop == [m_menu EXCEPT !.mode = "shopping"]
  <2>1. "shopping" \in Modes
    BY DEF Modes
  <2>2. Kept(shop) /\ Kept(m_menu)
    BY <1>1, <2>1 DEF Record
  <2> HIDE DEF Kept
  <2>3. r = Keep(shop) \/ r = Keep(m_menu)
    BY <1>6 DEF SetProcess
  <2> HIDE DEF shop, r
  <2>4. QED
    BY <1>3, <2>2, <2>3 DEF r
<1>7. QED
  BY <1>4, <1>5, <1>6

-----------------------------------------------------------------------------
(* The timer interrupt.                                                    *)
LEMMA HandledEitherWay ==
  ASSUME Good(m_menu), tPassCode \in Digits, NEW b,
         m_menu.stage = 0 => tPassCode = Zeros
  PROVE  LET r == IF m_menu.mode = "setting" THEN SetProcess(b) ELSE MenuProcess(b)
         IN Handled(r) /\ (b = "none" => r.menu.page = m_menu.page)
<1>1. CASE m_menu.mode = "setting"
  BY <1>1, SetProcessGood
<1>2. CASE m_menu.mode # "setting"
  <2>1. m_menu.mode = "shopping"
    BY <1>2, FieldTypes DEF Good, OnPage
  <2> DEFINE r == MenuProcess(b)
             n == r.menu
  <2>2. /\ Good(n) /\ (n.stage = 0 /\ b # "left" => m_menu.stage = 0)
        /\ (b = "none" => n.page = m_menu.page)
    BY <2>1, MenuProcessGood
  <2>3. /\ r.digits = (IF b = "left" /\ n.stage = 0 THEN Zeros ELSE tPassCode)
        /\ r.cleared = FALSE
    BY DEF MenuProcess
  <2> HIDE DEF r
  <2>4. r.digits \in Digits
    BY <2>3, ZerosType, Zenon
  <2>5. n.stage = 0 => n.level = 0 /\ r.digits = Zeros
    <3>1. n.stage = 0 => n.level = 0
      BY <2>2, PageTells DEF Good
    <3>2. n.stage = 0 => r.digits = Zeros
      BY <2>2, <2>3, Zenon
    <3>3. QED
      BY <3>1, <3>2
  <2>6. Handled(r)
    BY <2>2, <2>3, <2>4, <2>5, Zenon DEF Handled, Cleared
  <2>7. QED
    BY <1>2, <2>2, <2>6 DEF r
<1>3. QED
  BY <1>1, <1>2

LEMMA HomeGood == Home \in Record /\ Good(Home)
<1>1. Home \in Record
  BY DEF Home, Record, Stages, Tops, Indices, Page, Modes, Column, None
<1>2. Root(Home) /\ Home.page = 0 /\ Home.top = 0 /\ Home.mode = "shopping"
  BY DEF Home, Root
<1>3. Position(Home)
  BY <1>2 DEF Position
<1>4. Place2Page(Home, 0)
  BY <1>2 DEF Place2Page, Root, Locked, Group, Leaf, Measure, Events, Viewer
<1>5. QED
  BY <1>1, <1>2, <1>3, <1>4 DEF Good, OnPage

(* The invariant: where the panel is, that digits and level are gone where *)
(* they must be, and that a page other than the home page has been shown   *)
(* for as long as nobody has touched a button.                             *)
Locks ==
  m_menu.stage = 0 \/ cleared => m_menu.level = 0 /\ tPassCode = Zeros
Timed ==
  m_menu.page # 0 => /\ prevMenu = m_menu.page
                     /\ accTimer < TenMinutes /\ idle <= accTimer
Safe ==
  /\ TypeOK
  /\ Good(m_menu) /\ Locks /\ Timed

LEMMA InitSafe == Init => Safe
<1> SUFFICES ASSUME Init
             PROVE  Safe
  OBVIOUS
<1>1. TypeOK
  <2>1. m_menu \in Record
    BY HomeGood DEF Init
  <2>2. tPassCode \in Digits
    BY ZerosType DEF Init
  <2>3. m_menu \in [stage : 0..2, top : 0..3, sub : (0..6) \cup {None},
                    item : (0..6) \cup {None}, page : Page,
                    mode : {"shopping", "setting"}, x : 0..255, level : 0..2]
    BY <2>1, Zenon DEF Record, Stages, Tops, Indices, Modes, Column
  <2>4. accTimer \in 0..TenMinutes /\ idle \in 0..TenMinutes + 1
    BY TimeAssumption DEF Init
  <2>5. prevMenu \in Page \cup {-1} /\ cleared \in BOOLEAN
    BY Zenon DEF Init
  <2>6. mPassCode \in [1..2 -> Code]
    BY Zenon DEF Init
  <2>7. QED
    BY <2>2, <2>3, <2>4, <2>5, <2>6, Zenon DEF TypeOK
<1>2. m_menu.page = 0 /\ m_menu.level = 0
  BY DEF Init, Home
<1>3. QED
  BY <1>1, <1>2, HomeGood DEF Init, Safe, Locks, Timed

LEMMA AutoReturn ==
  ASSUME Safe, NEW r, Handled(r), AutoReturnToHome(r)
  PROVE  /\ Good(m_menu') /\ tPassCode' \in Digits /\ Locks'
         /\ accTimer' \in 0..TenMinutes /\ prevMenu' \in Page \cup {-1}
         /\ cleared' \in BOOLEAN
         /\ m_menu'.page # 0 =>
              /\ m_menu'.page = r.menu.page /\ prevMenu' = m_menu'.page
              /\ accTimer' < TenMinutes
              /\ prevMenu = r.menu.page => accTimer' = accTimer + 1
<1> DEFINE p == r.menu.page
<1>1. accTimer \in 0..TenMinutes /\ TenMinutes \in Nat /\ TenMinutes > 1
  BY TimeAssumption DEF Safe, TypeOK
<1>2. /\ m_menu' = (IF Returns(p) THEN Home ELSE r.menu)
      /\ tPassCode' = (IF Returns(p) THEN Zeros ELSE r.digits)
      /\ accTimer' = (IF prevMenu # p \/ TenMinutesOver(p) THEN 0 ELSE accTimer + 1)
      /\ prevMenu' = m_menu'.page /\ cleared' = r.cleared
  BY Zenon DEF AutoReturnToHome
<1>3. TenMinutesOver(p) <=> accTimer + 1 >= TenMinutes /\ prevMenu = p
  BY DEF TenMinutesOver
<1>4. Returns(p) <=> prevMenu # -1 /\ TenMinutesOver(p) /\ p # 0
  BY DEF Returns
<1>5. accTimer' \in 0..TenMinutes
  BY <1>1, <1>2, <1>3
<1>6. CASE Returns(p)
  <2>1. m_menu' = Home /\ tPassCode' = Zeros
    BY <1>2, <1>6, Zenon
  <2>2. Home.page = 0 /\ Home.level = 0
    BY DEF Home
  <2>3. cleared' \in BOOLEAN
    BY <1>2, Zenon DEF Handled
  <2>4. prevMenu' \in Page
    BY <1>2, <2>1, <2>2 DEF Page
  <2>5. Locks'
    BY <2>1, <2>2 DEF Locks
  <2>6. QED
    BY <1>5, <2>1, <2>2, <2>3, <2>4, <2>5, HomeGood, ZerosType
<1>7. CASE ~Returns(p)
  <2>1. m_menu' = r.menu /\ tPassCode' = r.digits
    BY <1>2, <1>7, Zenon
  <2>2. Good(m_menu') /\ tPassCode' \in Digits /\ cleared' \in BOOLEAN /\ Locks'
    BY <1>2, <2>1, Zenon DEF Handled, Cleared, Locks
  <2>3. p \in Page
    BY DEF Handled, Good, OnPage, Record
  <2>4. prevMenu' = p
    BY <1>2, <2>1
  <2>5. p # 0 => /\ accTimer' < TenMinutes
                 /\ prevMenu = p => accTimer' = accTimer + 1
    <3>1. -1 \notin Page
      BY DEF Page, SensorPage, ModePage, NetworkPage, ClockPage
    <3>2. p # 0 => ~TenMinutesOver(p)
      BY <1>3, <1>4, <1>7, <2>3, <3>1
    <3>3. QED
      BY <1>1, <1>2, <1>3, <3>2
  <2>6. QED
    BY <1>2, <1>5, <2>1, <2>2, <2>3, <2>4, <2>5
<1>8. QED
  BY <1>6, <1>7

LEMMA NextSafe == Safe /\ [Next]_vars => Safe'
<1> SUFFICES ASSUME Safe, [Next]_vars
             PROVE  Safe'
  OBVIOUS
<1>1. ASSUME NEW b, TimerCallBack(b)
      PROVE  /\ Good(m_menu') /\ tPassCode' \in Digits /\ Locks'
             /\ accTimer' \in 0..TenMinutes /\ prevMenu' \in Page \cup {-1}
             /\ cleared' \in BOOLEAN /\ mPassCode' = mPassCode
             /\ m_menu'.page # 0 => prevMenu' = m_menu'.page /\ accTimer' < TenMinutes
             /\ m_menu'.page # 0 /\ b = "none" =>
                  m_menu'.page = m_menu.page /\ accTimer' = accTimer + 1
  <2> DEFINE r == IF m_menu.mode = "setting" THEN SetProcess(b) ELSE MenuProcess(b)
  <2>1. Good(m_menu) /\ tPassCode \in Digits /\ (m_menu.stage = 0 => tPassCode = Zeros)
    BY DEF Safe, TypeOK, Locks
  <2>2. Handled(r) /\ (b = "none" => r.menu.page = m_menu.page)
    BY <2>1, HandledEitherWay
  <2>3. AutoReturnToHome(r) /\ mPassCode' = mPassCode
    BY <1>1 DEF TimerCallBack
  <2> HIDE DEF r
  <2>4. m_menu'.page # 0 /\ b = "none" =>
          m_menu'.page = m_menu.page /\ accTimer' = accTimer + 1
    BY <2>2, <2>3, AutoReturn DEF Safe, Timed
  <2>5. QED
    BY <2>2, <2>3, <2>4, AutoReturn
<1>2. ASSUME NEW b \in Button, Press(b)
      PROVE  Safe'
  <2>1. TimerCallBack(b) /\ idle' = 0
    BY <1>2 DEF Press
  <2>2. TypeOK'
    BY <1>1, <2>1, TimeAssumption
       DEF Safe, TypeOK, Good, OnPage, Record, Stages, Tops, Indices, Modes, Column
  <2>3. Timed'
    BY <1>1, <2>1, TimeAssumption DEF Timed
  <2>4. QED
    BY <1>1, <2>1, <2>2, <2>3 DEF Safe
<1>3. CASE Pause
  <2>1. TimerCallBack("none") /\ idle' = IF idle <= TenMinutes THEN idle + 1 ELSE idle
    BY <1>3 DEF Pause
  <2>2. idle \in 0..TenMinutes + 1 /\ accTimer \in 0..TenMinutes /\ TenMinutes \in Nat
    BY TimeAssumption DEF Safe, TypeOK
  <2>3. idle' \in 0..TenMinutes + 1 /\ idle' <= idle + 1
    BY <2>1, <2>2
  <2>4. TypeOK'
    BY <1>1, <2>1, <2>3
       DEF Safe, TypeOK, Good, OnPage, Record, Stages, Tops, Indices, Modes, Column
  <2>5. Timed'
    <3>1. m_menu'.page # 0 => idle <= accTimer
      BY <1>1, <2>1 DEF Safe, Timed
    <3>2. QED
      BY <1>1, <2>1, <2>2, <2>3, <3>1 DEF Timed
  <2>6. QED
    BY <1>1, <2>1, <2>4, <2>5 DEF Safe
<1>4. ASSUME NEW l \in 1..2, NEW c \in Code, PassCodeCommand(l, c)
      PROVE  Safe'
  BY <1>4 DEF PassCodeCommand, Safe, TypeOK, Locks, Timed
<1>5. CASE UNCHANGED vars
  BY <1>5 DEF vars, Safe, TypeOK, Locks, Timed
<1>6. QED
  BY <1>2, <1>3, <1>4, <1>5 DEF Next

LEMMA SafeAlways == Spec => []Safe
  BY InitSafe, NextSafe, PTL DEF Spec

-----------------------------------------------------------------------------
(* What follows for the operator.                                          *)

(* Every index of the menu keeps within its table, whatever is pressed.    *)
THEOREM TypeCorrect == Spec => []TypeOK
<1>1. Safe => TypeOK
  BY DEF Safe
<1>2. QED
  BY <1>1, SafeAlways, PTL

(* The pages that change something show only with the passcode that opens  *)
(* them in force, and it is gone with the way back and with the clearing.  *)
THEOREM GateHolds == Spec => []Gate
<1>1. Safe => Gate
  BY PageTells DEF Safe, Good, Gate, Locks
<1>2. QED
  BY <1>1, SafeAlways, PTL

(* The page on display is the page of the position, and the cursor on it.  *)
THEOREM PositionShown == Spec => []ShowsPosition
<1>1. Safe => ShowsPosition
  <2> SUFFICES ASSUME Safe
               PROVE  ShowsPosition
    OBVIOUS
  <2>1. m_menu \in Record /\ Position(m_menu) /\ Place2Page(m_menu, m_menu.page)
    BY DEF Safe, Good, OnPage
  <2>2. Locked(m_menu) => m_menu.page \in {1, 14}
    BY <2>1 DEF Place2Page
  <2>3. PageOf(m_menu) = m_menu.page
    BY <2>1, <2>2, PageOfPosition, OnePage
  <2> DEFINE u == IF m_menu.top = Setting /\ m_menu.level = 0 /\ PageOf(m_menu) # 0
                  THEN None ELSE m_menu.sub
  <2>4. u = m_menu.sub
    BY <2>1 DEF Position, Root, Locked, Group, Leaf, Measure, Events, Viewer
  <2>5. Show(m_menu) = [m_menu EXCEPT !.page = PageOf(m_menu), !.sub = u]
    BY DEF Show
  <2> HIDE DEF u
  <2>6. [m_menu EXCEPT !.page = m_menu.page, !.sub = m_menu.sub] = m_menu
    BY <2>1 DEF Record
  <2>7. Show(m_menu) = m_menu
    BY <2>3, <2>4, <2>5, <2>6
  <2>8. QED
    BY <2>7 DEF Safe, Good, ShowsPosition
<1>2. QED
  BY <1>1, SafeAlways, PTL

(* Ten minutes without a button lock the panel, on whatever page, and end  *)
(* the setting of a value.                                                 *)
THEOREM PanelLocks == Spec => []UnattendedLocks
<1>1. Safe => UnattendedLocks
  <2> SUFFICES ASSUME Safe, idle > TenMinutes
               PROVE  m_menu.page = 0 /\ m_menu.level = 0 /\ m_menu.mode = "shopping"
    BY DEF UnattendedLocks
  <2>1. m_menu.page = 0
    BY TimeAssumption DEF Safe, TypeOK, Timed
  <2>2. m_menu.level = 0
    BY <2>1, PageTells DEF Safe, Good
  <2>3. m_menu.mode # "setting"
    BY <2>1 DEF Safe, Good, IsSettingMenu, DigitPage
  <2>4. QED
    BY <2>1, <2>2, <2>3, FieldTypes DEF Safe, Good, OnPage
<1>2. QED
  BY <1>1, SafeAlways, PTL

-----------------------------------------------------------------------------
(* What follows for the clock: the menu implements Panel.                  *)

(* A value of the clock is being changed.                                  *)
Changing(m) == m.mode = "setting" /\ m.page \in ClockPage

(* The steps of the record that Panel allows: between the pages outside    *)
(* the setting mode, on a page of the clock, and home.                     *)
Walks(m, n) ==
  /\ ~Changing(m) /\ ~Changing(n)
  /\ m.page = 0 => n.page \notin ClockPage
  /\ m.page \in ClockPage => n.page # 0
PanelStep(m, n) ==
  \/ Walks(m, n)
  \/ m.page \in ClockPage /\ n.page = m.page
  \/ n = Home

(* Below SETTING the buttons keep the level until the first stage, which   *)
(* no page of the clock is next to; without a level there is none.         *)
LEMMA MenuProcessStep ==
  ASSUME Good(m_menu), m_menu.mode = "shopping", NEW b
  PROVE  PanelStep(m_menu, MenuProcess(b).menu)
<1> DEFINE n == MenuProcess(b).menu
<1>1. /\ Good(n) /\ LevelKept(m_menu, n)
      /\ n.mode = "setting" => n.page = m_menu.page
  BY MenuProcessGood
<1> HIDE DEF n
<1>2. /\ n.page \in ClockPage => n.level # 0 /\ n.stage = 2
      /\ m_menu.page \in ClockPage => m_menu.level # 0 /\ m_menu.stage = 2
      /\ m_menu.level # 0 => m_menu.page # 0
      /\ n.level # 0 => n.page # 0
  BY <1>1, PageTells DEF Good
<1>3. m_menu.page = 0 => n.page \notin ClockPage
  BY <1>1, <1>2 DEF LevelKept
<1>4. m_menu.page \in ClockPage => n.page # 0
  BY <1>1, <1>2 DEF LevelKept
<1>5. Changing(n) => PanelStep(m_menu, n)
  BY <1>1 DEF Changing, PanelStep
<1>6. ~Changing(n) => PanelStep(m_menu, n)
  BY <1>3, <1>4 DEF Changing, Walks, PanelStep
<1>7. QED
  BY <1>5, <1>6 DEF n

(* A value keeps its page, but for a passcode, which opens a page after    *)
(* the setting mode is left.                                               *)
LEMMA SetProcessStep ==
  ASSUME Good(m_menu), m_menu.mode = "setting", tPassCode \in Digits, NEW b
  PROVE  PanelStep(m_menu, SetProcess(b).menu)
<1> DEFINE n == SetProcess(b).menu
<1>1. n.mode = "setting" \/ m_menu.page \notin DigitPage => n.page = m_menu.page
  BY SetProcessGood
<1> HIDE DEF n
<1>2. ClockPage \cap DigitPage = {} /\ 0 \notin ClockPage \cup DigitPage
  BY DEF ClockPage, DigitPage
<1>3. m_menu.page # 0
  BY DEF Good, IsSettingMenu, DigitPage
<1>4. m_menu.page \in ClockPage => PanelStep(m_menu, n)
  BY <1>1, <1>2 DEF PanelStep
<1>5. m_menu.page \notin ClockPage => PanelStep(m_menu, n)
  BY <1>1, <1>3 DEF Changing, Walks, PanelStep
<1>6. QED
  BY <1>4, <1>5 DEF n

LEMMA TimerStep ==
  ASSUME Safe, NEW b, TimerCallBack(b)
  PROVE  PanelStep(m_menu, m_menu')
<1> DEFINE r == IF m_menu.mode = "setting" THEN SetProcess(b) ELSE MenuProcess(b)
<1>1. Good(m_menu) /\ tPassCode \in Digits /\ m_menu.mode \in {"shopping", "setting"}
  BY FieldTypes DEF Safe, TypeOK, Good, OnPage
<1>2. PanelStep(m_menu, r.menu)
  BY <1>1, MenuProcessStep, SetProcessStep
<1>3. m_menu' = IF Returns(r.menu.page) THEN Home ELSE r.menu
  BY DEF TimerCallBack, AutoReturnToHome
<1> HIDE DEF r
<1>4. QED
  BY <1>2, <1>3 DEF PanelStep

(* The page and the mode as Panel sees them.                               *)
KindOf(p) ==
  CASE p = 0   -> "home"
    [] p = 130 -> "date"
    [] p = 131 -> "time"
    [] OTHER   -> "other"

PanelPage == KindOf(m_menu.page)
PanelSetting == Changing(m_menu)

LEMMA Kinds ==
  ASSUME NEW p
  PROVE  /\ p = 0 => KindOf(p) = "home"
         /\ p = 130 => KindOf(p) = "date"
         /\ p = 131 => KindOf(p) = "time"
         /\ p \notin {0, 130, 131} => KindOf(p) = "other"
         /\ KindOf(p) \in {"home", "date", "time", "other"}
  BY DEF KindOf

(* What Panel allows of a page and a mode q, t after p, s.                 *)
Allowed(p, s, q, t) ==
  \/ ~s /\ q \in P!Neighbours(p) /\ t = s
  \/ p \in P!ClockPage /\ t = ~s /\ q = p
  \/ p # "home" /\ q = "home" /\ t = FALSE
  \/ q = p /\ t = s

LEMMA StepAllowed ==
  ASSUME NEW m, NEW n, PanelStep(m, n)
  PROVE  Allowed(KindOf(m.page), Changing(m), KindOf(n.page), Changing(n))
<1> DEFINE p == KindOf(m.page)
           q == KindOf(n.page)
<1>1. /\ p = "home" <=> m.page = 0
      /\ p \in {"date", "time"} <=> m.page \in ClockPage
      /\ q = "home" <=> n.page = 0
      /\ q \in {"date", "time"} <=> n.page \in ClockPage
      /\ p \in {"home", "date", "time", "other"}
      /\ q \in {"home", "date", "time", "other"}
  BY Kinds DEF ClockPage
<1>2. CASE Walks(m, n)
  <2>1. ~Changing(m) /\ ~Changing(n)
    BY <1>2 DEF Walks
  <2>2. p = "home" => q \in {"home", "other"}
    BY <1>1, <1>2 DEF Walks
  <2>3. p \in {"date", "time"} => q \in {"other", "date", "time"}
    BY <1>1, <1>2 DEF Walks
  <2> HIDE DEF p, q
  <2>4. q \in P!Neighbours(p)
    BY <1>1, <2>2, <2>3 DEF P!Neighbours, P!ClockPage, P!Kind
  <2>5. Changing(n) = Changing(m)
    BY <2>1 DEF Changing
  <2>6. QED
    BY <2>1, <2>4, <2>5, Zenon DEF Allowed, p, q
<1>3. CASE m.page \in ClockPage /\ n.page = m.page
  <2>1. p \in P!ClockPage /\ q = p
    BY <1>1, <1>3 DEF P!ClockPage
  <2>2. Changing(m) \in BOOLEAN /\ Changing(n) \in BOOLEAN
    BY DEF Changing
  <2>3. Changing(n) = Changing(m) \/ Changing(n) = ~Changing(m)
    BY <2>2
  <2> HIDE DEF p, q
  <2>4. QED
    BY <2>1, <2>3, Zenon DEF Allowed, p, q
<1>4. CASE n = Home
  <2>1. q = "home" /\ ~Changing(n)
    BY <1>1, <1>4 DEF Home, Changing
  <2>2. Changing(n) = FALSE
    BY <2>1
  <2>3. p = "home" => Changing(m) = FALSE
    BY <1>1 DEF Changing, ClockPage
  <2> HIDE DEF p, q
  <2>4. QED
    BY <2>1, <2>2, <2>3, Zenon DEF Allowed, p, q
<1>5. QED
  BY <1>2, <1>3, <1>4 DEF PanelStep


(* The menu as Panel sees it moves as Panel does.                          *)
LEMMA PanelSteps == Safe /\ [Next]_vars => [P!Next]_<<PanelPage, PanelSetting>>
<1> SUFFICES ASSUME Safe, [Next]_vars
             PROVE  [P!Next]_<<PanelPage, PanelSetting>>
  OBVIOUS
<1>1. Allowed(KindOf(m_menu.page), Changing(m_menu),
              KindOf(m_menu'.page), Changing(m_menu'))
  <2>1. CASE \E b \in Button : Press(b)
    BY <2>1, TimerStep, StepAllowed DEF Press
  <2>2. CASE Pause
    BY <2>2, TimerStep, StepAllowed DEF Pause
  <2>3. CASE m_menu' = m_menu
    BY <2>3, Zenon DEF Allowed
  <2>4. QED
    BY <2>1, <2>2, <2>3 DEF Next, PassCodeCommand, vars
<1>2. QED
  BY <1>1, Zenon DEF Allowed, KindOf, Changing, P!Next, P!ChangePage, P!ChangeMode,
     P!ReturnHome, PanelPage, PanelSetting

(* To the clock the menu is what Panel says: no way but those of Panel     *)
(* leads to and from the pages of date and time, and nothing else is set   *)
(* there; Clock is checked and proved over Panel.                          *)
THEOREM PanelImplemented == Spec => ImplementsPanel
<1>1. Init => P!Init
  <2>1. Init => m_menu.page = 0 /\ m_menu.mode = "shopping"
    BY DEF Init, Home
  <2>2. Init => KindOf(m_menu.page) = "home" /\ Changing(m_menu) = FALSE
    BY <2>1, Kinds DEF Changing
  <2>3. QED
    BY <2>2, Zenon DEF KindOf, Changing, P!Init
<1>2. QED
  BY <1>1, SafeAlways, PanelSteps, PTL
     DEF Spec, ImplementsPanel, P!Spec, PanelPage, PanelSetting, KindOf, Changing

-----------------------------------------------------------------------------
(* The display: what is printed follows the page, and the cursor the digit *)
(* a value is changed in.                                                  *)

(* The display leaves the menu alone.                                      *)
LEMMA DisplayStep == [DisplayNext]_<<vars, screen>> => [Next]_vars
  BY DEF DisplayNext, Next, TimeDisplay, PrintTime

LEMMA DisplayRefines == DisplaySpec => Spec
<1>1. DisplayInit => Init
  BY DEF DisplayInit
<1>2. QED
  BY <1>1, DisplayStep, PTL DEF DisplaySpec, Spec

(* What a button may do on the home page and on that of an event.          *)
LEMMA PlaceOfPage ==
  ASSUME NEW m, OnPage(m)
  PROVE  /\ m.page = 0 => (Root(m) /\ m.top = 0) \/ (Viewer(m) /\ m.sub # 0)
         /\ m.page = 301 => Viewer(m) /\ m.sub = 0
         /\ m.stage = 0 => m.page \in 0..3
         /\ m.top = EventList /\ m.stage = 2
              => m.page = IF m.sub = 0 THEN 301 ELSE 0
         /\ m.top = EventList /\ m.stage = 1
              => m.page = IF m.sub = None THEN 3 ELSE 30 + m.sub
<1> USE DEF OnPage, Place2Page
<1>1. CASE Root(m)
  BY <1>1, FieldTypes DEF Root
<1>2. CASE Locked(m)
  BY <1>2 DEF Locked
<1>3. CASE Group(m)
  BY <1>3 DEF Group
<1>4. CASE Leaf(m)
  <2>1. m.sub \in 0..3 /\ m.stage = 2 /\ m.top = Setting
    BY <1>4 DEF Leaf
  <2>2. m.page \in 100..131
    BY <1>4, <2>1, LeafPages
  <2>3. QED
    BY <2>1, <2>2
<1>5. CASE Measure(m)
  BY <1>5 DEF Measure
<1>6. CASE Events(m)
  BY <1>6, NoIndex DEF Events
<1>7. CASE Viewer(m)
  BY <1>7, NoIndex DEF Viewer
<1>8. QED
  BY <1>1, <1>2, <1>3, <1>4, <1>5, <1>6, <1>7 DEF Position

LEMMA MovedNear ==
  ASSUME NEW m \in Record, OnPage(m), NEW b
  PROVE  LET n == Moved(m, b)
         IN /\ Root(m) /\ m.top = 0 => n.stage = 0
            /\ Viewer(m) => /\ n.sub = m.sub /\ n.top = m.top
                            /\ n.stage = 2 \/ (b = "left" /\ n.stage = 1)
<1> DEFINE n == Moved(m, b)
<1>1. CASE b \in {"up", "down"}
  <2>1. n \in {MoveUp(m), MoveDown(m)}
    BY <1>1 DEF Moved
  <2>2. n.stage = m.stage
    BY <2>1, UpDownPlace
  <2>3. ASSUME Viewer(m)
        PROVE  n.sub = m.sub /\ n.top = m.top
    <3>1. \E i : n = [m EXCEPT !.item = i]
      BY <2>1, <2>3 DEF Viewer, MoveUp, MoveDown, Select, PutIndex
    <3>2. QED
      BY <3>1 DEF Record
  <2> HIDE DEF n
  <2>4. QED
    BY <2>2, <2>3 DEF Root, Viewer, n
<1>2. CASE b = "right"
  <2>1. n = MoveRight(m)
    BY <1>2 DEF Moved
  <2>2. ASSUME Root(m), m.top = 0
        PROVE  n.stage = 0
    BY <2>1, <2>2, RightMoves DEF Root, Step, Deepest
  <2>3. ASSUME Viewer(m)
        PROVE  n.sub = m.sub /\ n.top = m.top /\ n.stage = 2
    BY <2>1, <2>3, RightMoves DEF Viewer, Step, Deepest
  <2>4. QED
    BY <2>2, <2>3
<1>3. CASE b = "left"
  BY <1>3 DEF Moved, MoveLeft, Root, Viewer, Record
<1>4. CASE b \notin {"up", "down", "left", "right"}
  <2>1. \E mode : n = [m EXCEPT !.mode = mode]
    <3>1. m = [m EXCEPT !.mode = m.mode]
      BY DEF Record
    <3>2. QED
      BY <1>4, <3>1 DEF Moved
  <2>2. n.sub = m.sub /\ n.top = m.top /\ n.stage = m.stage
    BY <2>1 DEF Record
  <2> HIDE DEF n
  <2>3. QED
    BY <2>2 DEF Root, Viewer, n
<1>5. QED
  BY <1>1, <1>2, <1>3, <1>4

(* The pages the time may be left over.                                    *)
NearHome == (1..3) \cup {31}

LEMMA MenuProcessNear ==
  ASSUME Good(m_menu), m_menu.mode = "shopping", NEW b
  PROVE  LET n == MenuProcess(b).menu
         IN /\ m_menu.page = 0 => n.page \in {0} \cup NearHome /\ n.mode = "shopping"
            /\ m_menu.page = 301 /\ n.stage = 2 => n.page = 301
<1> DEFINE m == [m_menu EXCEPT !.x = 0]
           r == Moved(m, b)
           n == MenuProcess(b).menu
<1>1. Good(n) /\ (n.mode = "setting" => n.page = m_menu.page)
  BY MenuProcessGood
<1>2. /\ m \in Record /\ m.page = m_menu.page /\ m.mode = "shopping"
      /\ m.stage = m_menu.stage /\ m.top = m_menu.top /\ m.sub = m_menu.sub
      /\ m.item = m_menu.item /\ m.level = m_menu.level
  <2>1. 0 \in Column
    BY DEF Column
  <2>2. QED
    BY <2>1 DEF Good, OnPage, Record
<1>3. n = Show(r)
  BY DEF MenuProcess
<1> HIDE DEF m, n
<1>4. /\ Position(m) <=> Position(m_menu)
      /\ Place2Page(m, m.page) <=> Place2Page(m_menu, m_menu.page)
  BY <1>2, SamePlace DEF Position
<1>5. OnPage(m)
  BY <1>2, <1>4 DEF Good, OnPage
<1>6. r \in Record
  BY <1>2, <1>5, MovedPlace
<1>7. /\ Root(m) /\ m.top = 0 => r.stage = 0
      /\ Viewer(m) => /\ r.sub = m.sub /\ r.top = EventList
                      /\ r.stage = 2 \/ r.stage = 1
  BY <1>2, <1>5, MovedNear DEF Viewer
<1> HIDE DEF r
<1>8. /\ n.stage = r.stage /\ n.top = r.top
      /\ r.top # Setting => n.sub = r.sub
  BY <1>3, <1>6, ShowFields
<1>9. OnPage(n)
  BY <1>1 DEF Good
<1>10. CASE Root(m) /\ m.top = 0
  <2>1. n.page \in 0..3
    BY <1>7, <1>8, <1>9, <1>10, PlaceOfPage
  <2>2. m.page # 301
    BY <1>5, <1>10, PlaceOfPage DEF Root, Viewer
  <2>3. n.mode = "shopping"
    BY <1>1, <2>1, FieldTypes DEF Good, OnPage, IsSettingMenu, DigitPage
  <2>4. QED
    BY <1>2, <2>1, <2>2, <2>3 DEF NearHome, n
<1>11. CASE Viewer(m)
  <2>1. n.sub = m.sub /\ n.top = EventList /\ n.stage \in {1, 2}
    BY <1>7, <1>8, <1>11
  <2>2. m.sub \in {0, 1, None}
    BY <1>11 DEF Viewer
  <2>3. m.sub # 0 => n.page \in {0} \cup NearHome
    BY <1>9, <2>1, <2>2, NoIndex, PlaceOfPage DEF NearHome
  <2>4. m.sub = 0 /\ n.stage = 2 => n.page = 301
    BY <1>9, <2>1, PlaceOfPage
  <2>5. m.page = 0 => m.sub # 0
    BY <1>5, <1>11, PlaceOfPage DEF Root, Viewer
  <2>6. m.page = 301 => m.sub = 0
    BY <1>5, PlaceOfPage
  <2>7. m.page = 0 => n.mode = "shopping"
    BY <1>1, <1>2, FieldTypes DEF Good, OnPage, IsSettingMenu, DigitPage
  <2>8. QED
    BY <1>2, <2>3, <2>4, <2>5, <2>6, <2>7 DEF n
<1>12. CASE ~(Root(m) /\ m.top = 0) /\ ~Viewer(m)
  BY <1>2, <1>5, <1>12, PlaceOfPage
<1>13. QED
  BY <1>10, <1>11, <1>12

(* What a tick leaves on the display.                                      *)
ScreenGood ==
  /\ shown = m_menu.page
  /\ stray => m_menu.page \in NearHome
  /\ timing \in {"idle", "begun", "overtaken"}
  /\ timing = "begun" => m_menu.page = 0
  /\ timing = "overtaken" =>
       m_menu.page \in {0} \cup NearHome /\ m_menu.mode = "shopping"
CursorGood ==
  m_menu.mode = "setting" /\ idle > 0 =>
    cursor.on /\ cursor.at = CursorColumn(m_menu)

(* A page that is not printed anew is the one there was.                   *)
LEMMA RedrawnWhenLeft ==
  ASSUME Safe, NEW b
  PROVE  LET r == IF m_menu.mode = "setting" THEN SetProcess(b) ELSE MenuProcess(b)
         IN (Redraws(b) /\ ~KeepsEvent(r.menu)) \/ r.menu.page = m_menu.page
<1>1. Good(m_menu) /\ tPassCode \in Digits /\ m_menu.mode \in {"shopping", "setting"}
  BY FieldTypes DEF Safe, TypeOK, Good, OnPage
<1>2. CASE m_menu.mode = "setting"
  <2> DEFINE r == SetProcess(b)
  <2>1. r.menu.mode = "setting" \/ b \notin {"up", "down"}
          \/ m_menu.page \notin DigitPage => r.menu.page = m_menu.page
    BY <1>1, <1>2, SetProcessGood
  <2>2. Handled(r)
    BY <1>1, <1>2, SetProcessGood
  <2>3. b \in {"up", "down"} /\ m_menu.page \in DigitPage => r = TypeDigit(b)
    BY DEF SetProcess
  <2> HIDE DEF r
  <2>4. r.menu.mode \in {"shopping", "setting"}
    BY <2>2, FieldTypes DEF Handled, Good, OnPage
  <2>5. m_menu.page # 301
    BY <1>1, <1>2 DEF Good, IsSettingMenu, DigitPage
  <2>6. (Redraws(b) /\ ~KeepsEvent(r.menu)) \/ r.menu.page = m_menu.page
    BY <1>2, <2>1, <2>3, <2>4, <2>5 DEF Redraws, KeepsEvent
  <2>7. QED
    BY <1>2, <2>6 DEF r
<1>3. CASE m_menu.mode = "shopping"
  <2> DEFINE n == MenuProcess(b).menu
  <2>1. b = "none" => n.page = m_menu.page
    BY <1>1, <1>3, MenuProcessGood
  <2>2. m_menu.page = 301 /\ n.stage = 2 => n.page = m_menu.page
    BY <1>1, <1>3, MenuProcessNear
  <2> HIDE DEF n
  <2>3. (Redraws(b) /\ ~KeepsEvent(n)) \/ n.page = m_menu.page
    BY <1>3, <2>1, <2>2 DEF Redraws, KeepsEvent
  <2>4. QED
    BY <1>3, <2>3 DEF n
<1>4. QED
  BY <1>1, <1>2, <1>3

LEMMA TickGood ==
  ASSUME Safe, ScreenGood, NEW b, TimerCallBack(b), Tick(b), b # "none" => idle' = 0
  PROVE  ScreenGood' /\ CursorGood'
<1> DEFINE r == IF m_menu.mode = "setting" THEN SetProcess(b) ELSE MenuProcess(b)
           n == r.menu
           home == Returns(n.page)
           draw == Redraws(b) /\ ~KeepsEvent(n)
<1>1. Good(m_menu) /\ tPassCode \in Digits /\ m_menu.mode \in {"shopping", "setting"}
  BY FieldTypes DEF Safe, TypeOK, Good, OnPage
<1>2. m_menu' = IF home THEN Home ELSE n
  BY DEF TimerCallBack, AutoReturnToHome
<1>3. /\ timing # "overtaken"
      /\ timing' = (IF timing = "begun" THEN "overtaken" ELSE timing)
      /\ shown' = (IF home THEN 0 ELSE IF draw THEN n.page ELSE shown)
      /\ stray' = (stray /\ ~home /\ ~draw)
      /\ Cursor(b)
  BY Zenon DEF Tick, Screen
<1>4. draw \/ n.page = m_menu.page
  BY RedrawnWhenLeft
<1>5. m_menu.page = 0 => n.page \in {0} \cup NearHome /\ n.mode = "shopping"
  <2>1. m_menu.page = 0 => m_menu.mode = "shopping"
    BY <1>1 DEF Good, IsSettingMenu, DigitPage
  <2>2. QED
    BY <1>1, <2>1, MenuProcessNear
<1>6. m_menu.mode = "shopping" /\ n.mode = "setting" => b = "set"
  BY <1>1, MenuProcessGood
<1>7. m_menu.mode = "setting" /\ b = "none" => n = m_menu
  <2>1. "none" \notin {"up", "down", "left", "right", "esc"}
    OBVIOUS
  <2>2. SetProcess("none") = Keep(m_menu)
    BY <2>1 DEF SetProcess
  <2>3. QED
    BY <2>2 DEF Keep
<1> HIDE DEF r, n, home, draw
<1>8. Home.page = 0 /\ Home.mode = "shopping"
  BY DEF Home
<1>9. ScreenGood'
  <2>1. shown' = m_menu'.page
    BY <1>2, <1>3, <1>4, <1>8 DEF ScreenGood
  <2>2. stray' => m_menu'.page \in NearHome
    BY <1>2, <1>3, <1>4 DEF ScreenGood
  <2>3. timing' \in {"idle", "overtaken"}
    BY <1>3 DEF ScreenGood
  <2>4. timing' = "overtaken" =>
          m_menu'.page \in {0} \cup NearHome /\ m_menu'.mode = "shopping"
    BY <1>2, <1>3, <1>5, <1>8 DEF ScreenGood
  <2>5. QED
    BY <2>1, <2>2, <2>3, <2>4 DEF ScreenGood
<1>10. CursorGood'
  <2> SUFFICES ASSUME m_menu'.mode = "setting", idle' > 0
               PROVE  cursor'.on /\ cursor'.at = CursorColumn(m_menu')
    BY DEF CursorGood, CursorColumn
  <2>1. b = "none" /\ ~home /\ m_menu' = n
    BY <1>2, <1>8
  <2>2. m_menu.mode = "setting"
    BY <1>1, <1>6, <2>1
  <2>3. m_menu' = m_menu /\ ~Returns(m_menu.page)
    BY <1>7, <2>1, <2>2 DEF home
  <2>4. IsSettingMenu(m_menu.page)
    BY <1>1, <2>2 DEF Good
  <2>5. cursor' = [on |-> cursor.on \/ IsSettingMenu(m_menu.page), at |-> CursorColumn(m_menu)]
    BY <1>3, <2>1, <2>2, <2>3 DEF Cursor
  <2>6. QED
    BY <2>3, <2>4, <2>5
<1>11. QED
  BY <1>9, <1>10

DisplaySafe == Safe /\ ScreenGood /\ CursorGood

LEMMA DisplayInitSafe == DisplayInit => DisplaySafe
<1>1. DisplayInit => m_menu.page = 0 /\ m_menu.mode = "shopping"
  BY DEF DisplayInit, Init, Home
<1>2. QED
  BY <1>1, InitSafe DEF DisplayInit, DisplaySafe, ScreenGood, CursorGood

LEMMA DisplayNextSafe == DisplaySafe /\ [DisplayNext]_<<vars, screen>> => DisplaySafe'
<1> SUFFICES ASSUME DisplaySafe, [DisplayNext]_<<vars, screen>>
             PROVE  DisplaySafe'
  OBVIOUS
<1>0. Safe /\ ScreenGood /\ CursorGood
  BY DEF DisplaySafe
<1>1. Safe'
  BY <1>0, DisplayStep, NextSafe
<1> SUFFICES ScreenGood' /\ CursorGood'
  BY <1>1 DEF DisplaySafe
<1>2. ASSUME NEW b \in Button, Press(b), Tick(b)
      PROVE  ScreenGood' /\ CursorGood'
  BY <1>0, <1>2, TickGood DEF Press
<1>3. ASSUME Pause, Tick("none")
      PROVE  ScreenGood' /\ CursorGood'
  BY <1>0, <1>3, TickGood DEF Pause
<1>4. ASSUME UNCHANGED <<m_menu, idle, screen>>
      PROVE  ScreenGood' /\ CursorGood'
  BY <1>0, <1>4 DEF screen, ScreenGood, CursorGood, CursorColumn
<1>5. CASE TimeDisplay
  BY <1>0, <1>5 DEF TimeDisplay, vars, ScreenGood, CursorGood, CursorColumn
<1>6. CASE PrintTime
  <2>1. /\ timing' = "idle" /\ shown' = shown /\ m_menu' = m_menu
        /\ stray' = (m_menu.page # 0)
        /\ timing \in {"begun", "overtaken"}
    BY <1>0, <1>6 DEF PrintTime, vars, ScreenGood
  <2>2. m_menu.page \in {0} \cup NearHome /\ m_menu.mode # "setting"
    BY <1>0, <2>1 DEF ScreenGood, DisplaySafe, Safe, Good, IsSettingMenu, DigitPage
  <2>3. ScreenGood'
    BY <1>0, <2>1, <2>2 DEF ScreenGood
  <2>4. CursorGood'
    BY <2>1, <2>2 DEF CursorGood
  <2>5. QED
    BY <2>3, <2>4
<1>7. QED
  BY <1>2, <1>3, <1>4, <1>5, <1>6 DEF DisplayNext, PassCodeCommand, vars, screen

LEMMA DisplaySafeAlways == DisplaySpec => []DisplaySafe
  BY DisplayInitSafe, DisplayNextSafe, PTL DEF DisplaySpec

(* With its display the menu is still the menu: the gate, the page of the  *)
(* position, the lock after ten minutes and what the clock relies on hold  *)
(* while the main loop prints the time between the ticks.                  *)
THEOREM DisplayKeeps ==
  DisplaySpec => [](Gate /\ ShowsPosition /\ UnattendedLocks) /\ ImplementsPanel
  BY DisplayRefines, GateHolds, PositionShown, PanelLocks, PanelImplemented, PTL

(* Measurements of up to nine characters are printed over one another      *)
(* without a rest; with ten the end of one shows beside a short one on     *)
(* page 20.                                                                *)
LEMMA PrintedOver ==
  ASSUME ValueLength \subseteq 4..9, NEW p \in (20..26) \ {22}
  PROVE  NothingRemains(p)
<1> SUFFICES ASSUME NEW old \in Texts(p), NEW new \in Texts(p), NEW c \in old.ink,
                    new.upto < c, c <= Width
             PROVE  FALSE
  BY DEF NothingRemains
<1> USE DEF Width, Text
<1>1. CASE p = 26
  BY <1>1 DEF Texts, InputText
<1>2. CASE p = 20
  <2> DEFINE Ink(n, u) == (1..n) \cup (n + 2..n + 1 + u)
  <2>1. Blanks(20) = 5
    BY DEF Blanks
  <2>2. /\ \E n \in 4..9 : old.ink = Ink(n, 4) \/ old.ink = Ink(5, 0)
        /\ new.upto \in 14..30
    BY <1>2, <2>1 DEF Texts, ValueText, NoValueText, OffText
  <2>3. old.ink \subseteq 1..14
    BY <2>2
  <2>4. QED
    BY <2>2, <2>3
<1>3. CASE p \in {21, 23, 24}
  <2>1. Blanks(p) \in 8..12
    BY <1>3 DEF Blanks
  <2>2. new.upto \in 16..30
    BY <1>3, <2>1 DEF Texts, ValueText, NoValueText, OffText
  <2>3. old.ink \subseteq Int
    <3> DEFINE Ink(n, u) == (1..n) \cup (n + 2..n + 1 + u)
    <3>1. \E n \in 4..9 : old.ink = Ink(n, 3)
      BY <1>3 DEF Texts, ValueText, NoValueText, OffText
    <3>2. QED
      BY <3>1
  <2>4. QED
    BY <2>2, <2>3
<1>4. CASE p = 25
  <2>1. Blanks(25) = 8
    BY DEF Blanks
  <2>2. new.upto \in 15..30
    BY <1>4, <2>1 DEF Texts, ValueText, NoValueText, OffText
  <2>3. old.ink \subseteq 1..13
    <3> DEFINE Ink(n, u) == (1..n) \cup (n + 2..n + 1 + u)
    <3>1. \E n \in 4..9 : old.ink = Ink(n, 3)
      BY <1>4 DEF Texts, ValueText, NoValueText, OffText
    <3>2. QED
      BY <3>1
  <2>4. QED
    BY <2>2, <2>3
<1>5. QED
  BY <1>1, <1>2, <1>3, <1>4

(* The page printed last is the page of the position; the time is left     *)
(* over pages next to the home page only; and no measurement is read with  *)
(* the end of another, as long as none has more than nine characters.      *)
THEOREM PageIsDisplayed ==
  ASSUME ValueLength \subseteq 4..9
  PROVE  DisplaySpec => []PageDisplayed
<1>1. DisplaySafe => PageDisplayed
  BY PrintedOver DEF DisplaySafe, ScreenGood, NearHome, PageDisplayed
<1>2. QED
  BY <1>1, DisplaySafeAlways, PTL

(* Columns in ascending order are as many as the places of the table, and  *)
(* before that of place x there are x.                                     *)
LEMMA Counted ==
  ASSUME NEW k \in Nat, NEW f, \A i, j \in 1..k : f[i] = f[j] => i = j
  PROVE  Cardinality({f[i] : i \in 1..k}) = k
<1> DEFINE T == {f[i] : i \in 1..k}
           g == [i \in 1..k |-> f[i]]
<1>1. g \in Bijection(1..k, T)
  BY DEF Bijection, Injection, Surjection, IsInjective
<1>2. ExistsBijection(1..k, T)
  BY <1>1 DEF ExistsBijection
<1>3. IsFiniteSet(1..k) /\ Cardinality(1..k) = k
  BY FS_Interval
<1> HIDE DEF T
<1>4. Cardinality(T) = k
  BY <1>2, <1>3, FS_Bijection
<1>5. QED
  BY <1>4 DEF T

Ascending(f, k) ==
  /\ \A i \in 1..k : f[i] \in Int
  /\ \A i, j \in 1..k : i < j => f[i] < f[j]

LEMMA Ranked ==
  ASSUME NEW k \in Nat, NEW f, Ascending(f, k), NEW x \in 0..k - 1,
         NEW S, S = {f[i] : i \in 1..k}
  PROVE  /\ f[x + 1] \in S /\ Cardinality(S) = k
         /\ Cardinality({c \in S : c < f[x + 1]}) = x
<1>1. \A i, j \in 1..k : f[i] = f[j] => i = j
  <2> SUFFICES ASSUME NEW i \in 1..k, NEW j \in 1..k, f[i] = f[j]
               PROVE  i = j
    OBVIOUS
  <2>1. f[i] \in Int /\ ~(i < j) /\ ~(j < i)
    BY DEF Ascending
  <2>2. QED
    BY <2>1
<1>2. Cardinality(S) = k
  BY <1>1, Counted
<1>3. {c \in S : c < f[x + 1]} = {f[i] : i \in 1..x}
  <2>1. x + 1 \in 1..k /\ 1..x \subseteq 1..k
    OBVIOUS
  <2>2. ASSUME NEW i \in 1..k
        PROVE  f[i] < f[x + 1] <=> i \in 1..x
    <3>1. i < x + 1 => f[i] < f[x + 1]
      BY <2>1 DEF Ascending
    <3>2. x + 1 < i => f[x + 1] < f[i]
      BY <2>1 DEF Ascending
    <3>3. f[i] \in Int /\ f[x + 1] \in Int
      BY <2>1 DEF Ascending
    <3>4. i = x + 1 => ~(f[i] < f[x + 1])
      BY <3>3
    <3>5. i >= x + 1 => ~(f[i] < f[x + 1])
      BY <3>2, <3>3, <3>4
    <3>6. QED
      BY <3>1, <3>5
  <2>3. QED
    BY <2>1, <2>2
<1>4. x \in Nat /\ x + 1 \in 1..k /\ \A i, j \in 1..x : f[i] = f[j] => i = j
  BY <1>1
<1>5. Cardinality({f[i] : i \in 1..x}) = x
  BY <1>4, Counted
<1>6. QED
  BY <1>2, <1>3, <1>4, <1>5

(* The tables against the formats: the columns of a page are those of its  *)
(* table, from left to right...                                            *)
TableFits(p) ==
  /\ XLimit(p) \in Nat /\ Ascending(Pack(p).position, XLimit(p) + 1)
  /\ ColumnsOf(p) = {Pack(p).position[i] : i \in 1..XLimit(p) + 1}

LEMMA NumberPages ==
  ASSUME NEW p \in NumberPage
  PROVE  p \notin OnOff \cup DigitPage
  BY DEF NumberPage, IpPage, OnOff, SensorPage, ModePage, DigitPage

Span(n) == n.from..n.from + n.digits - 1

LEMMA Columns ==
  ASSUME NEW p \in NumberPage
  PROVE  ColumnsOf(p) = UNION {Span(Format(p)[i]) : i \in DOMAIN Format(p)}
  BY NumberPages DEF ColumnsOf, Span

LEMMA IpTable ==
  ASSUME NEW p \in IpPage
  PROVE  TableFits(p)
<1> DEFINE F == <<[from |-> 1, digits |-> 3], [from |-> 5, digits |-> 3],
                  [from |-> 9, digits |-> 3], [from |-> 13, digits |-> 3]>>
<1>1. XLimit(p) = 11
  BY DEF IpPage, XLimit, ClockPage, DigitPage
<1>2. Pack(p) = IpPack
  BY DEF IpPage, Pack
<1>3. Format(p) = F
  BY DEF IpPage, Format
<1>4. ColumnsOf(p) = (1..3) \cup (5..7) \cup (9..11) \cup (13..15)
  <2>1. DOMAIN F = 1..4
    OBVIOUS
  <2>2. Span(F[1]) = 1..3 /\ Span(F[2]) = 5..7 /\ Span(F[3]) = 9..11 /\ Span(F[4]) = 13..15
    BY DEF Span
  <2> HIDE DEF F
  <2>3. ColumnsOf(p) = UNION {Span(F[i]) : i \in 1..4}
    BY <1>3, <2>1, Columns DEF NumberPage
  <2>4. ColumnsOf(p) = Span(F[1]) \cup Span(F[2]) \cup Span(F[3]) \cup Span(F[4])
    BY <2>3
  <2>5. QED
    BY <2>2, <2>4
<1>5. {IpPack.position[i] : i \in 1..12} = (1..3) \cup (5..7) \cup (9..11) \cup (13..15)
  BY DEF IpPack
<1>6. Ascending(IpPack.position, 12)
  BY DEF IpPack, Ascending
<1>7. QED
  BY <1>1, <1>2, <1>4, <1>5, <1>6 DEF TableFits

LEMMA PortTable == TableFits(124)
<1> DEFINE F == <<[from |-> 1, digits |-> 5]>>
<1>1. XLimit(124) = 4 /\ Pack(124) = IntPack /\ Format(124) = F
  BY DEF IpPage, XLimit, Pack, Format, ClockPage, DigitPage
<1>2. ColumnsOf(124) = 1..5
  <2>1. DOMAIN F = 1..1
    OBVIOUS
  <2>2. Span(F[1]) = 1..5
    BY DEF Span
  <2> HIDE DEF F
  <2>3. ColumnsOf(124) = UNION {Span(F[i]) : i \in {1}}
    <3>1. 1..1 = {1}
      OBVIOUS
    <3>2. QED
      BY <1>1, <2>1, <3>1, Columns DEF NumberPage
  <2>4. QED
    BY <2>2, <2>3
<1>3. {IntPack.position[i] : i \in 1..5} = 1..5
  BY DEF IntPack
<1>4. Ascending(IntPack.position, 5)
  BY DEF IntPack, Ascending
<1>5. QED
  BY <1>1, <1>2, <1>3, <1>4 DEF TableFits

LEMMA RegisterTable == TableFits(125)
<1> DEFINE F == <<[from |-> 4, digits |-> 3], [from |-> 11, digits |-> 5]>>
<1>1. XLimit(125) = 7 /\ Pack(125) = Int2Pack /\ Format(125) = F
  BY DEF IpPage, XLimit, Pack, Format, ClockPage, DigitPage
<1>2. ColumnsOf(125) = (4..6) \cup (11..15)
  <2>1. DOMAIN F = 1..2
    OBVIOUS
  <2>2. Span(F[1]) = 4..6 /\ Span(F[2]) = 11..15
    BY DEF Span
  <2> HIDE DEF F
  <2>3. ColumnsOf(125) = UNION {Span(F[i]) : i \in 1..2}
    BY <1>1, <2>1, Columns DEF NumberPage
  <2>4. ColumnsOf(125) = Span(F[1]) \cup Span(F[2])
    BY <2>3
  <2>5. QED
    BY <2>2, <2>4
<1>3. {Int2Pack.position[i] : i \in 1..8} = (4..6) \cup (11..15)
  BY DEF Int2Pack
<1>4. Ascending(Int2Pack.position, 8)
  BY DEF Int2Pack, Ascending
<1>5. QED
  BY <1>1, <1>2, <1>3, <1>4 DEF TableFits

LEMMA AddressTable == TableFits(126)
<1> DEFINE F == <<[from |-> 1, digits |-> 3]>>
<1>1. XLimit(126) = 2 /\ Pack(126) = Uint8Pack /\ Format(126) = F
  BY DEF IpPage, XLimit, Pack, Format, ClockPage, DigitPage
<1>2. ColumnsOf(126) = 1..3
  <2>1. DOMAIN F = 1..1
    OBVIOUS
  <2>2. Span(F[1]) = 1..3
    BY DEF Span
  <2> HIDE DEF F
  <2>3. ColumnsOf(126) = UNION {Span(F[i]) : i \in {1}}
    <3>1. 1..1 = {1}
      OBVIOUS
    <3>2. QED
      BY <1>1, <2>1, <3>1, Columns DEF NumberPage
  <2>4. QED
    BY <2>2, <2>3
<1>3. {Uint8Pack.position[i] : i \in 1..3} = 1..3
  BY DEF Uint8Pack
<1>4. Ascending(Uint8Pack.position, 3)
  BY DEF Uint8Pack, Ascending
<1>5. QED
  BY <1>1, <1>2, <1>3, <1>4 DEF TableFits

LEMMA DateTable == TableFits(130)
<1> DEFINE F == <<[from |-> 3, digits |-> 2], [from |-> 6, digits |-> 2], [from |-> 9, digits |-> 2]>>
<1>1. XLimit(130) = 5 /\ Pack(130) = DatePack /\ Format(130) = F
  BY DEF IpPage, XLimit, Pack, Format, ClockPage, DigitPage
<1>2. ColumnsOf(130) = (3..4) \cup (6..7) \cup (9..10)
  <2>1. DOMAIN F = 1..3
    OBVIOUS
  <2>2. Span(F[1]) = 3..4 /\ Span(F[2]) = 6..7 /\ Span(F[3]) = 9..10
    BY DEF Span
  <2> HIDE DEF F
  <2>3. ColumnsOf(130) = UNION {Span(F[i]) : i \in 1..3}
    BY <1>1, <2>1, Columns DEF NumberPage
  <2>4. ColumnsOf(130) = Span(F[1]) \cup Span(F[2]) \cup Span(F[3])
    BY <2>3
  <2>5. QED
    BY <2>2, <2>4
<1>3. {DatePack.position[i] : i \in 1..6} = (3..4) \cup (6..7) \cup (9..10)
  BY DEF DatePack
<1>4. Ascending(DatePack.position, 6)
  BY DEF DatePack, Ascending
<1>5. QED
  BY <1>1, <1>2, <1>3, <1>4 DEF TableFits

LEMMA TimeTable == TableFits(131)
<1> DEFINE F == <<[from |-> 1, digits |-> 2], [from |-> 4, digits |-> 2], [from |-> 7, digits |-> 2]>>
<1>1. XLimit(131) = 5 /\ Pack(131) = TimePack /\ Format(131) = F
  BY DEF IpPage, XLimit, Pack, Format, ClockPage, DigitPage
<1>2. ColumnsOf(131) = (1..2) \cup (4..5) \cup (7..8)
  <2>1. DOMAIN F = 1..3
    OBVIOUS
  <2>2. Span(F[1]) = 1..2 /\ Span(F[2]) = 4..5 /\ Span(F[3]) = 7..8
    BY DEF Span
  <2> HIDE DEF F
  <2>3. ColumnsOf(131) = UNION {Span(F[i]) : i \in 1..3}
    BY <1>1, <2>1, Columns DEF NumberPage
  <2>4. ColumnsOf(131) = Span(F[1]) \cup Span(F[2]) \cup Span(F[3])
    BY <2>3
  <2>5. QED
    BY <2>2, <2>4
<1>3. {TimePack.position[i] : i \in 1..6} = (1..2) \cup (4..5) \cup (7..8)
  BY DEF TimePack
<1>4. Ascending(TimePack.position, 6)
  BY DEF TimePack, Ascending
<1>5. QED
  BY <1>1, <1>2, <1>3, <1>4 DEF TableFits


(* ...and each place stands in the number the buttons change, which fits   *)
(* its columns with its largest value.                                     *)
RightDigit(p, x) ==
  LET at == Pack(p).position[x + 1]
      i == Pack(p).index[x + 1]
      number == Format(p)[i + 1]
      last == number.from + number.digits - 1
  IN /\ at \in number.from..last
     /\ Pack(p).digit[x + 1] = 10^(last - at) /\ Pack(p).digit[x + 1] \in Nat
     /\ Limit(p, i) \in Nat /\ Limit(p, i) > 9
     /\ Printed(p, i, Limit(p, i)) < 10^number.digits

LEMMA Powers ==
  10^0 = 1 /\ 10^1 = 10 /\ 10^2 = 100 /\ 10^3 = 1000 /\ 10^4 = 10000 /\ 10^5 = 100000
  OBVIOUS

LEMMA PowerOfTen ==
  ASSUME NEW e \in 0..4
  PROVE  Five[5 - e] = 10^e /\ Five[5 - e] \in Nat
<1>1. e = 0 \/ e = 1 \/ e = 2 \/ e = 3 \/ e = 4
  OBVIOUS
<1>2. e = 0 => Five[5 - e] = 10^e /\ Five[5 - e] \in Nat
  BY Powers DEF Five
<1>3. e = 1 => Five[5 - e] = 10^e /\ Five[5 - e] \in Nat
  BY Powers DEF Five
<1>4. e = 2 => Five[5 - e] = 10^e /\ Five[5 - e] \in Nat
  BY Powers DEF Five
<1>5. e = 3 => Five[5 - e] = 10^e /\ Five[5 - e] \in Nat
  BY Powers DEF Five
<1>6. e = 4 => Five[5 - e] = 10^e /\ Five[5 - e] \in Nat
  BY Powers DEF Five
<1>7. QED
  BY <1>1, <1>2, <1>3, <1>4, <1>5, <1>6

(* A place with e others to its right in its number.                       *)
LEMMA DigitOf ==
  ASSUME NEW p, NEW x, NEW i, NEW f \in Int, NEW n \in 2..5, NEW e \in 0..n - 1,
         Pack(p).index[x + 1] = i, Pack(p).position[x + 1] = f + n - 1 - e,
         Pack(p).digit[x + 1] = Five[5 - e],
         Format(p)[i + 1].from = f, Format(p)[i + 1].digits = n,
         Limit(p, i) \in Nat, Limit(p, i) > 9,
         Printed(p, i, Limit(p, i)) < 10^n
  PROVE  RightDigit(p, x)
<1>1. /\ (f + n - 1) - (f + n - 1 - e) = e
      /\ f + n - 1 - e \in f..f + n - 1 /\ e \in 0..4
  OBVIOUS
<1>2. Pack(p).digit[x + 1] = 10^e /\ Pack(p).digit[x + 1] \in Nat
  BY <1>1, PowerOfTen
<1>3. QED
  BY <1>1, <1>2 DEF RightDigit

LEMMA IpDigits ==
  ASSUME NEW p \in IpPage, NEW x \in 0..11
  PROVE  RightDigit(p, x)
<1> DEFINE F == <<[from |-> 1, digits |-> 3], [from |-> 5, digits |-> 3],
                  [from |-> 9, digits |-> 3], [from |-> 13, digits |-> 3]>>
<1>1. Pack(p) = IpPack /\ Format(p) = F
  BY DEF IpPage, Pack, Format
<1>2. ASSUME NEW i
      PROVE  Limit(p, i) = 255 /\ Printed(p, i, 255) = 255
  BY DEF IpPage, Limit, Printed
<1>3. PICK i \in 0..3, e \in 0..2 : x = 3 * i + 2 - e
  OBVIOUS
<1>4. IpPack.index[x + 1] = i /\ IpPack.position[x + 1] = 1 + 4 * i + 2 - e
  BY <1>3 DEF IpPack
<1>5. IpPack.digit[x + 1] = Five[5 - e]
  BY <1>3 DEF IpPack, Three, Five
<1>6. F[i + 1].from = 1 + 4 * i /\ F[i + 1].digits = 3
  OBVIOUS
<1> HIDE DEF F
<1>7. QED
  BY <1>1, <1>2, <1>4, <1>5, <1>6, DigitOf, Powers

LEMMA PortDigits ==
  ASSUME NEW x \in 0..4
  PROVE  RightDigit(124, x)
<1> DEFINE F == <<[from |-> 1, digits |-> 5]>>
<1>1. Pack(124) = IntPack /\ Format(124) = F
  BY DEF IpPage, Pack, Format
<1>2. Limit(124, 0) = 65535 /\ Printed(124, 0, 65535) = 65535
  BY DEF IpPage, Limit, Printed
<1>3. PICK e \in 0..4 : x = 4 - e
  OBVIOUS
<1>4. /\ IntPack.index[x + 1] = 0 /\ IntPack.position[x + 1] = 1 + 5 - 1 - e
      /\ IntPack.digit[x + 1] = Five[5 - e]
  BY <1>3 DEF IntPack, Five
<1>5. F[0 + 1].from = 1 /\ F[0 + 1].digits = 5
  OBVIOUS
<1> HIDE DEF F
<1>6. QED
  BY <1>1, <1>2, <1>4, <1>5, DigitOf, Powers

LEMMA RegisterDigits ==
  ASSUME NEW x \in 0..7
  PROVE  RightDigit(125, x)
<1> DEFINE F == <<[from |-> 4, digits |-> 3], [from |-> 11, digits |-> 5]>>
<1>1. Pack(125) = Int2Pack /\ Format(125) = F
  BY DEF IpPage, Pack, Format
<1>2. /\ Limit(125, 0) = 255 /\ Printed(125, 0, 255) = 255
      /\ Limit(125, 1) = 65535 /\ Printed(125, 1, 65535) = 65535
  BY DEF IpPage, Limit, Printed
<1>3. /\ F[0 + 1].from = 4 /\ F[0 + 1].digits = 3
      /\ F[1 + 1].from = 11 /\ F[1 + 1].digits = 5
  OBVIOUS
<1> HIDE DEF F
<1>4. CASE x \in 0..2
  <2>1. PICK e \in 0..2 : x = 2 - e
    BY <1>4
  <2>2. /\ Int2Pack.index[x + 1] = 0 /\ Int2Pack.position[x + 1] = 4 + 3 - 1 - e
        /\ Int2Pack.digit[x + 1] = Five[5 - e]
    BY <2>1 DEF Int2Pack, Five, Three
  <2>3. QED
    BY <1>1, <1>2, <1>3, <2>2, DigitOf, Powers
<1>5. CASE x \in 3..7
  <2>1. PICK e \in 0..4 : x = 7 - e
    BY <1>5
  <2>2. /\ Int2Pack.index[x + 1] = 1 /\ Int2Pack.position[x + 1] = 11 + 5 - 1 - e
        /\ Int2Pack.digit[x + 1] = Five[5 - e]
    BY <2>1 DEF Int2Pack, Five, Three
  <2>3. QED
    BY <1>1, <1>2, <1>3, <2>2, DigitOf, Powers
<1>6. QED
  BY <1>4, <1>5

LEMMA AddressDigits ==
  ASSUME NEW x \in 0..2
  PROVE  RightDigit(126, x)
<1> DEFINE F == <<[from |-> 1, digits |-> 3]>>
<1>1. Pack(126) = Uint8Pack /\ Format(126) = F
  BY DEF IpPage, Pack, Format
<1>2. Limit(126, 0) = 255 /\ Printed(126, 0, 255) = 255
  BY DEF IpPage, Limit, Printed
<1>3. PICK e \in 0..2 : x = 2 - e
  OBVIOUS
<1>4. /\ Uint8Pack.index[x + 1] = 0 /\ Uint8Pack.position[x + 1] = 1 + 3 - 1 - e
      /\ Uint8Pack.digit[x + 1] = Five[5 - e]
  BY <1>3 DEF Uint8Pack, Three, Five
<1>5. F[0 + 1].from = 1 /\ F[0 + 1].digits = 3
  OBVIOUS
<1> HIDE DEF F
<1>6. QED
  BY <1>1, <1>2, <1>4, <1>5, DigitOf, Powers

LEMMA DateDigits ==
  ASSUME NEW x \in 0..5
  PROVE  RightDigit(130, x)
<1> DEFINE F == <<[from |-> 3, digits |-> 2], [from |-> 6, digits |-> 2], [from |-> 9, digits |-> 2]>>
<1>1. Pack(130) = DatePack /\ Format(130) = F
  BY DEF IpPage, Pack, Format
<1>2. ASSUME NEW i \in 0..2
      PROVE  /\ Limit(130, i) \in Nat /\ Limit(130, i) > 9
             /\ Printed(130, i, Limit(130, i)) < 100
  BY DEF IpPage, Limit, Printed
<1>3. PICK i \in 0..2, e \in 0..1 : x = 2 * i + 1 - e
  OBVIOUS
<1>4. /\ DatePack.index[x + 1] = i /\ DatePack.position[x + 1] = 3 + 3 * i + 2 - 1 - e
      /\ DatePack.digit[x + 1] = Five[5 - e]
  BY <1>3 DEF DatePack, Pairs, Five
<1>5. F[i + 1].from = 3 + 3 * i /\ F[i + 1].digits = 2
  OBVIOUS
<1> HIDE DEF F
<1>6. QED
  BY <1>1, <1>2, <1>4, <1>5, DigitOf, Powers

LEMMA TimeDigits ==
  ASSUME NEW x \in 0..5
  PROVE  RightDigit(131, x)
<1> DEFINE F == <<[from |-> 1, digits |-> 2], [from |-> 4, digits |-> 2], [from |-> 7, digits |-> 2]>>
<1>1. Pack(131) = TimePack /\ Format(131) = F
  BY DEF IpPage, Pack, Format
<1>2. ASSUME NEW i \in 0..2
      PROVE  /\ Limit(131, i) \in Nat /\ Limit(131, i) > 9
             /\ Printed(131, i, Limit(131, i)) < 100
  BY DEF IpPage, Limit, Printed
<1>3. PICK i \in 0..2, e \in 0..1 : x = 2 * i + 1 - e
  OBVIOUS
<1>4. /\ TimePack.index[x + 1] = i /\ TimePack.position[x + 1] = 1 + 3 * i + 2 - 1 - e
      /\ TimePack.digit[x + 1] = Five[5 - e]
  BY <1>3 DEF TimePack, Pairs, Five
<1>5. F[i + 1].from = 1 + 3 * i /\ F[i + 1].digits = 2
  OBVIOUS
<1> HIDE DEF F
<1>6. QED
  BY <1>1, <1>2, <1>4, <1>5, DigitOf, Powers

LEMMA EveryTable ==
  ASSUME NEW p \in NumberPage
  PROVE  TableFits(p) /\ \A x \in 0..XLimit(p) : RightDigit(p, x)
<1>1. p \in IpPage \/ p = 124 \/ p = 125 \/ p = 126 \/ p = 130 \/ p = 131
  BY DEF NumberPage
<1>2. /\ p \in IpPage => XLimit(p) = 11
      /\ XLimit(124) = 4 /\ XLimit(125) = 7 /\ XLimit(126) = 2
      /\ XLimit(130) = 5 /\ XLimit(131) = 5
  BY DEF IpPage, XLimit, ClockPage, DigitPage
<1>3. TableFits(p)
  BY <1>1, IpTable, PortTable, RegisterTable, AddressTable, DateTable, TimeTable
<1>4. \A x \in 0..XLimit(p) : RightDigit(p, x)
  BY <1>1, <1>2, IpDigits, PortDigits, RegisterDigits, AddressDigits, DateDigits, TimeDigits
<1>5. QED
  BY <1>3, <1>4

(* UP and DOWN take each other back, unless the limit sends the number     *)
(* round to zero.                                                          *)
LEMMA UpAndDown ==
  ASSUME NEW p, NEW x, Pack(p).digit[x + 1] \in Nat,
         Limit(p, Pack(p).index[x + 1]) \in Nat,
         NEW v \in 0..Limit(p, Pack(p).index[x + 1])
  PROVE  LET up == Increase(p, x, v)
         IN  up # 0 => /\ up <= Limit(p, Pack(p).index[x + 1])
                       /\ Decrease(p, x, up) = v
<1> DEFINE d == Pack(p).digit[x + 1]
           l == Limit(p, Pack(p).index[x + 1])
<1>1. d \in Nat /\ l \in Nat /\ v \in 0..l
  OBVIOUS
<1>2. \A w \in Int : /\ Increase(p, x, w) = Limited(w + d, l)
                    /\ Decrease(p, x, w) = Limited(w - d, l)
  BY DEF Increase, Decrease
<1> HIDE DEF d, l
<1>3. Limited(v + d, l) # 0 => /\ Limited(v + d, l) = v + d /\ v + d <= l
                               /\ Limited(v + d - d, l) = v
  BY <1>1 DEF Limited
<1>4. ASSUME Increase(p, x, v) # 0
      PROVE  Increase(p, x, v) <= l /\ Decrease(p, x, Increase(p, x, v)) = v
  <2>1. Increase(p, x, v) = v + d /\ v + d <= l /\ Limited(v + d - d, l) = v
    BY <1>1, <1>2, <1>3, <1>4
  <2>2. PICK w \in Int : w = v + d
    BY <1>1
  <2>3. Decrease(p, x, w) = Limited(w - d, l)
    BY <1>2
  <2>4. QED
    BY <1>1, <2>1, <2>2, <2>3
<1>5. QED
  BY <1>4 DEF l

(* On every page that sets something the cursor stands on a digit.         *)
LEMMA CursorOnDigit ==
  ASSUME NEW m \in Record, IsSettingMenu(m.page), m.x <= XLimit(m.page)
  PROVE  LET p == m.page  x == m.x  all == ColumnsOf(p)  at == CursorColumn(m)
         IN /\ at \in all /\ Cardinality(all) = XLimit(p) + 1
            /\ Cardinality({c \in all : c < at}) = x
            /\ p \in NumberPage => RightDigit(p, x) /\ at = Pack(p).position[x + 1]
<1> DEFINE p == m.page
           x == m.x
           all == ColumnsOf(p)
           at == CursorColumn(m)
<1>0. p \in Page /\ x \in 0..XLimit(p) /\ XLimit(p) \in Nat
  BY FieldTypes, LimitType DEF Record
<1>1. CASE p \in NumberPage
  <2>1. at = Pack(p).position[x + 1]
    BY <1>1, NumberPages DEF CursorColumn
  <2>2. TableFits(p) /\ RightDigit(p, x)
    BY <1>0, <1>1, EveryTable
  <2> DEFINE k == XLimit(p) + 1
             f == Pack(p).position
  <2>3. k \in Nat /\ x \in 0..k - 1 /\ Ascending(f, k) /\ all = {f[i] : i \in 1..k}
    BY <1>0, <2>2 DEF TableFits
  <2> HIDE DEF k, f, all, x
  <2>4. f[x + 1] \in all /\ Cardinality(all) = k /\ Cardinality({c \in all : c < f[x + 1]}) = x
    BY <2>3, Ranked
  <2>5. QED
    BY <2>1, <2>2, <2>4 DEF k, f, all, x
<1>2. CASE p \in OnOff
  <2>1. p \notin DigitPage \cup NumberPage /\ XLimit(p) = 0
    BY <1>2 DEF OnOff, SensorPage, ModePage, DigitPage, NumberPage, IpPage, XLimit, ClockPage
  <2>2. all = {2} /\ at = 2 /\ x = 0
    BY <1>0, <1>2, <2>1 DEF ColumnsOf, CursorColumn
  <2>3. {c \in {2} : c < 2} = {}
    OBVIOUS
  <2>4. Cardinality({2}) = 1 /\ Cardinality({}) = 0
    BY FS_Singleton, FS_EmptySet
  <2>5. QED
    BY <2>1, <2>2, <2>3, <2>4
<1>3. CASE p \in DigitPage
  <2>1. p \notin OnOff \cup NumberPage /\ XLimit(p) = LastPlace
    BY <1>3 DEF OnOff, SensorPage, ModePage, DigitPage, NumberPage, IpPage, XLimit, ClockPage
  <2>2. LastPlace \in 0..3 /\ x \in 0..LastPlace
    BY <1>0, <2>1, CodeAssumption, PlaceAssumption
  <2>3. all = 7..7 + LastPlace
    BY <1>3, <2>1 DEF ColumnsOf
  <2>4. at = 7 + x
    <3>1. at = CodePosition[x + 1]
      BY <1>3, <2>1 DEF CursorColumn
    <3>2. \A y \in 0..3 : CodePosition[y + 1] = 7 + y
      BY DEF CodePosition
    <3>3. QED
      BY <2>2, <3>1, <3>2
  <2> HIDE DEF all, at
  <2>5. {c \in all : c < at} = 7..6 + x /\ at \in all
    BY <2>2, <2>3, <2>4
  <2>6. Cardinality(7..7 + LastPlace) = LastPlace + 1 /\ Cardinality(7..6 + x) = x
    <3>1. \A y \in Int : Cardinality(7..y) = IF 7 > y THEN 0 ELSE y - 7 + 1
      BY FS_Interval
    <3>2. 7 + LastPlace \in Int /\ 6 + x \in Int
      BY <2>2
    <3> HIDE DEF x
    <3>3. QED
      BY <2>2, <3>1, <3>2
  <2>7. QED
    BY <2>1, <2>3, <2>5, <2>6 DEF all, at
<1>4. p \in NumberPage \cup OnOff \cup DigitPage
  BY <1>0 DEF IsSettingMenu, Page, NumberPage, IpPage, OnOff, SensorPage, ModePage,
     NetworkPage, ClockPage, DigitPage
<1>5. QED
  BY <1>1, <1>2, <1>3, <1>4

(* While a value is set the cursor is on one of its digits, and the        *)
(* buttons change that digit, by the tables of every page.                 *)
THEOREM CursorFollows == DisplaySpec => []DigitUnderCursor
<1>1. DisplaySafe => DigitUnderCursor
  <2> SUFFICES ASSUME DisplaySafe, m_menu.mode = "setting", idle > 0
               PROVE  DigitUnderCursor
    BY DEF DigitUnderCursor
  <2> DEFINE p == m_menu.page
             x == m_menu.x
             i == Pack(p).index[x + 1]
  <2>1. cursor.on /\ cursor.at = CursorColumn(m_menu)
    BY DEF DisplaySafe, CursorGood
  <2>2. m_menu \in Record /\ IsSettingMenu(p) /\ x <= XLimit(p)
    BY DEF DisplaySafe, Safe, Good, OnPage
  <2>3. /\ cursor.at \in ColumnsOf(p) /\ Cardinality(ColumnsOf(p)) = XLimit(p) + 1
        /\ Cardinality({c \in ColumnsOf(p) : c < cursor.at}) = x
        /\ p \in NumberPage => RightDigit(p, x) /\ cursor.at = Pack(p).position[x + 1]
    BY <2>1, <2>2, CursorOnDigit
  <2>4. ASSUME p \in NumberPage
        PROVE  \A v \in {0, 9, Limit(p, i) - 1, Limit(p, i)} :
                 LET up == Increase(p, x, v)
                 IN  up # 0 => up <= Limit(p, i) /\ Decrease(p, x, up) = v
    <3>1. Pack(p).digit[x + 1] \in Nat /\ Limit(p, i) \in Nat /\ Limit(p, i) > 9
      BY <2>3, <2>4 DEF RightDigit
    <3>2. {0, 9, Limit(p, i) - 1, Limit(p, i)} \subseteq 0..Limit(p, i)
      BY <3>1
    <3>3. QED
      BY <3>1, <3>2, UpAndDown
  <2>5. QED
    BY <2>1, <2>3, <2>4 DEF DigitUnderCursor, RightDigit
<1>2. QED
  BY <1>1, DisplaySafeAlways, PTL

=============================================================================
