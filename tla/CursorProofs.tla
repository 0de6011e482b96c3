------------------------------ MODULE CursorProofs ------------------------------
(***************************************************************************)
(* Every property of Cursor.tla, for every set of texts: what is borrowed  *)
(* is storage of the text's units, and the cursor and the kept mark each   *)
(* stand at the place of a position.                                       *)
(***************************************************************************)
EXTENDS Cursor, TextProofs, TLAPS

Places == Text(text).places

Began == mark = Mark(0, FALSE, 0) /\ kept = Mark(0, FALSE, 0)
Refused == view = View("refused", <<>>, Text(text).error) /\ Text(text).error # None
Shown ==
  Text(text).error = None /\ Viewed(view, Units, Places) /\ (view.kind # "units" => view.data = text)
StandsAt(m) == \E p \in 0..Len(Units) : m = Stand(view, Places, p)

Inv ==
  /\ text \in Texts
  /\ \/ view = Unread /\ Began
     \/ Refused /\ Began
     \/ Shown /\ StandsAt(mark) /\ StandsAt(kept)

LEMMA TextBytes == ASSUME text \in Texts PROVE text \in Seq(Octet)
<1> QED BY CursorConstants DEF Octet

(* What is borrowed is storage of one of the three kinds.                  *)
LEMMA BorrowedIs ==
  ASSUME Inv
  PROVE  /\ Borrowed => Shown /\ StandsAt(mark) /\ StandsAt(kept)
         /\ view.kind \notin {"unread", "refused"} => Borrowed
         /\ view.kind = "refused" => Refused
         /\ Shown => Borrowed
<1>1. Shown => Borrowed BY DEF Shown, Viewed, Borrowed
<1>2. view = Unread => view.kind = "unread" BY DEF Unread, View
<1>3. Refused => view.kind = "refused" BY DEF Refused, View
<1>4. Borrowed => view.kind # "unread" /\ view.kind # "refused" BY DEF Borrowed
<1> QED BY <1>1, <1>2, <1>3, <1>4 DEF Inv

(* A step within a borrow that moves the marks to places of positions.     *)
LEMMA MovesInv ==
  ASSUME Inv, Borrowed, text' = text, view' = view, StandsAt(mark'), StandsAt(kept')
  PROVE  Inv'
<1>1. Shown /\ text \in Texts BY BorrowedIs DEF Inv
<1>2. Units' = Units /\ Places' = Places BY DEF Units, Places
<1>3. Shown' BY <1>1, <1>2 DEF Shown
<1>4. (StandsAt(mark))' /\ (StandsAt(kept))' BY <1>2 DEF StandsAt
<1> QED BY <1>1, <1>3, <1>4 DEF Inv

LEMMA InitInv == Init => Inv
<1> SUFFICES ASSUME Init PROVE Inv OBVIOUS
<1> QED BY DEF Init, Inv, Began

LEMMA FirstPlace ==
  ASSUME NEW v, NEW us, NEW ps, Viewed(v, us, ps)
  PROVE  Stand(v, ps, 0) = Mark(0, FALSE, 0) /\ 0 \in 0..Len(us)
<1>1. 0 \in 0..Len(us)
  <2>1. Len(us) \in Nat BY DEF Viewed
  <2> QED BY <2>1
<1>2. CASE v.kind = "bytes"
  <2>1. Stand(v, ps, 0) = Mark(0, FALSE, 0) BY <1>2, EndsStand, Zenon
  <2> QED BY <1>1, <2>1, Zenon
<1>3. CASE v.kind # "bytes" BY <1>1, <1>3, Zenon DEF Stand
<1> QED BY <1>2, <1>3

LEMMA BorrowInv ==
  ASSUME Inv, BorrowBytes \/ BorrowUnits
  PROVE  Inv'
<1>1. view = Unread /\ text' = text /\ mark' = mark /\ kept' = kept BY DEF BorrowBytes, BorrowUnits
<1>2. view.kind = "unread" BY <1>1 DEF Unread, View
<1>3. Began /\ text \in Texts /\ text \in Seq(Octet)
  <2>1. ~Shown /\ ~Refused BY <1>2, BorrowedIs DEF Borrowed, Refused, View
  <2> QED BY <2>1, TextBytes DEF Inv
<1>4. Began' BY <1>1, <1>3 DEF Began
<1>5. /\ Counted(text).error = Text(text).error /\ Text(text)' = Text(text)
      /\ Units' = Units /\ Places' = Places /\ Units = Text(text).units /\ Places = Text(text).places
  <2>1. 0 \in 0..Len(text) BY <1>3
  <2>2. CountedFrom(text)[0].error = TextFrom(text)[0].error BY <1>3, <2>1, CountedIs
  <2> QED BY <1>1, <2>2 DEF Text, Counted, Units, Places
<1>6. ASSUME Text(text).error = None, Viewed(view', Units, Places), view'.kind # "units" => view'.data = text
      PROVE  Inv'
  <2>1. Shown'
    <3>1. (Text(text)).error' = None BY <1>5, <1>6
    <3>2. Viewed(view', Units', Places') BY <1>5, <1>6
    <3>3. view'.kind # "units" => view'.data = text' BY <1>1, <1>6
    <3> QED BY <3>1, <3>2, <3>3 DEF Shown
  <2>2. Stand(view', Places, 0) = Mark(0, FALSE, 0) /\ 0 \in 0..Len(Units) BY <1>6, FirstPlace
  <2>3. (StandsAt(mark))' /\ (StandsAt(kept))' BY <1>4, <1>5, <2>2 DEF StandsAt, Began
  <2> QED BY <1>1, <1>3, <2>1, <2>3 DEF Inv
<1>7. CASE BorrowBytes
  <2>1. CASE Text(text).error = None
    <3>1. view' = Wtf8(text) BY <1>5, <1>7, <2>1 DEF BorrowBytes
    <3>2. Viewed(Wtf8(text), Units, Places) BY <1>3, <1>5, <2>1, TextViewed
    <3>3. Wtf8(text).data = text BY DEF Wtf8, View
    <3> QED BY <1>6, <2>1, <3>1, <3>2, <3>3
  <2>2. CASE Text(text).error # None
    <3>1. view' = View("refused", <<>>, Text(text).error) BY <1>5, <1>7, <2>2 DEF BorrowBytes
    <3>2. Refused' BY <1>5, <2>2, <3>1 DEF Refused
    <3> QED BY <1>1, <1>3, <1>4, <3>2 DEF Inv
  <2> QED BY <2>1, <2>2
<1>8. CASE BorrowUnits
  <2>1. Text(text).error = None /\ view' = Utf16(Units) BY <1>8 DEF BorrowUnits
  <2>2. Viewed(Utf16(Units), Units, Places) BY <1>3, <1>5, <2>1, TextViewed
  <2>3. Utf16(Units).kind = "units" BY DEF Utf16, View
  <2> QED BY <1>6, <2>1, <2>2, <2>3
<1> QED BY <1>7, <1>8

(* What a read leaves the cursor at, and returns, by its place.            *)
LEMMA Moves ==
  ASSUME Shown, NEW p \in 0..Len(Units), mark = Stand(view, Places, p)
  PROVE  /\ mark.units = p /\ view.units = Len(Units) /\ Len(Units) \in Nat
         /\ NextUnit(view, mark) = Read(Stand(view, Places, Least(Len(Units), p + 1)), UnitAt(p))
         /\ PreviousUnit(view, mark) = Read(Stand(view, Places, IF p = 0 THEN 0 ELSE p - 1), UnitAt(p - 1))
         /\ NextPoint(view, mark) =
              Read(Stand(view, Places, Least(Len(Units), IF PairAt(p) THEN p + 2 ELSE p + 1)), PointAt(p))
         /\ PreviousPoint(view, mark) =
              IF PairAt(p - 2) THEN Read(Stand(view, Places, p - 2), PointAt(p - 2))
              ELSE Read(Stand(view, Places, IF p = 0 THEN 0 ELSE p - 1), UnitAt(p - 1))
         /\ NormalizeUnicodeStart(view, mark) = Stand(view, Places, IF PairAt(p - 1) THEN p - 1 ELSE p)
<1>1. Viewed(view, Units, Places) BY DEF Shown
<1>2. \A q : UnitHere(Units, q) = UnitAt(q) BY Zenon DEF UnitHere, UnitAt
<1>3. \A q : PairHere(Units, q) <=> PairAt(q) BY <1>2, Zenon DEF PairHere, PairAt
<1>4. \A q : PointHere(Units, q) = PointAt(q)
  <2>1. \A q : CombinePair(UnitAt(q), UnitAt(q + 1)) = 65536 + 1024 * (UnitAt(q) - 55296) + (UnitAt(q + 1) - 56320)
    BY SMT DEF CombinePair
  <2> DEFINE C(q) == 65536 + 1024 * (UnitAt(q) - 55296) + (UnitAt(q + 1) - 56320)
  <2>2. \A q : CombinePair(UnitAt(q), UnitAt(q + 1)) = C(q) BY <2>1
  <2>3. \A q : PointAt(q) = IF PairAt(q) THEN C(q) ELSE UnitAt(q) BY SMT DEF PointAt
  <2> HIDE DEF C
  <2> SUFFICES ASSUME NEW q PROVE PointHere(Units, q) = PointAt(q) OBVIOUS
  <2>4. UnitHere(Units, q) = UnitAt(q) /\ UnitHere(Units, q + 1) = UnitAt(q + 1) BY <1>2, Zenon
  <2>5. PointHere(Units, q) = IF PairAt(q) THEN CombinePair(UnitAt(q), UnitAt(q + 1)) ELSE UnitAt(q)
    BY <1>3, <2>4, Zenon DEF PointHere
  <2> QED BY <2>2, <2>3, <2>5, Zenon
<1>5. mark.units = p BY DEF Stand, Mark
<1>6. view.units = Len(Units) /\ Len(Units) \in Nat BY <1>1 DEF Viewed
<1>7. /\ NextUnit(view, mark) = Read(Stand(view, Places, Least(Len(Units), p + 1)), UnitHere(Units, p))
      /\ PreviousUnit(view, mark) = Read(Stand(view, Places, IF p = 0 THEN 0 ELSE p - 1), UnitHere(Units, p - 1))
  BY <1>1, NextRead, PreviousRead
<1>8. NextPoint(view, mark) =
        Read(Stand(view, Places, Least(Len(Units), IF PairHere(Units, p) THEN p + 2 ELSE p + 1)), PointHere(Units, p))
  BY <1>1, NextPointIs
<1>9. PreviousPoint(view, mark) =
        IF PairHere(Units, p - 2) THEN Read(Stand(view, Places, p - 2), PointHere(Units, p - 2))
        ELSE Read(Stand(view, Places, IF p = 0 THEN 0 ELSE p - 1), UnitHere(Units, p - 1))
  BY <1>1, PreviousPointIs
<1>10. NormalizeUnicodeStart(view, mark) = Stand(view, Places, IF PairHere(Units, p - 1) THEN p - 1 ELSE p)
  BY <1>1, NormalizeIs
<1>11. CASE PairAt(p) BY <1>2, <1>3, <1>4, <1>5, <1>6, <1>7, <1>8, <1>9, <1>10, <1>11, Zenon
<1>12. CASE ~PairAt(p) BY <1>2, <1>3, <1>4, <1>5, <1>6, <1>7, <1>8, <1>9, <1>10, <1>12, Zenon
<1> QED BY <1>11, <1>12

(* No pair begins before the first unit or ends after the last.            *)
LEMMA PairWithin ==
  ASSUME NEW p \in Int, PairAt(p), Len(Units) \in Nat
  PROVE  0 <= p /\ p + 2 <= Len(Units)
<1>1. UnitAt(p) # None /\ UnitAt(p + 1) # None BY NoUnit, Zenon DEF PairAt
<1>2. p \in 0..(Len(Units) - 1) /\ p + 1 \in 0..(Len(Units) - 1) BY <1>1, Zenon DEF UnitAt
<1> QED BY <1>2

(* Every read is to the place of a position.                               *)
LEMMA MovesStand ==
  ASSUME Shown, StandsAt(mark)
  PROVE  /\ StandsAt(NextUnit(view, mark).mark) /\ StandsAt(PreviousUnit(view, mark).mark)
         /\ StandsAt(NextPoint(view, mark).mark) /\ StandsAt(PreviousPoint(view, mark).mark)
         /\ StandsAt(NormalizeUnicodeStart(view, mark))
<1>1. PICK p \in 0..Len(Units) : mark = Stand(view, Places, p) BY DEF StandsAt
<1> DEFINE n == Len(Units)
<1>2. n \in Nat /\ p \in Nat /\ p <= n BY <1>1, Moves
<1>3. /\ Least(n, p + 1) \in 0..n /\ Least(n, p + 2) \in 0..n
      /\ (IF p = 0 THEN 0 ELSE p - 1) \in 0..n
  BY <1>2 DEF Least
<1>4. PairAt(p - 2) => p - 2 \in 0..n
  <2>1. p - 2 \in Int BY <1>2
  <2>2. PairAt(p - 2) => 0 <= p - 2 BY <1>2, <2>1, PairWithin
  <2> QED BY <1>2, <2>2
<1>5. PairAt(p - 1) => p - 1 \in 0..n
  <2>1. p - 1 \in Int BY <1>2
  <2>2. PairAt(p - 1) => 0 <= p - 1 BY <1>2, <2>1, PairWithin
  <2> QED BY <1>2, <2>2
<1>6. NextUnit(view, mark).mark = Stand(view, Places, Least(n, p + 1)) BY <1>1, Moves, ReadIs
<1>7. PreviousUnit(view, mark).mark = Stand(view, Places, IF p = 0 THEN 0 ELSE p - 1) BY <1>1, Moves, ReadIs
<1>8. NextPoint(view, mark).mark = Stand(view, Places, Least(n, IF PairAt(p) THEN p + 2 ELSE p + 1))
  BY <1>1, Moves, ReadIs
<1>9. PreviousPoint(view, mark).mark =
        IF PairAt(p - 2) THEN Stand(view, Places, p - 2) ELSE Stand(view, Places, IF p = 0 THEN 0 ELSE p - 1)
  BY <1>1, Moves, ReadIs
<1>10. NormalizeUnicodeStart(view, mark) = Stand(view, Places, IF PairAt(p - 1) THEN p - 1 ELSE p)
  BY <1>1, Moves
<1>11. \A q \in 0..n : StandsAt(Stand(view, Places, q)) BY DEF StandsAt
<1> HIDE DEF n
<1>12. Least(n, IF PairAt(p) THEN p + 2 ELSE p + 1) \in 0..n BY <1>3, Zenon
<1>13. (IF PairAt(p - 1) THEN p - 1 ELSE p) \in 0..n
  <2>1. p \in 0..n BY <1>2
  <2> QED BY <1>5, <2>1, Zenon
<1> QED BY <1>3, <1>4, <1>6, <1>7, <1>8, <1>9, <1>10, <1>11, <1>12, <1>13, Zenon

LEMMA NextInv == Inv /\ [Next]_vars => Inv'
<1> SUFFICES ASSUME Inv, [Next]_vars PROVE Inv' OBVIOUS
<1>1. CASE UNCHANGED vars
  <2>1. text' = text /\ view' = view /\ mark' = mark /\ kept' = kept BY <1>1 DEF vars
  <2> QED BY <2>1 DEF Inv, Began, Refused, Shown, StandsAt, Units, Places
<1>2. CASE BorrowBytes \/ BorrowUnits BY <1>2, BorrowInv
<1>3. ASSUME Borrowed, text' = text, view' = view, kept' = kept, StandsAt(mark') PROVE Inv'
  <2>1. StandsAt(kept') BY <1>3, BorrowedIs
  <2> QED BY <1>3, <2>1, MovesInv
<1>4. Borrowed => Shown /\ StandsAt(mark) /\ StandsAt(kept) /\ Viewed(view, Units, Places)
  BY BorrowedIs DEF Shown
<1>5. ASSUME NEW p \in 0..view.units, SeekTo(p) PROVE Inv'
  <2>1. Borrowed /\ mark' = CursorAt(view, p) /\ text' = text /\ view' = view /\ kept' = kept
    BY <1>5 DEF SeekTo
  <2>2. p \in 0..Len(Units) BY <1>4, <2>1 DEF Viewed
  <2>3. CursorAt(view, p) = Stand(view, Places, p) BY <1>4, <2>1, <2>2, CursorAtIs
  <2> QED BY <1>3, <2>1, <2>2, <2>3 DEF StandsAt
<1>6. CASE StepUnit \/ BackUnit \/ StepPoint \/ BackPoint \/ Normalize
  <2>1. /\ Borrowed /\ text' = text /\ view' = view /\ kept' = kept
        /\ \/ mark' = NextUnit(view, mark).mark \/ mark' = PreviousUnit(view, mark).mark
           \/ mark' = NextPoint(view, mark).mark \/ mark' = PreviousPoint(view, mark).mark
           \/ mark' = NormalizeUnicodeStart(view, mark)
    BY <1>6 DEF StepUnit, BackUnit, StepPoint, BackPoint, Normalize, Reads
  <2>2. StandsAt(mark') BY <1>4, <2>1, MovesStand
  <2> QED BY <1>3, <2>1, <2>2
<1>7. ASSUME NEW count \in 1..2, Skip(count) PROVE Inv'
  <2>1. Borrowed /\ mark' = SkipAscii(view, mark, count) /\ text' = text /\ view' = view /\ kept' = kept
    BY <1>7 DEF Skip
  <2>2. PICK p \in 0..Len(Units) : mark = Stand(view, Places, p) BY <1>4, <2>1 DEF StandsAt
  <2>3. \E q \in 0..Len(Units) : SkipAscii(view, mark, count) = Stand(view, Places, q)
    <3>1. \E q \in 0..Len(Units) : SkipAscii(view, Stand(view, Places, p), count) = Stand(view, Places, q)
      BY <1>4, <2>1, SkipIs, ZenonT(60)
    <3> QED BY <2>2, <3>1, Zenon
  <2> QED BY <1>3, <2>1, <2>3 DEF StandsAt
<1>8. CASE Keep
  <2>1. Borrowed /\ text' = text /\ view' = view /\ kept' = mark /\ mark' = mark BY <1>8 DEF Keep
  <2> QED BY <1>4, <2>1, MovesInv
<1>9. CASE Resume
  <2>1. Borrowed /\ text' = text /\ view' = view /\ kept' = kept /\ mark' = kept BY <1>9 DEF Resume
  <2> QED BY <1>4, <2>1, MovesInv
<1> QED BY <1>1, <1>2, <1>5, <1>6, <1>7, <1>8, <1>9 DEF Next

(* What is borrowed is storage of the text, and every mark of it stands at *)
(* the place of a position (input.rs).                                     *)
THEOREM MarksStand == Spec => []Inv
<1> QED BY InitInv, NextInv, PTL DEF Spec
-----------------------------------------------------------------------------
(* Validation takes a text exactly when it is well formed, names the first *)
(* sequence that is not, counts its units, and finds ASCII only where all  *)
(* of it is: wtf8 and decode_checked agree with the table.                 *)
THEOREM TakesTheWellFormed == Spec => []ValidatesExactly
<1>1. Inv => ValidatesExactly
  <2> SUFFICES ASSUME Inv PROVE ValidatesExactly OBVIOUS
  <2>1. view.kind = "refused" => Text(text).error # None /\ view.units = Text(text).error
    BY BorrowedIs DEF Refused, View
  <2>2. ASSUME view.kind \notin {"unread", "refused"}
        PROVE  /\ Text(text).error = None /\ view.units = Len(Units)
               /\ view.kind = "ascii" => \A i \in DOMAIN text : text[i] < 128
    <3>1. Shown /\ text \in Texts BY <2>2, BorrowedIs DEF Inv
    <3>2. text \in Seq(Octet) BY <3>1, TextBytes
    <3>3. Text(text).error = None /\ view.units = Len(Units) BY <3>1 DEF Shown, Viewed
    <3>4. ASSUME view.kind = "ascii" PROVE \A i \in DOMAIN text : text[i] < 128
      <4>1. view.data = Units /\ \A i \in 1..Len(Units) : Units[i] < 128 BY <3>1, <3>4 DEF Shown, Viewed
      <4>2. view.data = text BY <3>1, <3>4 DEF Shown
      <4> QED BY <3>2, <4>1, <4>2
    <3> QED BY <3>3, <3>4
  <2> QED BY <2>1, <2>2 DEF ValidatesExactly
<1> QED BY <1>1, MarksStand, PTL

(* However a cursor came to a position it is at the one offset that        *)
(* position has, and a seek decodes no more than seek_work charges for it: *)
(* cursor_at, seek_byte_offset, and every read and skip.                   *)
THEOREM EachPositionHasOnePlace == Spec => []OnePlaceEach
<1>1. Inv => OnePlaceEach
  <2> SUFFICES ASSUME Inv PROVE OnePlaceEach OBVIOUS
  <2>1. ASSUME Borrowed PROVE mark = Place(view.kind, mark.units)
    <3>1. Shown /\ StandsAt(mark) BY <2>1, BorrowedIs
    <3>2. PICK p \in 0..Len(Units) : mark = Stand(view, Places, p) BY <3>1 DEF StandsAt
    <3>3. mark.units = p BY <3>1, <3>2, Moves
    <3>4. Stand(view, Places, p) = Place(view.kind, p) BY Zenon DEF Stand, Place, Places
    <3> QED BY <3>2, <3>3, <3>4
  <2>2. ASSUME view.kind = "bytes", NEW p \in 1..(view.units - 1)
        PROVE  Sought(view, p).work < SeekWork(view, p)
    <3>1. Viewed(view, Units, Places) /\ view.units = Len(Units) /\ Len(Units) \in Nat
      BY <2>2, BorrowedIs DEF Borrowed, Shown, Viewed
    <3>2. p \in 0..Len(Units) BY <3>1
    <3> QED BY <2>2, <3>1, <3>2, SeekIs
  <2> QED BY <2>1, <2>2 DEF OnePlaceEach
<1> QED BY <1>1, MarksStand, PTL

(* A view takes back every mark made on it, and of all others only what it *)
(* can decode: resume_cursor.                                              *)
THEOREM TakesBackItsMarks == Spec => []MarksAreDecodable
<1>1. Inv => MarksAreDecodable
  <2> SUFFICES ASSUME Inv, Borrowed PROVE MarksAreDecodable BY DEF MarksAreDecodable
  <2> DEFINE places == {Place(view.kind, p) : p \in 0..view.units}
  <2>1. Viewed(view, Units, Places) /\ view.units = Len(Units) /\ Len(Units) \in Nat
    BY BorrowedIs DEF Shown, Viewed
  <2>2. \A p : Stand(view, Places, p) = Place(view.kind, p) BY Zenon DEF Stand, Place, Places
  <2>3. \A at \in places : Resumes(view, at)
    <3>1. \A p \in 0..Len(Units) : Resumes(view, Stand(view, Places, p)) BY <2>1, ResumesAll
    <3> QED BY <2>1, <2>2, <3>1
  <2>4. ASSUME NEW offset \in 0..(Len(view.data) + 1), NEW half \in BOOLEAN, NEW units \in 0..(view.units + 1),
               Resumes(view, Mark(offset, half, units))
        PROVE  /\ \E at \in places : at.offset = offset /\ at.half = half
               /\ offset = Len(view.data) <=> units = view.units
               /\ view.kind # "bytes" => offset = units
    <3>1. offset \in Nat /\ units \in Nat OBVIOUS
    <3>2. /\ \E p \in 0..Len(Units) : Stand(view, Places, p).offset = offset /\ Stand(view, Places, p).half = half
          /\ offset = Len(view.data) <=> units = view.units
          /\ view.kind # "bytes" => offset = units
      BY <2>1, <2>4, <3>1, ResumesOnly
    <3>3. \A p \in 0..Len(Units) : Stand(view, Places, p) \in places BY <2>1, <2>2
    <3> QED BY <3>2, <3>3
  <2> HIDE DEF places
  <2>5. MarksAreDecodable <=>
          (mark.units = 0 =>
            /\ \A at \in places : Resumes(view, at)
            /\ \A offset \in 0..(Len(view.data) + 1), half \in BOOLEAN, units \in 0..(view.units + 1) :
                 Resumes(view, Mark(offset, half, units)) =>
                   /\ \E at \in places : at.offset = offset /\ at.half = half
                   /\ offset = Len(view.data) <=> units = view.units
                   /\ view.kind # "bytes" => offset = units)
    BY DEF MarksAreDecodable, places
  <2> QED BY <2>3, <2>4, <2>5
<1> QED BY <1>1, MarksStand, PTL

(* A read returns the unit or the point of the text there and moves past   *)
(* just that, and a start between the units of a pair is moved to it:      *)
(* next_unit, previous_unit, next_point, previous_point and                *)
(* normalize_unicode_start, in each storage.                               *)
THEOREM ReadsWhatIsThere == Spec => ReadsTheText
<1> DEFINE Tells ==
      LET p == mark.units IN
      /\ StepUnit => answer' = UnitAt(p) /\ (mark'.units = p + 1 \/ p = Len(Units))
      /\ BackUnit => answer' = UnitAt(p - 1) /\ (mark'.units = p - 1 \/ p = 0)
      /\ StepPoint => /\ answer' = PointAt(p)
                      /\ mark'.units = Least(Len(Units), IF PairAt(p) THEN p + 2 ELSE p + 1)
      /\ BackPoint => /\ answer' = IF PairAt(p - 2) THEN PointAt(p - 2) ELSE UnitAt(p - 1)
                      /\ p > 0 => mark'.units = IF PairAt(p - 2) THEN p - 2 ELSE p - 1
      /\ Normalize => mark'.units = IF PairAt(p - 1) THEN p - 1 ELSE p
<1>1. Inv => Tells
  <2> SUFFICES ASSUME Inv, Borrowed PROVE Tells
    BY DEF StepUnit, BackUnit, StepPoint, BackPoint, Normalize
  <2>1. Shown /\ StandsAt(mark) BY BorrowedIs
  <2>2. PICK p \in 0..Len(Units) : mark = Stand(view, Places, p) BY <2>1 DEF StandsAt
  <2>3. mark.units = p /\ Len(Units) \in Nat BY <2>1, <2>2, Moves
  <2>4. \A q : Stand(view, Places, q).units = q BY DEF Stand, Mark
  <2>5. StepUnit => answer' = UnitAt(p) /\ (mark'.units = p + 1 \/ p = Len(Units))
    <3>1. NextUnit(view, mark) = Read(Stand(view, Places, Least(Len(Units), p + 1)), UnitAt(p)) BY <2>1, <2>2, Moves
    <3>2. NextUnit(view, mark).mark.units = Least(Len(Units), p + 1) /\ NextUnit(view, mark).value = UnitAt(p)
      BY <2>4, <3>1, ReadIs
    <3>3. p = Len(Units) \/ Least(Len(Units), p + 1) = p + 1 BY <2>3 DEF Least
    <3> QED BY <3>2, <3>3, Zenon DEF StepUnit, Reads
  <2>6. BackUnit => answer' = UnitAt(p - 1) /\ (mark'.units = p - 1 \/ p = 0)
    <3>1. PreviousUnit(view, mark) = Read(Stand(view, Places, IF p = 0 THEN 0 ELSE p - 1), UnitAt(p - 1))
      BY <2>1, <2>2, Moves
    <3>2. /\ PreviousUnit(view, mark).mark.units = (IF p = 0 THEN 0 ELSE p - 1)
          /\ PreviousUnit(view, mark).value = UnitAt(p - 1)
      BY <2>4, <3>1, ReadIs
    <3> QED BY <3>2, Zenon DEF BackUnit, Reads
  <2>7. StepPoint => /\ answer' = PointAt(p)
                     /\ mark'.units = Least(Len(Units), IF PairAt(p) THEN p + 2 ELSE p + 1)
    <3>1. NextPoint(view, mark) =
            Read(Stand(view, Places, Least(Len(Units), IF PairAt(p) THEN p + 2 ELSE p + 1)), PointAt(p))
      BY <2>1, <2>2, Moves
    <3>2. /\ NextPoint(view, mark).mark.units = Least(Len(Units), IF PairAt(p) THEN p + 2 ELSE p + 1)
          /\ NextPoint(view, mark).value = PointAt(p)
      BY <2>4, <3>1, ReadIs
    <3> QED BY <3>2, Zenon DEF StepPoint, Reads
  <2>8. BackPoint => /\ answer' = IF PairAt(p - 2) THEN PointAt(p - 2) ELSE UnitAt(p - 1)
                     /\ p > 0 => mark'.units = IF PairAt(p - 2) THEN p - 2 ELSE p - 1
    <3>1. PreviousPoint(view, mark) =
            IF PairAt(p - 2) THEN Read(Stand(view, Places, p - 2), PointAt(p - 2))
            ELSE Read(Stand(view, Places, IF p = 0 THEN 0 ELSE p - 1), UnitAt(p - 1))
      BY <2>1, <2>2, Moves
    <3>2. PairAt(p - 2) => /\ PreviousPoint(view, mark).mark.units = p - 2
                           /\ PreviousPoint(view, mark).value = PointAt(p - 2)
      BY <2>4, <3>1, ReadIs
    <3>3. ~PairAt(p - 2) => /\ PreviousPoint(view, mark).mark.units = (IF p = 0 THEN 0 ELSE p - 1)
                            /\ PreviousPoint(view, mark).value = UnitAt(p - 1)
      BY <2>4, <3>1, ReadIs
    <3>4. p > 0 => p # 0 BY <2>3
    <3> QED BY <3>2, <3>3, <3>4, Zenon DEF BackPoint, Reads
  <2>9. Normalize => mark'.units = IF PairAt(p - 1) THEN p - 1 ELSE p
    <3>1. NormalizeUnicodeStart(view, mark) = Stand(view, Places, IF PairAt(p - 1) THEN p - 1 ELSE p)
      BY <2>1, <2>2, Moves
    <3> QED BY <2>4, <3>1, Zenon DEF Normalize
  <2> QED BY <2>3, <2>5, <2>6, <2>7, <2>8, <2>9, Zenon
<1>2. Inv /\ [Next]_vars => [Tells]_vars
  <2> HIDE DEF Tells
  <2> QED BY <1>1
<1>3. ReadsTheText <=> [][Tells]_vars BY DEF ReadsTheText
<1> HIDE DEF Tells
<1> QED BY <1>2, <1>3, MarksStand, PTL DEF Spec
================================================================================
