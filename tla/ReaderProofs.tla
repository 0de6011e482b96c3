------------------------------ MODULE ReaderProofs ------------------------------
(***************************************************************************)
(* Every property of Reader.tla, for every set of texts, of quanta, and    *)
(* every budget.  What a reader has been charged and what it still has to  *)
(* seek make up the distance it began at, and its mark stands at a place   *)
(* of the text in whatever storage the next call borrows.                  *)
(***************************************************************************)
EXTENDS Reader, TextProofs, TLAPS

Places == Text(text).places
OnPlace(m) == \E p \in 0..Len(Units) : m = Stand(Borrow, Places, p)

ReaderFields == {"open", "from", "to", "mark", "seeking", "complete", "failed"}
WalkFields == {"mark", "seeking", "from", "to", "units", "budget", "work", "end"}
Ends == {"none", "work", "changed", "consumer"}

IsWalk(w) == w = [x \in WalkFields |-> w[x]]

(* The units from a position on.                                           *)
Delivers(s, from) == s \in Seq(Nat) /\ \A i \in 1..Len(s) : s[i] = Units[from + i]

(* A span that can be read, and the span and the place of a reader of it.  *)
SpanFits(from, to) == from \in Nat /\ to \in Nat /\ from <= to /\ to <= Len(Units)
NearEnough(at, from) == at \in Nat /\ Distance(at, from) <= Least(from, Len(Units) - from)

(* What a reader, or a walk of it, has delivered and been charged: all     *)
(* that it sought until it stands at the span, and each unit from then on. *)
Progress(seeks, at, from, to, delivered, work) ==
  IF seeks THEN delivered = 0 /\ work + Distance(at, from) = Distance(start, from)
  ELSE at = from + delivered /\ at <= to /\ work = Distance(start, from) + delivered

Served ==
  /\ layout # <<>> /\ DOMAIN reader = ReaderFields
  /\ SpanFits(reader.from, reader.to) /\ OnPlace(reader.mark)
  /\ reader.seeking \in BOOLEAN
  /\ Delivers(got, reader.from) /\ reader.from + Len(got) <= reader.to
  /\ reader.from = reader.to => reader.complete
  /\ reader.complete => Len(got) = reader.to - reader.from
  /\ reader.from # reader.to =>
       /\ NearEnough(start, reader.from)
       /\ charged <= Distance(start, reader.from) + Len(got)
       /\ ~reader.failed =>
            Progress(PausedSeeking(reader), reader.mark.units, reader.from, reader.to, Len(got), charged)

Layouts == {Shape(Wtf8(text)), Shape(Utf16(Units))}

Inv ==
  /\ text \in Texts
  /\ layout # <<>> => layout \in Layouts
  /\ result # "changed layout"
  /\ budget \in Nat /\ charged \in Nat /\ charged + budget <= Budget
  /\ near # Nowhere => layout # <<>> /\ OnPlace(near.mark)
  /\ reader.open => Served

LEMMA TextIs ==
  ASSUME text \in Texts
  PROVE  /\ text \in Seq(Octet) /\ Text(text).error = None /\ Units = Text(text).units
         /\ Chain(text, Units, Places, 0) /\ Units \in Seq(Nat) /\ Len(Units) \in Nat
         /\ Counted(text).units = Len(Units)
         /\ Viewed(Wtf8(text), Units, Places) /\ Viewed(Utf16(Units), Units, Places)
<1>1. text \in Seq(Octet) /\ Text(text).error = None BY ReaderConstants DEF Octet
<1>2. Units = Text(text).units BY DEF Units, Meanings
<1>3. /\ Chain(text, Text(text).units, Places, 0) /\ Text(text).units \in Seq(Nat)
      /\ Counted(text).units = Len(Text(text).units)
      /\ Viewed(Wtf8(text), Text(text).units, Places) /\ Viewed(Utf16(Text(text).units), Text(text).units, Places)
  BY <1>1, TextViewed DEF Places
<1>4. Len(Units) \in Nat BY <1>2, <1>3
<1> QED BY <1>1, <1>2, <1>3, <1>4

(* What a call borrows, in any layout that the binding may have kept, is   *)
(* storage of the text's units.                                            *)
LEMMA BorrowIs ==
  ASSUME text \in Texts, layout \in Layouts
  PROVE  Viewed(Borrow, Units, Places) /\ Borrow.units = Len(Units)
<1>1. CASE layout = Shape(Wtf8(text))
  <2> DEFINE kind == IF Counted(text).units = Len(text) THEN "ascii" ELSE "bytes"
  <2>1. Wtf8(text) = View(kind, text, Counted(text).units) BY DEF Wtf8
  <2>2. layout = <<kind, Len(text), Counted(text).units>> BY <1>1, <2>1 DEF Shape, View
  <2>3. kind # "units" BY DEF kind
  <2> HIDE DEF kind
  <2>4. layout[1] = kind /\ layout[3] = Counted(text).units BY <2>2
  <2>5. Storage = text BY <2>3, <2>4 DEF Storage
  <2>6. Borrow = Wtf8(text) BY <2>1, <2>4, <2>5 DEF Borrow
  <2>7. Viewed(Borrow, Units, Places) BY <2>6, TextIs
  <2> QED BY <2>7 DEF Viewed
<1>2. CASE layout = Shape(Utf16(Units))
  <2>1. layout = <<"units", Len(Units), Len(Units)>> BY <1>2 DEF Shape, Utf16, View
  <2>2. layout[1] = "units" /\ layout[3] = Len(Units) BY <2>1
  <2>3. Borrow = Utf16(Units) BY <2>2 DEF Borrow, Storage, Utf16
  <2>4. Viewed(Borrow, Units, Places) BY <2>3, TextIs
  <2> QED BY <2>4 DEF Viewed
<1> QED BY <1>1, <1>2 DEF Layouts

(* A text has as many units as bytes, or a third of them, or between.      *)
LEMMA PossibleCount ==
  ASSUME text \in Texts
  PROVE  Possible(Len(Units), Len(text))
<1> DEFINE n == Len(Units)
<1>1. n \in Nat /\ text \in Seq(Octet) /\ Chain(text, Units, Places, 0) BY TextIs
<1>2. /\ Depth(Places[1]) = 0 /\ Depth(Places[n + 1]) = Len(text)
      /\ \A p, q \in 1..(n + 1) : p <= q =>
           q - p <= Depth(Places[q]) - Depth(Places[p]) /\ Depth(Places[q]) - Depth(Places[p]) <= 3 * (q - p)
  BY <1>1, ChainRises
<1> HIDE DEF n
<1>3. 1 \in 1..(n + 1) /\ n + 1 \in 1..(n + 1) /\ 1 <= n + 1 BY <1>1
<1>4. (n + 1) - 1 <= Len(text) - 0 /\ Len(text) - 0 <= 3 * ((n + 1) - 1) BY <1>2, <1>3
<1>5. Len(text) \in Nat BY <1>1
<1>6. n <= Len(text) /\ Len(text) <= 3 * n BY <1>1, <1>4, <1>5
<1> QED BY <1>6 DEF Possible, n

(* Steps that leave the text and the layout leave every place.             *)
LEMMA SamePlaces ==
  ASSUME text' = text, layout' = layout
  PROVE  /\ Units' = Units /\ Places' = Places /\ Borrow' = Borrow /\ Layouts' = Layouts
         /\ \A m : (OnPlace(m))' <=> OnPlace(m)
<1>1. Units' = Units /\ Places' = Places BY DEF Units, Places
<1>2. Borrow' = Borrow BY <1>1 DEF Borrow, Storage
<1>3. Layouts' = Layouts BY <1>1 DEF Layouts
<1> QED BY <1>1, <1>2, <1>3 DEF OnPlace
-----------------------------------------------------------------------------
(* A reader that was just opened on a span, or brought to it.              *)
Chosen(chosen, from, to) ==
  /\ DOMAIN chosen = ReaderFields /\ chosen.from = from /\ chosen.to = to
  /\ chosen.seeking \in BOOLEAN /\ chosen.complete = (from = to) /\ ~chosen.failed
  /\ OnPlace(chosen.mark)
  /\ from # to => /\ NearEnough(chosen.mark.units, from)
                  /\ chosen.seeking = (chosen.mark.units # from)

LEMMA PlaceUnits ==
  ASSUME NEW m, OnPlace(m)
  PROVE  m.units \in 0..Len(Units)
BY DEF OnPlace, Stand, Mark

LEMMA DistanceIs ==
  ASSUME NEW x \in Nat, NEW z \in Nat
  PROVE  /\ Distance(x, z) \in Nat /\ Distance(x, z) = Distance(z, x)
         /\ Distance(x, z) = 0 <=> x = z
         /\ x > z => Distance(x - 1, z) = Distance(x, z) - 1
         /\ x < z => Distance(x + 1, z) = Distance(x, z) - 1
BY DEF Distance

LEMMA SelectsInv ==
  ASSUME Inv, layout # <<>>, NEW from, NEW to, SpanFits(from, to),
         NEW chosen, Chosen(chosen, from, to), Selects(chosen)
  PROVE  Inv'
<1>1. /\ reader' = chosen /\ got' = <<>> /\ charged' = 0 /\ start' = chosen.mark.units
      /\ result' = "ready" /\ text' = text /\ layout' = layout /\ near' = near /\ budget' = budget
  BY DEF Selects, host
<1>2. /\ Units' = Units /\ Layouts' = Layouts /\ \A m : (OnPlace(m))' <=> OnPlace(m)
  BY <1>1, SamePlaces
<1>3. text \in Texts /\ layout \in Layouts /\ budget \in Nat /\ budget <= Budget /\ Budget \in Nat
      /\ (near # Nowhere => layout # <<>> /\ OnPlace(near.mark))
  <2>1. budget \in Nat /\ charged \in Nat /\ charged + budget <= Budget BY DEF Inv
  <2>2. Budget \in Nat BY ReaderConstants
  <2>3. budget <= Budget BY <2>1, <2>2
  <2> QED BY <2>1, <2>2, <2>3 DEF Inv
<1>4. Len(Units) \in Nat BY <1>3, TextIs
<1>5. from \in Nat /\ to \in Nat /\ from <= to /\ to <= Len(Units) BY DEF SpanFits
<1>6. chosen.mark.units \in 0..Len(Units) /\ chosen.mark.units \in Nat BY <1>4, PlaceUnits DEF Chosen
<1>7. Len(got') = 0 BY <1>1
<1>8. (Delivers(got, reader.from))' BY <1>1, <1>7 DEF Delivers
<1>9. (SpanFits(reader.from, reader.to))' /\ (OnPlace(reader.mark))' BY <1>1, <1>2 DEF Chosen, SpanFits
<1>10. ASSUME from # to
       PROVE  /\ (NearEnough(start, reader.from))'
              /\ charged' <= Distance(start', reader'.from) + Len(got')
              /\ (Progress(PausedSeeking(reader), reader.mark.units, reader.from, reader.to, Len(got), charged))'
  <2>1. NearEnough(chosen.mark.units, from) /\ chosen.seeking = (chosen.mark.units # from) BY <1>10 DEF Chosen
  <2>2. (NearEnough(start, reader.from))' BY <1>1, <1>2, <2>1 DEF Chosen, NearEnough
  <2>3. Distance(chosen.mark.units, from) \in Nat /\ (Distance(chosen.mark.units, from) = 0 <=> chosen.mark.units = from)
    BY <1>5, <1>6, DistanceIs
  <2>4. charged' <= Distance(start', reader'.from) + Len(got')
    BY <1>1, <1>7, <2>3 DEF Chosen
  <2>5. PausedSeeking(chosen) <=> chosen.mark.units # from BY <2>1 DEF PausedSeeking, Chosen
  <2>6. (PausedSeeking(reader))' <=> chosen.mark.units # from BY <1>1, <2>5 DEF PausedSeeking
  <2>7. reader'.mark.units = start' /\ reader'.from = from /\ reader'.to = to /\ start' = chosen.mark.units
    BY <1>1 DEF Chosen
  <2>8. CASE chosen.mark.units # from
    BY <1>1, <1>7, <2>2, <2>3, <2>4, <2>6, <2>7, <2>8 DEF Progress
  <2>9. CASE chosen.mark.units = from
    BY <1>1, <1>5, <1>7, <2>2, <2>3, <2>4, <2>6, <2>7, <2>9 DEF Progress
  <2> QED BY <2>2, <2>4, <2>8, <2>9
<1>11. /\ DOMAIN reader' = ReaderFields /\ reader'.seeking \in BOOLEAN /\ reader'.from = from /\ reader'.to = to
       /\ (reader'.complete <=> from = to)
  BY <1>1 DEF Chosen
<1>12. reader'.from + Len(got') <= reader'.to /\ (reader'.complete => Len(got') = reader'.to - reader'.from)
  <2>1. from + 0 <= to /\ (from = to => 0 = to - from) BY <1>5
  <2>2. from + Len(got') <= to /\ (from = to => Len(got') = to - from) BY <1>7, <2>1, Zenon
  <2> QED BY <1>11, <2>2, Zenon
<1>13. Served'
  BY <1>1, <1>8, <1>9, <1>10, <1>11, <1>12 DEF Served
<1>14. budget' \in Nat /\ charged' \in Nat /\ charged' + budget' <= Budget BY <1>1, <1>3
<1>15. (layout # <<>> => layout \in Layouts)' /\ (near # Nowhere => layout # <<>> /\ OnPlace(near.mark))'
  BY <1>1, <1>2, <1>3
<1> QED BY <1>1, <1>3, <1>13, <1>14, <1>15 DEF Inv

(* What new, new_near and retarget choose.                                 *)
LEMMA NearEnd ==
  ASSUME NEW view, NEW from, SpanFits(from, Len(Units)), view.units = Len(Units)
  PROVE  EndNear(view, from) \in 0..Len(Units) /\ NearEnough(EndNear(view, from), from)
BY DEF SpanFits, EndNear, NearEnough, Distance, Least

LEMMA StandChosen ==
  ASSUME text \in Texts, layout \in Layouts, NEW p \in 0..Len(Units)
  PROVE  /\ CursorAt(Borrow, p) = Stand(Borrow, Places, p) /\ OnPlace(CursorAt(Borrow, p))
         /\ CursorAt(Borrow, p).units = p
<1>1. CursorAt(Borrow, p) = Stand(Borrow, Places, p) BY BorrowIs, CursorAtIs
<1>2. Stand(Borrow, Places, p).units = p BY DEF Stand, Mark
<1> QED BY <1>1, <1>2 DEF OnPlace

LEMMA OpenedIs ==
  ASSUME text \in Texts, layout \in Layouts, NEW from, NEW to, SpanFits(from, to)
  PROVE  Chosen(Opened(Borrow, from, to), from, to)
<1> DEFINE at == IF from = to THEN 0 ELSE IF Direct(Borrow, from) THEN from ELSE EndNear(Borrow, from)
           mark == CursorAt(Borrow, at)
<1>1. Len(Units) \in Nat /\ from \in Nat /\ to \in Nat /\ from <= to /\ to <= Len(Units) BY TextIs DEF SpanFits
<1>2. EndNear(Borrow, from) \in 0..Len(Units) /\ NearEnough(EndNear(Borrow, from), from)
  BY <1>1, NearEnd, BorrowIs DEF SpanFits
<1>3. NearEnough(from, from) BY <1>1 DEF NearEnough, Distance, Least
<1>4. at \in 0..Len(Units) /\ (from # to => NearEnough(at, from)) BY <1>1, <1>2, <1>3
<1>5. Opened(Borrow, from, to) =
        [NoReader EXCEPT !.open = TRUE, !.from = from, !.to = to, !.mark = mark,
                         !.seeking = (at # from), !.complete = (from = to)]
  BY DEF Opened
<1> HIDE DEF at
<1>6. OnPlace(mark) /\ mark.units = at BY <1>4, StandChosen
<1> HIDE DEF mark
<1> DEFINE o == Opened(Borrow, from, to)
<1>7. /\ DOMAIN o = ReaderFields /\ o.from = from /\ o.to = to /\ o.mark = mark
      /\ o.seeking = (at # from) /\ o.complete = (from = to) /\ o.failed = FALSE
  BY <1>5 DEF NoReader, ReaderFields
<1> HIDE DEF o
<1>8. Chosen(o, from, to) BY <1>4, <1>6, <1>7 DEF Chosen
<1> QED BY <1>8 DEF o

LEMMA CloserIsNear ==
  ASSUME NEW m, OnPlace(m), NEW from, NEW z, from \in Nat, NearEnough(z, from), Len(Units) \in Nat,
         Distance(m.units, from) <= Distance(z, from)
  PROVE  NearEnough(m.units, from)
<1>1. m.units \in Nat /\ z \in Nat BY PlaceUnits DEF NearEnough
<1>2. Distance(m.units, from) \in Nat /\ Distance(z, from) \in Nat BY <1>1, DistanceIs
<1>3. Least(from, Len(Units) - from) \in Int BY DEF Least
<1> QED BY <1>1, <1>2, <1>3 DEF NearEnough

LEMMA OpenedNearIs ==
  ASSUME text \in Texts, layout \in Layouts, NEW from, NEW to, SpanFits(from, to),
         NEW position, OnPlace(position.mark)
  PROVE  Chosen(OpenedNear(Borrow, from, to, position), from, to)
<1> DEFINE own == Opened(Borrow, from, to)
           nearer == from # to /\ Closer(position.mark, from, own.mark.units)
           mark == IF nearer THEN position.mark ELSE own.mark
<1>1. Chosen(own, from, to) BY OpenedIs
<1>2. OpenedNear(Borrow, from, to, position) = [own EXCEPT !.mark = mark, !.seeking = (from # to /\ mark.units # from)]
  BY DEF OpenedNear
<1> HIDE DEF own
<1>3. Len(Units) \in Nat /\ from \in Nat BY TextIs DEF SpanFits
<1>4. OnPlace(mark) BY <1>1 DEF Chosen
<1>5. from # to => NearEnough(mark.units, from)
  <2>1. CASE nearer
    <3>1. NearEnough(own.mark.units, from) BY <1>1, <2>1 DEF Chosen
    <3>2. position.mark.units \in Nat /\ own.mark.units \in Nat BY <3>1, <1>3, PlaceUnits DEF NearEnough
    <3>3. Distance(position.mark.units, from) < Distance(own.mark.units, from) BY <2>1, <1>3, <3>2, DistanceIs DEF Closer
    <3>4. Distance(position.mark.units, from) \in Nat /\ Distance(own.mark.units, from) \in Nat BY <1>3, <3>2, DistanceIs
    <3>5. Distance(position.mark.units, from) <= Distance(own.mark.units, from) BY <3>3, <3>4
    <3>6. NearEnough(position.mark.units, from) BY <1>3, <3>1, <3>5, CloserIsNear
    <3> QED BY <2>1, <3>6
  <2>2. CASE ~nearer BY <1>1, <2>2 DEF Chosen
  <2> QED BY <2>1, <2>2
<1> HIDE DEF mark, nearer
<1> DEFINE o == OpenedNear(Borrow, from, to, position)
<1>6. /\ DOMAIN o = ReaderFields /\ o.from = from /\ o.to = to /\ o.mark = mark
      /\ o.seeking = (from # to /\ mark.units # from) /\ o.complete = (from = to) /\ ~o.failed
  BY <1>1, <1>2 DEF ReaderFields, Chosen
<1> HIDE DEF o
<1>7. Chosen(o, from, to) BY <1>4, <1>5, <1>6 DEF Chosen
<1> QED BY <1>7 DEF o

LEMMA RetargetedIs ==
  ASSUME text \in Texts, layout \in Layouts, NEW from, NEW to, SpanFits(from, to),
         NEW old, DOMAIN old = ReaderFields, OnPlace(old.mark), ~old.failed
  PROVE  Chosen(Retargeted(Borrow, old, from, to), from, to)
<1> DEFINE end == EndNear(Borrow, from)
           stays == Distance(old.mark.units, from) <= Distance(end, from)
           mark == IF Direct(Borrow, from) THEN CursorAt(Borrow, from)
                   ELSE IF stays THEN old.mark ELSE CursorAt(Borrow, end)
<1>1. Retargeted(Borrow, old, from, to) =
        [old EXCEPT !.from = from, !.to = to, !.mark = mark, !.seeking = (mark.units # from), !.complete = (from = to)]
  BY DEF Retargeted
<1>2. Len(Units) \in Nat /\ from \in Nat /\ from \in 0..Len(Units) /\ SpanFits(from, Len(Units)) BY TextIs DEF SpanFits
<1>3. end \in 0..Len(Units) /\ NearEnough(end, from) BY <1>2, NearEnd, BorrowIs
<1>4. NearEnough(from, from) BY <1>2 DEF NearEnough, Distance, Least
<1>5. /\ OnPlace(CursorAt(Borrow, from)) /\ CursorAt(Borrow, from).units = from
      /\ OnPlace(CursorAt(Borrow, end)) /\ CursorAt(Borrow, end).units = end
  BY <1>2, <1>3, StandChosen
<1> HIDE DEF end
<1>6. stays => NearEnough(old.mark.units, from) BY <1>2, <1>3, CloserIsNear
<1>7. OnPlace(mark) /\ NearEnough(mark.units, from) BY <1>3, <1>4, <1>5, <1>6
<1> HIDE DEF mark, stays
<1> DEFINE o == Retargeted(Borrow, old, from, to)
<1>8. /\ DOMAIN o = ReaderFields /\ o.from = from /\ o.to = to /\ o.mark = mark
      /\ o.seeking = (mark.units # from) /\ o.complete = (from = to) /\ ~o.failed
  BY <1>1 DEF ReaderFields
<1> HIDE DEF o
<1>9. Chosen(o, from, to) BY <1>7, <1>8 DEF Chosen
<1> QED BY <1>9 DEF o
-----------------------------------------------------------------------------
(* What a walk of a call has at each of its units, if the reader it began  *)
(* with had it: the place, the units after those of earlier calls, and     *)
(* the work, each unit of it taken from the budget.                        *)
Fine(w) ==
  /\ IsWalk(w) /\ w.from = reader.from /\ w.to = reader.to
  /\ w.seeking \in BOOLEAN /\ w.end \in Ends /\ OnPlace(w.mark)
  /\ w.budget \in Nat /\ w.work \in Nat /\ w.budget + w.work = budget
  /\ Delivers(w.units, reader.from + Len(got))
  /\ Progress(PausedSeeking(w), w.mark.units, reader.from, reader.to, Len(got) + Len(w.units), charged + w.work)

(* A walk after a unit has been read, or the budget was at its end.        *)
Advanced(w, y, m, value) ==
  /\ IsWalk(y) /\ y.from = w.from /\ y.to = w.to /\ y.end \in Ends
  /\ w.budget = 0 => /\ y.mark = w.mark /\ y.seeking = w.seeking /\ y.units = w.units
                    /\ y.budget = w.budget /\ y.work = w.work
  /\ w.budget # 0 => /\ y.mark = m /\ y.seeking = PausedSeeking(w)
                    /\ y.units = (IF PausedSeeking(w) THEN w.units ELSE Append(w.units, value))
                    /\ y.budget = w.budget - 1 /\ y.work = w.work + 1

WalkRecords ==
  [mark : {Stand(Borrow, Places, p) : p \in 0..Len(Units)}, seeking : BOOLEAN, from : {reader.from}, to : {reader.to},
   units : Seq(Nat), budget : Nat, work : Nat, end : Ends]

LEMMA FineRecord ==
  ASSUME NEW w, Fine(w)
  PROVE  w \in WalkRecords
<1>1. IsWalk(w) /\ w.mark \in {Stand(Borrow, Places, p) : p \in 0..Len(Units)} BY DEF Fine, OnPlace
<1>2. /\ w.seeking \in BOOLEAN /\ w.from \in {reader.from} /\ w.to \in {reader.to} /\ w.units \in Seq(Nat)
      /\ w.budget \in Nat /\ w.work \in Nat /\ w.end \in Ends
  BY DEF Fine, Delivers
<1> QED BY <1>1, <1>2 DEF IsWalk, WalkRecords, WalkFields

LEMMA PassIs ==
  ASSUME NEW view, NEW w, NEW refuses, IsWalk(w), w.end = "none", NEW m, NEW value, value # None,
         (IF PausedSeeking(w) /\ w.mark.units > w.from THEN PreviousUnit(view, w.mark)
          ELSE NextUnit(view, w.mark)) = Read(m, value)
  PROVE  Advanced(w, Pass(view, w, refuses), m, value)
<1> DEFINE seeks == PausedSeeking(w)
           read == IF seeks /\ w.mark.units > w.from THEN PreviousUnit(view, w.mark) ELSE NextUnit(view, w.mark)
           taken(v) == IF seeks THEN w.units ELSE Append(w.units, v)
           moved(at, v) == [w EXCEPT !.mark = at, !.units = taken(v), !.seeking = seeks, !.budget = @ - 1,
                                     !.work = @ + 1,
                                     !.end = IF ~seeks /\ Len(taken(v)) = refuses THEN "consumer" ELSE @]
           changed == [w EXCEPT !.end = "changed", !.budget = @ - 1, !.work = @ + 1]
           stopped == [w EXCEPT !.end = "work"]
<1>1. Pass(view, w, refuses) =
        IF w.budget = 0 THEN stopped ELSE IF read.value = None THEN changed ELSE moved(read.mark, read.value)
  BY DEF Pass, PausedSeeking
<1>2. read.mark = m /\ read.value = value BY DEF Read
<1>0. DOMAIN w = WalkFields BY Zenon DEF IsWalk
<1>3. /\ IsWalk(stopped) /\ stopped.from = w.from /\ stopped.to = w.to /\ stopped.end = "work"
      /\ stopped.mark = w.mark /\ stopped.seeking = w.seeking /\ stopped.units = w.units
      /\ stopped.budget = w.budget /\ stopped.work = w.work
  <2>1. IsWalk(stopped) BY <1>0 DEF IsWalk
  <2> QED BY <1>0, <2>1 DEF WalkFields
<1>4. /\ IsWalk(moved(m, value)) /\ moved(m, value).from = w.from /\ moved(m, value).to = w.to
      /\ moved(m, value).end \in {"consumer", "none"}
      /\ moved(m, value).mark = m /\ moved(m, value).seeking = seeks /\ moved(m, value).units = taken(value)
      /\ moved(m, value).budget = w.budget - 1 /\ moved(m, value).work = w.work + 1
  <2> HIDE DEF seeks, taken
  <2>1. IsWalk(moved(m, value)) BY <1>0 DEF IsWalk
  <2> QED BY <1>0, <2>1 DEF WalkFields
<1>5. taken(value) = IF seeks THEN w.units ELSE Append(w.units, value) OBVIOUS
<1> HIDE DEF read, moved, changed, stopped, taken
<1>6. Pass(view, w, refuses) = IF w.budget = 0 THEN stopped ELSE moved(m, value) BY <1>1, <1>2, Zenon
<1>7. CASE w.budget = 0
  <2>1. Pass(view, w, refuses) = stopped BY <1>6, <1>7
  <2> QED BY <1>3, <1>7, <2>1 DEF Ends, Advanced
<1>8. CASE w.budget # 0
  <2>1. Pass(view, w, refuses) = moved(m, value) BY <1>6, <1>8
  <2> QED BY <1>4, <1>5, <1>8, <2>1 DEF Ends, Advanced
<1> QED BY <1>7, <1>8

LEMMA Delivered ==
  ASSUME NEW s, NEW a \in Nat, Delivers(s, a), NEW value, value = Units[a + Len(s) + 1], value \in Nat
  PROVE  Delivers(Append(s, value), a) /\ Len(Append(s, value)) = Len(s) + 1
<1>1. s \in Seq(Nat) /\ Len(s) \in Nat BY DEF Delivers
<1>2. Append(s, value) \in Seq(Nat) /\ Len(Append(s, value)) = Len(s) + 1 BY <1>1
<1>3. ASSUME NEW i \in 1..(Len(s) + 1) PROVE Append(s, value)[i] = Units[a + i]
  <2>1. CASE i \in 1..Len(s) BY <1>1, <2>1 DEF Delivers
  <2>2. CASE i = Len(s) + 1
    <3>1. Append(s, value)[Len(s) + 1] = value BY <1>1
    <3>2. a + Len(s) + 1 = a + i BY <1>1, <2>2
    <3> QED BY <2>2, <3>1, <3>2
  <2> QED BY <1>1, <2>1, <2>2
<1> QED BY <1>2, <1>3 DEF Delivers

LEMMA DeliveredOn ==
  ASSUME NEW s, NEW u, NEW a \in Nat, Delivers(s, a), Delivers(u, a + Len(s))
  PROVE  Delivers(s \o u, a) /\ Len(s \o u) = Len(s) + Len(u)
<1>1. s \in Seq(Nat) /\ Len(s) \in Nat /\ u \in Seq(Nat) /\ Len(u) \in Nat BY DEF Delivers
<1>2. s \o u \in Seq(Nat) /\ Len(s \o u) = Len(s) + Len(u) BY <1>1
<1>3. ASSUME NEW i \in 1..(Len(s) + Len(u)) PROVE (s \o u)[i] = Units[a + i]
  <2>1. CASE i \in 1..Len(s)
    <3>1. (s \o u)[i] = s[i] BY <1>1, <2>1
    <3> QED BY <2>1, <3>1 DEF Delivers
  <2>2. CASE i \notin 1..Len(s)
    <3>1. (s \o u)[i] = u[i - Len(s)] /\ i - Len(s) \in 1..Len(u) BY <1>1, <2>2
    <3>2. u[i - Len(s)] = Units[a + Len(s) + (i - Len(s))] BY <3>1 DEF Delivers
    <3>3. a + Len(s) + (i - Len(s)) = a + i BY <1>1
    <3> QED BY <3>1, <3>2, <3>3
  <2> QED BY <2>1, <2>2
<1> QED BY <1>2, <1>3 DEF Delivers

LEMMA DeliveredIs ==
  ASSUME NEW s, NEW a \in Nat, Delivers(s, a), a + Len(s) <= Len(Units), Units \in Seq(Nat)
  PROVE  s = SubSeq(Units, a + 1, a + Len(s))
<1>1. s \in Seq(Nat) /\ Len(s) \in Nat BY DEF Delivers
<1>2. SubSeq(Units, a + 1, a + Len(s)) = [i \in 1..Len(s) |-> Units[a + i]] BY <1>1
<1>3. s = [i \in 1..Len(s) |-> s[i]] BY <1>1
<1>4. \A i \in 1..Len(s) : s[i] = Units[a + i] BY DEF Delivers
<1>5. [i \in 1..Len(s) |-> s[i]] = [i \in 1..Len(s) |-> Units[a + i]] BY <1>4, Zenon
<1> QED BY <1>2, <1>3, <1>5, Zenon

(* A pass reads the unit that the walk stands before, or the one that it   *)
(* has to seek over, and nothing else: there is always one.                *)
LEMMA PassFine ==
  ASSUME Inv, Served, ~reader.failed, ~reader.complete, NEW w, Fine(w), w.end = "none", ~AtEnd(w), NEW refuses
  PROVE  Fine(Pass(Borrow, w, refuses))
<1> DEFINE n == Len(Units) from == reader.from to == reader.to
           seeks == PausedSeeking(w)
<1>1. /\ Viewed(Borrow, Units, Places) /\ n \in Nat /\ Units \in Seq(Nat) /\ from \in Nat /\ to \in Nat
      /\ from <= to /\ to <= n /\ from # to /\ Len(got) \in Nat /\ charged \in Nat /\ start \in Nat
      /\ Distance(start, from) \in Nat /\ Len(w.units) \in Nat /\ w.work \in Nat /\ w.budget \in Nat
  <2>1. text \in Texts /\ layout \in Layouts /\ charged \in Nat BY DEF Inv, Served
  <2>2. from \in Nat /\ to \in Nat /\ from <= to /\ to <= n /\ from # to /\ start \in Nat
    BY DEF Served, SpanFits, NearEnough
  <2>3. Len(got) \in Nat /\ Len(w.units) \in Nat BY DEF Served, Fine, Delivers
  <2> QED BY <2>1, <2>2, <2>3, TextIs, BorrowIs, DistanceIs DEF Fine
<1>2. PICK p \in 0..n : w.mark = Stand(Borrow, Places, p) BY DEF Fine, OnPlace
<1>3. w.mark.units = p /\ \A q : Stand(Borrow, Places, q).units = q BY <1>2 DEF Stand, Mark
<1>4. IsWalk(w) /\ w.from = from /\ w.to = to /\ w.end \in Ends /\ w.budget + w.work = budget BY DEF Fine
<1>5. Progress(seeks, p, from, to, Len(got) + Len(w.units), charged + w.work) BY <1>3 DEF Fine
<1>6. ~seeks => p < to
  BY <1>1, <1>2, <1>3, <1>4 DEF AtEnd
<1>7. seeks => p # from BY <1>3, <1>4 DEF PausedSeeking
<1> DEFINE q == IF seeks /\ p > from THEN p - 1 ELSE p + 1
           value == IF seeks /\ p > from THEN Units[p] ELSE Units[p + 1]
           m == Stand(Borrow, Places, q)
<1>8. /\ q \in 0..n /\ value \in Nat
      /\ (IF seeks /\ w.mark.units > w.from THEN PreviousUnit(Borrow, w.mark) ELSE NextUnit(Borrow, w.mark)) = Read(m, value)
  <2>1. CASE seeks /\ p > from
    <3>1. p # 0 /\ p - 1 \in 0..n /\ p \in 1..n BY <1>1, <2>1
    <3>2. PreviousUnit(Borrow, w.mark) = Read(Stand(Borrow, Places, p - 1), Units[p]) BY <1>1, <1>2, <3>1, PreviousUnitIs
    <3>3. Units[p] \in Nat BY <1>1, <3>1
    <3> QED BY <1>3, <1>4, <2>1, <3>1, <3>2, <3>3
  <2>2. CASE ~(seeks /\ p > from)
    <3>1. p < n BY <1>1, <1>6, <1>7, <2>2
    <3>2. p # n /\ p + 1 \in 0..n /\ p + 1 \in 1..n BY <1>1, <3>1
    <3>3. NextUnit(Borrow, w.mark) = Read(Stand(Borrow, Places, p + 1), Units[p + 1]) BY <1>1, <1>2, <3>2, NextUnitIs
    <3>4. Units[p + 1] \in Nat BY <1>1, <3>2, SMTT(30)
    <3> QED BY <1>3, <1>4, <2>2, <3>2, <3>3, <3>4
  <2> QED BY <2>1, <2>2
<1>9. value # None BY <1>8 DEF None
<1> HIDE DEF m, value
<1> DEFINE y == Pass(Borrow, w, refuses)
<1>10. Advanced(w, y, m, value)
  <2>1. IsWalk(w) /\ w.end = "none" /\ value # None BY <1>4, <1>9
  <2>2. (IF seeks /\ w.mark.units > w.from THEN PreviousUnit(Borrow, w.mark) ELSE NextUnit(Borrow, w.mark)) = Read(m, value)
    BY <1>8
  <2> QED BY <2>1, <2>2, PassIs, Zenon
<1> HIDE DEF y
<1>11. CASE w.budget = 0
  <2>1. /\ y.seeking = w.seeking /\ y.mark = w.mark /\ y.from = w.from /\ y.units = w.units
        /\ y.budget = w.budget /\ y.work = w.work
    BY <1>10, <1>11, Zenon DEF Advanced
  <2>2. PausedSeeking(y) = PausedSeeking(w) BY <2>1 DEF PausedSeeking
  <2>3. Fine(y) BY <1>10, <2>1, <2>2 DEF Fine, Advanced
  <2> QED BY <2>3 DEF y
<1>12. CASE w.budget # 0
  <2> DEFINE units == IF seeks THEN w.units ELSE Append(w.units, value)
  <2> HIDE DEF units
  <2>2. /\ IsWalk(y) /\ y.from = from /\ y.to = to /\ y.seeking = seeks /\ y.end \in Ends
        /\ y.mark = m /\ y.budget = w.budget - 1 /\ y.work = w.work + 1 /\ y.units = units
    BY <1>4, <1>10, <1>12, Zenon DEF units, Advanced
  <2>3. OnPlace(y.mark) /\ y.mark.units = q BY <1>3, <1>8, <2>2 DEF OnPlace, m
  <2>12. y.budget = w.budget - 1 /\ y.work = w.work + 1 /\ y.units = units BY <2>2, Zenon
  <2>4. y.budget \in Nat /\ y.work \in Nat /\ y.budget + y.work = budget
    <3>1. w.budget \in Nat /\ w.work \in Nat /\ w.budget + w.work = budget BY <1>1, <1>4
    <3> QED BY <1>12, <2>12, <3>1
  <2>5. seeks \in BOOLEAN BY DEF PausedSeeking, Fine
  <2>6. PausedSeeking(y) <=> (seeks /\ q # from) BY <2>2, <2>3 DEF PausedSeeking
  <2>7. CASE seeks
    <3>1. units = w.units BY <2>7 DEF units
    <3>2. Len(got) + Len(w.units) = 0 /\ charged + w.work + Distance(p, from) = Distance(start, from)
      BY <1>5, <2>7 DEF Progress
    <3>3. Distance(q, from) = Distance(p, from) - 1 /\ Distance(q, from) \in Nat /\ Distance(p, from) \in Nat
          /\ (Distance(q, from) = 0 <=> q = from)
      <4>0. p \in Nat BY <1>1
      <4>1. p \in Nat /\ q \in Nat BY <1>1, <1>8
      <4>2. from \in Nat BY <1>1
      <4>3. CASE p > from
        <5>1. q = p - 1 BY <2>7, <4>3, Zenon
        <5> HIDE DEF q, seeks
        <5>2. Distance(p - 1, from) = Distance(p, from) - 1 BY <4>0, <4>2, <4>3 DEF Distance
        <5>3. Distance(q, from) = Distance(p, from) - 1 BY <5>1, <5>2, Zenon
        <5> QED BY <4>1, <4>2, <5>3, DistanceIs
      <4>4. CASE ~(p > from)
        <5>1. q = p + 1 BY <4>4, Zenon
        <5>2. p < from BY <1>7, <2>7, <4>1, <4>2, <4>4
        <5> HIDE DEF q, seeks
        <5>3. Distance(p + 1, from) = Distance(p, from) - 1 BY <4>0, <4>2, <5>2 DEF Distance
        <5>4. Distance(q, from) = Distance(p, from) - 1 BY <5>1, <5>3, Zenon
        <5> QED BY <4>1, <4>2, <5>4, DistanceIs
      <4> QED BY <4>3, <4>4
    <3> HIDE DEF q, seeks
    <3>4. charged + y.work + Distance(q, from) = Distance(start, from) BY <1>1, <2>12, <3>2, <3>3
    <3>5. Len(got) + Len(y.units) = 0 BY <2>2, <3>1, <3>2
    <3>6. CASE q # from
      <4>1. Progress(PausedSeeking(y), y.mark.units, from, to, Len(got) + Len(y.units), charged + y.work)
        BY <2>3, <2>6, <2>7, <3>4, <3>5, <3>6 DEF Progress
      <4>2. Delivers(y.units, from + Len(got)) BY <2>2, <3>1 DEF Fine
      <4> QED BY <2>2, <2>3, <2>4, <2>5, <4>1, <4>2 DEF Fine, y
    <3>7. CASE q = from
      <4>1. charged + y.work = Distance(start, from) + 0 BY <1>1, <2>12, <3>3, <3>4, <3>7
      <4>2. Progress(PausedSeeking(y), y.mark.units, from, to, Len(got) + Len(y.units), charged + y.work)
        BY <1>1, <2>3, <2>6, <3>5, <3>7, <4>1 DEF Progress
      <4>3. Delivers(y.units, from + Len(got)) BY <2>2, <3>1 DEF Fine
      <4> QED BY <2>2, <2>3, <2>4, <2>5, <4>2, <4>3 DEF Fine, y
    <3> QED BY <3>6, <3>7
  <2>8. CASE ~seeks
    <3>1. units = Append(w.units, value) BY <2>8 DEF units
    <3>2. p = from + (Len(got) + Len(w.units)) /\ charged + w.work = Distance(start, from) + (Len(got) + Len(w.units))
      BY <1>5, <2>8 DEF Progress
    <3>3. q = p + 1 /\ value = Units[p + 1] BY <2>8 DEF value
    <3>4. p + 1 = from + Len(got) + Len(w.units) + 1 /\ from + Len(got) \in Nat BY <1>1, <3>2, SMTT(30)
    <3>5. Delivers(w.units, from + Len(got)) BY DEF Fine
    <3>6. Delivers(units, from + Len(got)) /\ Len(units) = Len(w.units) + 1
      BY <1>8, <3>1, <3>3, <3>4, <3>5, Delivered
    <3> HIDE DEF q, seeks
    <3>7. Len(got) + Len(y.units) = Len(got) + Len(w.units) + 1 BY <1>1, <2>12, <3>6
    <3>8. charged + y.work = Distance(start, from) + (Len(got) + Len(y.units)) 
      <4>1. charged + w.work + 1 = Distance(start, from) + (Len(got) + Len(w.units) + 1) BY <1>1, <3>2
      <4>2. charged + y.work = charged + w.work + 1 BY <1>1, <2>12
      <4> QED BY <3>7, <4>1, <4>2, Zenon
    <3>9. q = from + (Len(got) + Len(y.units)) /\ q <= to 
      <4>1. p < to BY <1>6, <2>8
      <4>2. p \in Nat /\ to \in Nat /\ from \in Nat /\ Len(got) \in Nat /\ Len(w.units) \in Nat BY <1>1
      <4>3. p + 1 <= to BY <4>1, <4>2
      <4>4. p + 1 = from + (Len(got) + Len(w.units) + 1) BY <3>2, <4>2
      <4> QED BY <3>3, <3>7, <4>3, <4>4, Zenon
    <3>10. Progress(PausedSeeking(y), y.mark.units, from, to, Len(got) + Len(y.units), charged + y.work)
      BY <2>3, <2>6, <2>8, <3>8, <3>9 DEF Progress
    <3> QED BY <2>2, <2>3, <2>4, <2>5, <3>6, <3>10 DEF Fine, y
  <2> QED BY <2>7, <2>8
<1> QED BY <1>11, <1>12

(* A call's walk, from the reader on, for as many units as its quantum.    *)
LEMMA FoldedFine ==
  ASSUME Inv, Served, ~reader.failed, ~reader.complete, NEW quantum \in Nat, NEW refuses
  PROVE  Fine(Folded(Borrow, reader, quantum, refuses))
<1> DEFINE first == [mark |-> reader.mark, seeking |-> reader.seeking, from |-> reader.from, to |-> reader.to,
                     units |-> <<>>, budget |-> budget, work |-> 0, end |-> "none"]
           next(before) == IF before.end # "none" \/ AtEnd(before) THEN before ELSE Pass(Borrow, before, refuses)
           walk[k \in 0..quantum] == IF k = 0 THEN first ELSE next(walk[k - 1])
<1>1. Folded(Borrow, reader, quantum, refuses) = walk[quantum] BY DEF Folded
<1>2. Fine(first)
  <2>0. IsWalk(first) BY DEF IsWalk, WalkFields
  <2>1. /\ first.from = reader.from /\ first.to = reader.to
        /\ first.seeking = reader.seeking /\ first.end = "none" /\ first.mark = reader.mark
        /\ first.budget = budget /\ first.work = 0 /\ first.units = <<>>
    BY DEF WalkFields
  <2> HIDE DEF first
  <2>2. budget \in Nat /\ charged \in Nat /\ OnPlace(reader.mark) /\ reader.seeking \in BOOLEAN /\ Len(got) \in Nat
    <3>1. budget \in Nat /\ charged \in Nat BY DEF Inv
    <3>2. Delivers(got, reader.from) /\ OnPlace(reader.mark) /\ reader.seeking \in BOOLEAN BY DEF Served
    <3>3. Len(got) \in Nat BY <3>2 DEF Delivers
    <3> QED BY <3>1, <3>2, <3>3
  <2>3. Delivers(first.units, reader.from + Len(got)) /\ Len(first.units) = 0
    <3>1. <<>> \in Seq(Nat) /\ Len(<<>>) = 0 OBVIOUS
    <3>2. Delivers(<<>>, reader.from + Len(got)) BY <3>1 DEF Delivers
    <3> QED BY <2>1, <3>1, <3>2, Zenon
  <2>4. Progress(PausedSeeking(reader), reader.mark.units, reader.from, reader.to, Len(got), charged)
    BY DEF Served
  <2>5. PausedSeeking(first) = PausedSeeking(reader) BY <2>1 DEF PausedSeeking
  <2>6. Len(got) + Len(first.units) = Len(got) /\ charged + first.work = charged BY <2>1, <2>2, <2>3
  <2>7. Progress(PausedSeeking(first), first.mark.units, reader.from, reader.to, Len(got) + Len(first.units),
                 charged + first.work)
    BY <2>1, <2>4, <2>5, <2>6, Zenon
  <2>8. first.budget \in Nat /\ first.work \in Nat /\ first.budget + first.work = budget BY <2>1, <2>2
  <2>9. first.end \in Ends BY <2>1 DEF Ends
  <2> QED BY <2>0, <2>1, <2>2, <2>3, <2>7, <2>8, <2>9 DEF Fine
<1>3. ASSUME NEW w, Fine(w) PROVE Fine(next(w)) BY <1>3, PassFine
<1>4. \A k \in 0..quantum : walk[k] = IF k = 0 THEN first ELSE next(walk[k - 1])
  <2> HIDE DEF first, next
  <2> DEFINE D == 0..quantum
             S == {w \in WalkRecords : Fine(w)}
             stop == {0}
             measure == [k \in D |-> k]
             leaf == [k \in D |-> first]
             earlier == [k \in D |-> IF k = 0 THEN 0 ELSE k - 1]
             step == [k \in D |-> [w \in S |-> next(w)]]
  <2>1. first \in S /\ \A w \in S : next(w) \in S BY <1>2, <1>3, FineRecord
  <2>2. Grounded(D, S, quantum, measure, stop, leaf, earlier, step)
    <3> HIDE DEF S
    <3>1. measure \in [D -> 0..quantum] /\ stop \in SUBSET D /\ leaf \in [D -> S] /\ earlier \in [D -> D]
      BY <2>1
    <3>2. step \in [D -> [S -> S]] BY <2>1
    <3>3. \A k \in D : k \notin stop => measure[earlier[k]] < measure[k] OBVIOUS
    <3> QED BY <3>1, <3>2, <3>3 DEF Grounded
  <2>3. PICK f \in [D -> S] : Unfolds(f, D, stop, leaf, earlier, step) BY <2>2, RecursionExists
  <2>4. ASSUME NEW k \in D PROVE f[k] = IF k = 0 THEN first ELSE next(f[k - 1])
    <3> HIDE DEF S
    <3>1. f[k] = IF k \in stop THEN leaf[k] ELSE step[k][f[earlier[k]]] BY <2>3 DEF Unfolds
    <3>2. k # 0 => k - 1 \in D /\ f[k - 1] \in S OBVIOUS
    <3> QED BY <3>1, <3>2
  <2>5. f = [k \in D |-> IF k = 0 THEN first ELSE next(f[k - 1])]
    <3> HIDE DEF S
    <3>1. f = [k \in D |-> f[k]] BY <2>3
    <3>2. [k \in D |-> f[k]] = [k \in D |-> IF k = 0 THEN first ELSE next(f[k - 1])] BY <2>4, Zenon
    <3> QED BY <3>1, <3>2, Zenon
  <2> DEFINE w == CHOOSE g : g = [k \in D |-> IF k = 0 THEN first ELSE next(g[k - 1])]
  <2>6. w = [k \in D |-> IF k = 0 THEN first ELSE next(w[k - 1])] BY <2>5, Zenon
  <2>7. walk = w BY Zenon
  <2> HIDE DEF w, walk
  <2> QED BY <2>6, <2>7
<1> HIDE DEF first, next, walk
<1>5. \A k \in 0..quantum : Fine(walk[k])
  <2> DEFINE T == {k \in 0..quantum : ~Fine(walk[k])}
  <2> SUFFICES ASSUME T # {} PROVE FALSE OBVIOUS
  <2>1. PICK k \in T : \A j \in T : k <= j
    <3>1. T \in SUBSET Nat OBVIOUS
    <3> HIDE DEF T
    <3> QED BY <3>1, LeastOf
  <2>2. k \in 0..quantum /\ ~Fine(walk[k]) BY <2>1
  <2>3. k # 0 BY <1>2, <1>4, <2>2
  <2>4. k - 1 \in 0..quantum /\ ~(k <= k - 1) BY <2>2, <2>3
  <2>5. k - 1 \notin T BY <2>1, <2>4
  <2>6. Fine(walk[k - 1]) BY <2>4, <2>5
  <2>7. walk[k] = next(walk[k - 1]) BY <1>4, <2>2, <2>3
  <2> QED BY <1>3, <2>2, <2>6, <2>7
<1>6. quantum \in 0..quantum OBVIOUS
<1> QED BY <1>1, <1>5, <1>6
-----------------------------------------------------------------------------
LEMMA InitInv == Init => Inv
<1> SUFFICES ASSUME Init PROVE Inv OBVIOUS
<1>1. layout = <<>> /\ result = "none" /\ near = Nowhere /\ reader.open = FALSE BY DEF Init, NoReader
<1>2. budget \in Nat /\ charged \in Nat /\ charged + budget <= Budget
  <2>1. Budget \in Nat /\ budget = Budget /\ charged = 0 BY ReaderConstants DEF Init
  <2> QED BY <2>1
<1> QED BY <1>1, <1>2 DEF Init, Inv

(* A step that only fails, or binds, or leaves the reader as it was.       *)
LEMMA IdleInv ==
  ASSUME Inv, text' = text, layout' = layout, UNCHANGED <<reader, budget, got, charged, start, opens>>,
         result' # "changed layout", near' # Nowhere => layout # <<>> /\ OnPlace(near'.mark)
  PROVE  Inv'
<1>1. /\ Units' = Units /\ Layouts' = Layouts /\ \A m : (OnPlace(m))' <=> OnPlace(m) BY SamePlaces
<1>2. (reader.open => Served)'
  <2>1. reader.open => Served BY DEF Inv
  <2>2. Served => Served'
    <3> SUFFICES ASSUME Served PROVE Served' OBVIOUS
    <3>1. (SpanFits(reader.from, reader.to))' /\ (OnPlace(reader.mark))' BY <1>1 DEF Served, SpanFits
    <3>2. (Delivers(got, reader.from))' BY <1>1 DEF Served, Delivers
    <3>3. \A z : (NearEnough(start, z))' <=> NearEnough(start, z) BY <1>1 DEF NearEnough
    <3>4. (Progress(PausedSeeking(reader), reader.mark.units, reader.from, reader.to, Len(got), charged))'
          <=> Progress(PausedSeeking(reader), reader.mark.units, reader.from, reader.to, Len(got), charged)
      BY DEF Progress, PausedSeeking
    <3> QED BY <3>1, <3>2, <3>3, <3>4 DEF Served
  <2> QED BY <2>1, <2>2
<1>3. (near # Nowhere => layout # <<>> /\ OnPlace(near.mark))' BY <1>1
<1> QED BY <1>1, <1>2, <1>3 DEF Inv

(* A reader that is poisoned keeps what it has delivered and been charged. *)
LEMMA PoisonsInv ==
  ASSUME Inv, reader.open, NEW why, why # "changed layout", Poisons(why)
  PROVE  Inv'
<1>1. /\ reader' = [reader EXCEPT !.failed = TRUE] /\ result' = why /\ text' = text /\ layout' = layout
      /\ near' = near /\ UNCHANGED <<budget, got, charged, start, opens>>
  BY DEF Poisons, host
<1>2. Served BY DEF Inv
<1>3. /\ DOMAIN reader' = ReaderFields /\ reader'.from = reader.from /\ reader'.to = reader.to /\ reader'.failed = TRUE
      /\ reader'.mark = reader.mark /\ reader'.seeking = reader.seeking /\ reader'.complete = reader.complete
  BY <1>1, <1>2 DEF Served, ReaderFields
<1>4. /\ Units' = Units /\ Layouts' = Layouts /\ \A m : (OnPlace(m))' <=> OnPlace(m) BY <1>1, SamePlaces
<1>5. (SpanFits(reader.from, reader.to))' /\ (OnPlace(reader.mark))' BY <1>2, <1>3, <1>4 DEF Served, SpanFits
<1>6. (Delivers(got, reader.from))' BY <1>1, <1>2, <1>3, <1>4 DEF Served, Delivers
<1>7. (NearEnough(start, reader.from))' <=> NearEnough(start, reader.from) BY <1>1, <1>3, <1>4 DEF NearEnough
<1>8. Distance(start', reader'.from) = Distance(start, reader.from) BY <1>1, <1>3
<1>9. Served' BY <1>1, <1>2, <1>3, <1>5, <1>6, <1>7, <1>8 DEF Served
<1>10. (near # Nowhere => layout # <<>> /\ OnPlace(near.mark))' BY <1>1, <1>4 DEF Inv
<1> QED BY <1>1, <1>4, <1>9, <1>10 DEF Inv

LEMMA BindInv ==
  ASSUME Inv, Bind \/ BindCounted
  PROVE  Inv'
<1>1. text \in Texts /\ layout = <<>> BY DEF Inv, Bind, BindCounted
<1>2. text' = text /\ UNCHANGED idle BY DEF Bind, BindCounted
<1>3. Units' = Units /\ Layouts' = Layouts BY <1>2 DEF Units, Layouts
<1>4. ~reader.open /\ near = Nowhere BY <1>1 DEF Inv, Served
<1>5. layout' \in Layouts /\ result' = "bound"
  <2>1. CASE Bind BY <2>1 DEF Bind, Layouts
  <2>2. CASE BindCounted
    <3>1. Possible(Len(Units), Len(text)) BY <1>1, PossibleCount
    <3>2. layout' = <<IF Len(Units) = Len(text) THEN "ascii" ELSE "bytes", Len(text), Len(Units)>> /\ result' = "bound"
      BY <2>2, <3>1, Zenon DEF BindCounted
    <3>3. Counted(text).units = Len(Units) BY <1>1, TextIs
    <3>4. Shape(Wtf8(text)) = <<IF Len(Units) = Len(text) THEN "ascii" ELSE "bytes", Len(text), Len(Units)>>
      BY <3>3 DEF Shape, Wtf8, View
    <3> QED BY <3>2, <3>4 DEF Layouts
  <2> QED BY <2>1, <2>2
<1>6. reader' = reader /\ near' = near /\ budget' = budget /\ charged' = charged BY <1>2 DEF idle
<1> QED BY <1>1, <1>2, <1>3, <1>4, <1>5, <1>6 DEF Inv

LEMMA FailsInv ==
  ASSUME Inv, NEW why, why # "changed layout", Fails(why)
  PROVE  Inv'
<1>1. /\ text' = text /\ layout' = layout /\ near' = near /\ result' = why
      /\ UNCHANGED <<reader, budget, got, charged, start, opens>>
  BY DEF Fails, host, idle
<1>2. near' # Nowhere => layout # <<>> /\ OnPlace(near'.mark) BY <1>1 DEF Inv
<1> QED BY <1>1, <1>2, IdleInv

LEMMA SpanIs ==
  ASSUME text \in Texts, layout \in Layouts, NEW s \in Spans, ~(s[2] > Borrow.units)
  PROVE  SpanFits(s[1], s[2])
<1>1. Borrow.units = Len(Units) /\ Len(Units) \in Nat BY BorrowIs, TextIs
<1>2. s[1] \in 0..(Len(Units) + 1) /\ s[2] \in 0..(Len(Units) + 1) /\ s[1] <= s[2] BY DEF Spans
<1> QED BY <1>1, <1>2 DEF SpanFits

LEMMA OpensInv ==
  ASSUME Inv, NEW s \in Spans, New(s[1], s[2]) \/ NewNear(s[1], s[2]) \/ Retarget(s[1], s[2])
  PROVE  Inv'
<1>1. layout # <<>> /\ layout \in Layouts /\ text \in Texts BY DEF Inv, New, NewNear, Retarget, Served
<1>2. ~(s[2] > Borrow.units) => SpanFits(s[1], s[2]) BY <1>1, SpanIs
<1>3. CASE New(s[1], s[2])
  <2>1. CASE s[2] > Borrow.units
    <3>1. Fails("invalid span") BY <1>3, <2>1 DEF New
    <3> QED BY <3>1, FailsInv
  <2>2. CASE ~(s[2] > Borrow.units)
    <3>1. Selects(Opened(Borrow, s[1], s[2])) BY <1>3, <2>2 DEF New
    <3>2. Chosen(Opened(Borrow, s[1], s[2]), s[1], s[2]) BY <1>1, <1>2, <2>2, OpenedIs
    <3> QED BY <1>1, <1>2, <2>2, <3>1, <3>2, SelectsInv
  <2> QED BY <2>1, <2>2
<1>4. CASE NewNear(s[1], s[2])
  <2>1. OnPlace(near.mark) BY <1>4 DEF NewNear, Inv
  <2>2. CASE s[2] > Borrow.units
    <3>1. Fails("invalid span") BY <1>4, <2>2 DEF NewNear
    <3> QED BY <3>1, FailsInv
  <2>3. CASE ~(s[2] > Borrow.units)
    <3>1. Fails("changed position") \/ Selects(OpenedNear(Borrow, s[1], s[2], near)) BY <1>4, <2>3 DEF NewNear
    <3>2. Chosen(OpenedNear(Borrow, s[1], s[2], near), s[1], s[2]) BY <1>1, <1>2, <2>1, <2>3, OpenedNearIs
    <3>3. CASE Fails("changed position") BY <3>3, FailsInv
    <3>4. CASE Selects(OpenedNear(Borrow, s[1], s[2], near)) BY <1>1, <1>2, <2>3, <3>2, <3>4, SelectsInv
    <3> QED BY <3>1, <3>3, <3>4
  <2> QED BY <2>2, <2>3
<1>5. CASE Retarget(s[1], s[2])
  <2>1. reader.open /\ Served BY <1>5 DEF Retarget, Inv
  <2>2. \/ Fails("failed") \/ Poisons("invalid span") \/ Poisons("changed position")
        \/ ~reader.failed /\ ~(s[2] > Borrow.units) /\ Selects(Retargeted(Borrow, reader, s[1], s[2]))
    BY <1>5 DEF Retarget
  <2>3. CASE Fails("failed") BY <2>3, FailsInv
  <2>4. CASE Poisons("invalid span") BY <2>1, <2>4, PoisonsInv
  <2>5. CASE Poisons("changed position") BY <2>1, <2>5, PoisonsInv
  <2>6. CASE ~reader.failed /\ ~(s[2] > Borrow.units) /\ Selects(Retargeted(Borrow, reader, s[1], s[2]))
    <3>1. DOMAIN reader = ReaderFields /\ OnPlace(reader.mark) BY <2>1 DEF Served
    <3>2. Chosen(Retargeted(Borrow, reader, s[1], s[2]), s[1], s[2]) BY <1>1, <1>2, <2>6, <3>1, RetargetedIs
    <3> QED BY <1>1, <1>2, <2>6, <3>2, SelectsInv
  <2> QED BY <2>2, <2>3, <2>4, <2>5, <2>6
<1> QED BY <1>3, <1>4, <1>5

LEMMA PositionInv ==
  ASSUME Inv, Position
  PROVE  Inv'
<1>1. /\ reader.open /\ near' = [mark |-> reader.mark, layout |-> layout]
      /\ UNCHANGED <<text, layout, reader, budget, got, charged, start, opens, result>>
  BY DEF Position
<1>2. layout # <<>> /\ OnPlace(reader.mark) BY <1>1 DEF Inv, Served
<1>3. near'.mark = reader.mark BY <1>1
<1>4. result' # "changed layout" BY <1>1 DEF Inv
<1> QED BY <1>1, <1>2, <1>3, <1>4, IdleInv

LEMMA RefusedInv ==
  ASSUME Inv, Refused
  PROVE  Inv'
<1>1. CASE Fails("subject") BY <1>1, FailsInv
<1>2. CASE reader.open /\ Poisons("subject") BY <1>2, PoisonsInv
<1> QED BY <1>1, <1>2 DEF Refused

LEMMA TryFoldInv ==
  ASSUME Inv, NEW quantum \in Nat, NEW refuses, TryFold(quantum, refuses)
  PROVE  Inv'
<1>1. reader.open /\ Served BY DEF TryFold, Inv
<1>2. CASE Fails("failed") \/ Fails("invalid quantum") \/ Fails("complete") BY <1>2, FailsInv
<1>3. CASE Poisons("changed position") BY <1>1, <1>3, PoisonsInv
<1>4. CASE /\ ~(Fails("failed") \/ Fails("invalid quantum") \/ Fails("complete"))
           /\ ~Poisons("changed position")
  <2> DEFINE walk == Folded(Borrow, reader, quantum, refuses)
  <2>1. /\ ~reader.failed /\ ~reader.complete
        /\ budget' = walk.budget /\ charged' = charged + walk.work /\ got' = got \o walk.units
        /\ IF walk.end = "none"
           THEN /\ reader' = [reader EXCEPT !.mark = walk.mark, !.seeking = PausedSeeking(walk),
                                            !.complete = AtEnd(walk)]
                /\ result' = IF AtEnd(walk) THEN "complete" ELSE "pending"
           ELSE reader' = [reader EXCEPT !.failed = TRUE] /\ result' = walk.end
        /\ UNCHANGED <<host, start, opens>>
    BY <1>4, Zenon DEF TryFold
  <2>2. Fine(walk) BY <1>1, <2>1, FoldedFine
  <2> HIDE DEF walk
  <2>3. text' = text /\ layout' = layout /\ near' = near /\ start' = start BY <2>1 DEF host
  <2>4. /\ Units' = Units /\ Layouts' = Layouts /\ \A m : (OnPlace(m))' <=> OnPlace(m) BY <2>3, SamePlaces
  <2>5. /\ SpanFits(reader.from, reader.to) /\ DOMAIN reader = ReaderFields /\ Delivers(got, reader.from)
        /\ OnPlace(reader.mark) /\ reader.seeking \in BOOLEAN /\ layout # <<>>
    BY <1>1 DEF Served
  <2>6. /\ reader.from \in Nat /\ reader.to \in Nat /\ reader.from <= reader.to /\ Len(got) \in Nat /\ Len(walk.units) \in Nat
        /\ walk.work \in Nat /\ walk.budget \in Nat /\ walk.budget + walk.work = budget /\ charged \in Nat
    <3>1. /\ Delivers(walk.units, reader.from + Len(got)) /\ walk.work \in Nat /\ walk.budget \in Nat
          /\ walk.budget + walk.work = budget
      BY <2>2 DEF Fine
    <3>2. Len(walk.units) \in Nat /\ Len(got) \in Nat BY <2>5, <3>1 DEF Delivers
    <3>3. reader.from \in Nat /\ reader.to \in Nat /\ reader.from <= reader.to BY <2>5 DEF SpanFits
    <3>4. charged \in Nat BY DEF Inv
    <3> QED BY <3>1, <3>2, <3>3, <3>4
  <2>7. reader.from # reader.to /\ NearEnough(start, reader.from) BY <1>1, <2>1 DEF Served
  <2>8. Distance(start, reader.from) \in Nat BY <2>6, <2>7, DistanceIs DEF NearEnough
  <2>9. Delivers(got', reader.from) /\ Len(got') = Len(got) + Len(walk.units)
    <3>1. Delivers(walk.units, reader.from + Len(got)) BY <2>2 DEF Fine
    <3> QED BY <2>1, <2>5, <2>6, <3>1, DeliveredOn
  <2>10. OnPlace(walk.mark) /\ walk.from = reader.from /\ walk.to = reader.to /\ walk.mark.units \in Nat
    <3>1. OnPlace(walk.mark) /\ walk.from = reader.from /\ walk.to = reader.to BY <2>2 DEF Fine
    <3>2. Len(Units) \in Nat BY TextIs DEF Inv
    <3> QED BY <3>1, <3>2, PlaceUnits
  <2>11. Progress(PausedSeeking(walk), walk.mark.units, reader.from, reader.to, Len(got'), charged')
    <3>1. Progress(PausedSeeking(walk), walk.mark.units, reader.from, reader.to, Len(got) + Len(walk.units),
                   charged + walk.work)
      BY <2>2 DEF Fine
    <3>2. Len(got') = Len(got) + Len(walk.units) /\ charged' = charged + walk.work BY <2>1, <2>9
    <3> QED BY <3>1, <3>2, Zenon
  <2>12. /\ reader.from + Len(got') <= reader.to /\ charged' <= Distance(start, reader.from) + Len(got')
         /\ Len(got') \in Nat /\ charged' \in Nat
    <3>1. Len(got') \in Nat /\ charged' \in Nat BY <2>1, <2>6, <2>9
    <3>2. CASE PausedSeeking(walk)
      <4>1. Len(got') = 0 /\ charged' + Distance(walk.mark.units, reader.from) = Distance(start, reader.from)
        BY <2>11, <3>2 DEF Progress
      <4>2. Distance(walk.mark.units, reader.from) \in Nat BY <2>6, <2>10, DistanceIs
      <4> QED BY <2>6, <2>8, <3>1, <4>1, <4>2
    <3>3. CASE ~PausedSeeking(walk)
      <4>1. /\ walk.mark.units = reader.from + Len(got') /\ walk.mark.units <= reader.to
            /\ charged' = Distance(start, reader.from) + Len(got')
        BY <2>11, <3>3 DEF Progress
      <4> QED BY <2>6, <2>8, <3>1, <4>1
    <3> QED BY <3>2, <3>3
  <2>13. AtEnd(walk) => Len(got') = reader.to - reader.from
    <3>1. AtEnd(walk) => ~PausedSeeking(walk) /\ walk.mark.units >= reader.to BY <2>10 DEF AtEnd
    <3>2. ~PausedSeeking(walk) => walk.mark.units = reader.from + Len(got') /\ walk.mark.units <= reader.to
      BY <2>11 DEF Progress
    <3> QED BY <2>6, <2>12, <3>1, <3>2
  <2>14. /\ DOMAIN reader' = ReaderFields /\ reader'.from = reader.from /\ reader'.to = reader.to
         /\ OnPlace(reader'.mark) /\ reader'.seeking \in BOOLEAN
         /\ reader'.complete => Len(got') = reader.to - reader.from
         /\ ~reader'.failed =>
              Progress(PausedSeeking(reader'), reader'.mark.units, reader.from, reader.to, Len(got'), charged')
         /\ result' # "changed layout"
    <3>1. CASE walk.end = "none"
      <4>1. reader' = [reader EXCEPT !.mark = walk.mark, !.seeking = PausedSeeking(walk), !.complete = AtEnd(walk)]
        BY <2>1, <3>1
      <4>2. /\ DOMAIN reader' = ReaderFields /\ reader'.from = reader.from /\ reader'.to = reader.to
            /\ reader'.mark = walk.mark /\ reader'.seeking = PausedSeeking(walk) /\ reader'.complete = AtEnd(walk)
        BY <2>5, <4>1 DEF ReaderFields
      <4>3. PausedSeeking(walk) \in BOOLEAN BY <2>2 DEF PausedSeeking, Fine
      <4>4. PausedSeeking(reader') <=> PausedSeeking(walk) BY <2>10, <4>2, <4>3 DEF PausedSeeking
      <4>5. PausedSeeking(reader') \in BOOLEAN BY <4>2, <4>3 DEF PausedSeeking
      <4>6. PausedSeeking(reader') = PausedSeeking(walk) BY <4>3, <4>4, <4>5
      <4>7. Progress(PausedSeeking(reader'), reader'.mark.units, reader.from, reader.to, Len(got'), charged')
        BY <2>11, <4>2, <4>6, Zenon
      <4>8. reader'.complete => Len(got') = reader.to - reader.from BY <2>13, <4>2, Zenon
      <4>9. OnPlace(reader'.mark) /\ reader'.seeking \in BOOLEAN BY <2>10, <4>2, <4>3, Zenon
      <4>10. result' # "changed layout" BY <2>1, <3>1
      <4> QED BY <4>2, <4>7, <4>8, <4>9, <4>10
    <3>2. CASE walk.end # "none"
      <4>1. reader' = [reader EXCEPT !.failed = TRUE] /\ result' = walk.end BY <2>1, <3>2
      <4>2. /\ DOMAIN reader' = ReaderFields /\ reader'.from = reader.from /\ reader'.to = reader.to
            /\ reader'.mark = reader.mark /\ reader'.seeking = reader.seeking /\ reader'.complete = reader.complete
            /\ reader'.failed = TRUE
        BY <2>5, <4>1 DEF ReaderFields
      <4>3. result' # "changed layout" BY <2>2, <4>1 DEF Fine, Ends
      <4>4. ~reader'.complete /\ reader'.failed BY <2>1, <4>2
      <4> QED BY <2>5, <4>2, <4>3, <4>4
    <3> QED BY <3>1, <3>2
  <2>15. Served'
    <3>1. (SpanFits(reader.from, reader.to))' /\ (OnPlace(reader.mark))' BY <2>4, <2>5, <2>14 DEF SpanFits
    <3>2. (Delivers(got, reader.from))' BY <2>4, <2>9, <2>14 DEF Delivers
    <3>3. (NearEnough(start, reader.from))' BY <2>3, <2>4, <2>7, <2>14 DEF NearEnough
    <3>4. (Progress(PausedSeeking(reader), reader.mark.units, reader.from, reader.to, Len(got), charged))'
          <=> Progress(PausedSeeking(reader'), reader'.mark.units, reader.from, reader.to, Len(got'), charged')
      BY <2>3, <2>14 DEF Progress, PausedSeeking
    <3>5. layout' # <<>> /\ reader'.from # reader'.to BY <2>3, <2>5, <2>7, <2>14
    <3>6. reader'.from + Len(got') <= reader'.to /\ charged' <= Distance(start', reader'.from) + Len(got')
      BY <2>3, <2>12, <2>14
    <3>7. reader'.complete => Len(got') = reader'.to - reader'.from BY <2>14
    <3> QED BY <2>14, <3>1, <3>2, <3>3, <3>4, <3>5, <3>6, <3>7 DEF Served
  <2>16. budget' \in Nat /\ charged' \in Nat /\ charged' + budget' <= Budget
    <3>1. charged + budget <= Budget /\ Budget \in Nat BY ReaderConstants DEF Inv
    <3> QED BY <2>1, <2>6, <3>1
  <2>17. (near # Nowhere => layout # <<>> /\ OnPlace(near.mark))' BY <2>3, <2>4 DEF Inv
  <2> QED BY <2>3, <2>4, <2>14, <2>15, <2>16, <2>17 DEF Inv
<1> QED BY <1>2, <1>3, <1>4

LEMMA NextInv ==
  ASSUME Inv, [Next]_vars
  PROVE  Inv'
<1>1. CASE Bind \/ BindCounted BY <1>1, BindInv
<1>2. CASE \E s \in Spans : New(s[1], s[2]) \/ NewNear(s[1], s[2]) \/ Retarget(s[1], s[2]) BY <1>2, OpensInv
<1>3. CASE Position BY <1>3, PositionInv
<1>4. CASE Refused BY <1>4, RefusedInv
<1>5. CASE \E quantum \in Quanta, refuses \in 0..2 : TryFold(quantum, refuses)
  <2>1. Quanta \subseteq Nat BY ReaderConstants
  <2> QED BY <1>5, <2>1, TryFoldInv
<1>6. CASE UNCHANGED vars
  <2>1. /\ text' = text /\ layout' = layout /\ near' = near /\ result' = result
        /\ UNCHANGED <<reader, budget, got, charged, start, opens>>
    BY <1>6 DEF vars
  <2>2. result # "changed layout" /\ (near # Nowhere => layout # <<>> /\ OnPlace(near.mark)) BY DEF Inv
  <2> QED BY <2>1, <2>2, IdleInv
<1> QED BY <1>1, <1>2, <1>3, <1>4, <1>5, <1>6 DEF Next

LEMMA Invariant == Spec => []Inv
<1>1. Init => Inv BY InitInv
<1>2. Inv /\ [Next]_vars => Inv' BY NextInv
<1> QED BY <1>1, <1>2, PTL DEF Spec
-----------------------------------------------------------------------------
(* CountedLikeDecoded: a binding that is told the true count of a text     *)
(* keeps the shape that decoding the text would have found, of every text: *)
(* a text has as many bytes as units, or up to three times as many.        *)
THEOREM CountIsTakenOnTrust == Spec => []CountedLikeDecoded
<1>1. Inv => CountedLikeDecoded BY DEF Inv, Layouts, CountedLikeDecoded
<1> QED BY <1>1, Invariant, PTL

(* DeliversOnce: what a reader has given is a beginning of its span, each  *)
(* unit once and in order, wherever its calls paused and whatever they     *)
(* sought through; and the next borrow takes its mark back.                *)
THEOREM EachUnitOnce == Spec => []DeliversOnce
<1>1. ASSUME Inv PROVE DeliversOnce
  <2> SUFFICES ASSUME reader.open
      PROVE /\ Resumes(Borrow, reader.mark)
            /\ got = SubSeq(Units, reader.from + 1, reader.from + Len(got))
            /\ reader.from + Len(got) <= reader.to
            /\ (~reader.failed /\ ~reader.seeking /\ reader.from # reader.to) =>
                 reader.mark.units = reader.from + Len(got)
            /\ reader.complete => Len(got) = reader.to - reader.from
    BY DEF DeliversOnce
  <2>1. Served /\ text \in Texts /\ layout \in Layouts BY <1>1 DEF Inv, Served
  <2>2. Resumes(Borrow, reader.mark)
    <3>1. Viewed(Borrow, Units, Places) /\ OnPlace(reader.mark) BY <2>1, BorrowIs DEF Served
    <3> QED BY <3>1, ResumesAll DEF OnPlace
  <2>3. got = SubSeq(Units, reader.from + 1, reader.from + Len(got))
    <3>1. /\ reader.from \in Nat /\ reader.to \in Nat /\ reader.to <= Len(Units) /\ Delivers(got, reader.from)
          /\ reader.from + Len(got) <= reader.to
      BY <2>1 DEF Served, SpanFits
    <3>2. Len(got) \in Nat BY <3>1 DEF Delivers
    <3>3. Units \in Seq(Nat) /\ Len(Units) \in Nat BY <2>1, TextIs
    <3>4. reader.from + Len(got) <= Len(Units) BY <3>1, <3>2, <3>3
    <3> QED BY <3>1, <3>3, <3>4, DeliveredIs
  <2>4. ~reader.failed /\ ~reader.seeking /\ reader.from # reader.to => reader.mark.units = reader.from + Len(got)
    <3>1. ~reader.seeking => ~PausedSeeking(reader) BY DEF PausedSeeking
    <3> QED BY <2>1, <3>1 DEF Served, Progress
  <2>5. reader.from + Len(got) <= reader.to /\ (reader.complete => Len(got) = reader.to - reader.from)
    BY <2>1 DEF Served
  <2> QED BY <2>2, <2>3, <2>4, <2>5
<1> QED BY <1>1, Invariant, PTL

(* ChargesTheDistance: a seek begins no farther from its span than the     *)
(* nearer end of the subject, and the host pays for each unit sought and   *)
(* each unit delivered, once, over however many calls.                     *)
THEOREM PaysForTheDistance == Spec => []ChargesTheDistance
<1>1. ASSUME Inv PROVE ChargesTheDistance
  <2> SUFFICES ASSUME reader.open, reader.from # reader.to
      PROVE /\ Distance(start, reader.from) <= Least(reader.from, Len(Units) - reader.from)
            /\ charged <= Distance(start, reader.from) + Len(got)
            /\ (~reader.failed /\ ~reader.seeking) => charged = Distance(start, reader.from) + Len(got)
            /\ Budget - budget >= charged
    BY DEF ChargesTheDistance
  <2>1. Served BY <1>1 DEF Inv
  <2>2. ~reader.failed /\ ~reader.seeking => charged = Distance(start, reader.from) + Len(got)
    <3>1. ~reader.seeking => ~PausedSeeking(reader) BY DEF PausedSeeking
    <3> QED BY <2>1, <3>1 DEF Served, Progress
  <2>3. Budget - budget >= charged
    <3>1. budget \in Nat /\ charged \in Nat /\ charged + budget <= Budget BY <1>1 DEF Inv
    <3>2. Budget \in Nat BY ReaderConstants
    <3> QED BY <3>1, <3>2
  <2>4. /\ Distance(start, reader.from) <= Least(reader.from, Len(Units) - reader.from)
        /\ charged <= Distance(start, reader.from) + Len(got)
    BY <2>1 DEF Served, NearEnough
  <2> QED BY <2>2, <2>3, <2>4
<1> QED BY <1>1, Invariant, PTL
================================================================================
