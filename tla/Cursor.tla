--------------------------------- MODULE Cursor ---------------------------------
(***************************************************************************)
(* A cursor's walks over one text, validated as bytes or borrowed as units *)
(* (input.rs), against the text's meaning: its UTF-16 units, whatever the  *)
(* storage (Wtf8Text), and not what the decoder makes of them.             *)
(***************************************************************************)
EXTENDS Input, Wtf8Text

CONSTANT Texts    (* Sequences of bytes, well formed or not.               *)

ASSUME CursorConstants == \A bytes \in Texts : bytes \in Seq(0..255)

VARIABLES
  text,       (* The bytes borrowed.                                       *)
  view,       (* The view of them, or what is wrong with them.             *)
  mark,       (* Where the cursor is.                                      *)
  kept,       (* A mark kept while the text was not borrowed.              *)
  answer      (* What the last read returned.                              *)

vars == <<text, view, mark, kept, answer>>

-----------------------------------------------------------------------------
Units == Text(text).units

UnitAt(p) == IF p \in 0..(Len(Units) - 1) THEN Units[p + 1] ELSE None

PairAt(p) == IsHigh(UnitAt(p)) /\ IsLow(UnitAt(p + 1))

PointAt(p) ==
  IF PairAt(p) THEN 65536 + 1024 * (UnitAt(p) - 55296) + (UnitAt(p + 1) - 56320) ELSE UnitAt(p)

(* Where storage of a kind has a position.                                 *)
Place(kind, p) ==
  IF kind # "bytes" THEN Mark(p, FALSE, p)
  ELSE Mark(Text(text).places[p + 1][1], Text(text).places[p + 1][2], p)
-----------------------------------------------------------------------------
Unread == View("unread", <<>>, 0)

Init ==
  /\ text \in Texts
  /\ view = Unread
  /\ mark = Mark(0, FALSE, 0) /\ kept = mark /\ answer = None

BorrowBytes ==
  /\ view = Unread
  /\ view' = IF Counted(text).error = None THEN Wtf8(text)
             ELSE View("refused", <<>>, Counted(text).error)
  /\ UNCHANGED <<text, mark, kept, answer>>

BorrowUnits ==
  /\ view = Unread /\ Text(text).error = None
  /\ view' = Utf16(Units)
  /\ UNCHANGED <<text, mark, kept, answer>>

Borrowed == view.kind \in {"ascii", "bytes", "units"}

SeekTo(p) ==
  /\ Borrowed /\ p <= view.units
  /\ mark' = CursorAt(view, p) /\ answer' = None
  /\ UNCHANGED <<text, view, kept>>

Reads(read) == mark' = read.mark /\ answer' = read.value /\ UNCHANGED <<text, view, kept>>

StepUnit == Borrowed /\ Reads(NextUnit(view, mark))
BackUnit == Borrowed /\ Reads(PreviousUnit(view, mark))
StepPoint == Borrowed /\ Reads(NextPoint(view, mark))
BackPoint == Borrowed /\ Reads(PreviousPoint(view, mark))

Normalize ==
  /\ Borrowed
  /\ mark' = NormalizeUnicodeStart(view, mark) /\ answer' = None
  /\ UNCHANGED <<text, view, kept>>

Skip(count) ==
  /\ Borrowed
  /\ mark' = SkipAscii(view, mark, count) /\ answer' = None
  /\ UNCHANGED <<text, view, kept>>

(* The text is given up at a mark, and borrowed again to go on from it.    *)
Keep ==
  /\ Borrowed /\ kept' = mark /\ answer' = None
  /\ UNCHANGED <<text, view, mark>>

Resume ==
  /\ Borrowed /\ Resumes(view, kept)
  /\ mark' = kept /\ answer' = None
  /\ UNCHANGED <<text, view, kept>>

Next ==
  \/ BorrowBytes \/ BorrowUnits
  \/ \E p \in 0..view.units : SeekTo(p)
  \/ StepUnit \/ BackUnit \/ StepPoint \/ BackPoint
  \/ Normalize
  \/ \E count \in 1..2 : Skip(count)
  \/ Keep \/ Resume

Spec == Init /\ [][Next]_vars
-----------------------------------------------------------------------------
(* Validation (wtf8, decode_checked) takes a text exactly when it is well  *)
(* formed, names the first byte of the first sequence that is not, and     *)
(* counts its units; and storage is taken for ASCII only when it is.       *)
ValidatesExactly ==
  /\ view.kind = "refused" => Text(text).error # None /\ view.units = Text(text).error
  /\ view.kind \notin {"unread", "refused"} =>
       /\ Text(text).error = None
       /\ view.units = Len(Units)
       /\ view.kind = "ascii" => \A i \in DOMAIN text : text[i] < 128

(* However a cursor came to a position, by units or points forwards or     *)
(* backwards, by a seek from either end, over ASCII or from a kept mark,   *)
(* it is at the one offset that position has: what is read there later,    *)
(* and the mark that is compared for progress, does not depend on the way. *)
(* A seek decodes no more scalars for it than seek_work charges.           *)
OnePlaceEach ==
  /\ Borrowed => mark = Place(view.kind, mark.units)
  /\ view.kind = "bytes" =>
       \A p \in 1..(view.units - 1) : Sought(view, p).work < SeekWork(view, p)

(* A read returns the unit or the point of the text there, whole scalars,  *)
(* separately encoded pairs and lone surrogates alike, in each storage,    *)
(* and moves past just what it returned.  A search that starts between the *)
(* units of a pair is moved to the pair, whichever way it is stored.       *)
ReadsTheText ==
  [][LET p == mark.units IN
     /\ StepUnit => answer' = UnitAt(p) /\ (mark'.units = p + 1 \/ p = Len(Units))
     /\ BackUnit => answer' = UnitAt(p - 1) /\ (mark'.units = p - 1 \/ p = 0)
     /\ StepPoint => /\ answer' = PointAt(p)
                     /\ mark'.units = Least(Len(Units), IF PairAt(p) THEN p + 2 ELSE p + 1)
     /\ BackPoint => /\ answer' = IF PairAt(p - 2) THEN PointAt(p - 2) ELSE UnitAt(p - 1)
                     /\ p > 0 => mark'.units = IF PairAt(p - 2) THEN p - 2 ELSE p - 1
     /\ Normalize => mark'.units = IF PairAt(p - 1) THEN p - 1 ELSE p]_vars

(* A view takes back every mark made on it, and of all others only what it *)
(* can decode: a mark before a sequence, between the units of one that has *)
(* two, or at an end of both the storage and the text.                     *)
MarksAreDecodable ==
  (Borrowed /\ mark.units = 0) =>
    LET places == {Place(view.kind, p) : p \in 0..view.units}
    IN /\ \A at \in places : Resumes(view, at)
       /\ \A offset \in 0..(Len(view.data) + 1), half \in BOOLEAN, units \in 0..(view.units + 1) :
            Resumes(view, Mark(offset, half, units)) =>
              /\ \E at \in places : at.offset = offset /\ at.half = half
              /\ offset = Len(view.data) <=> units = view.units
              /\ view.kind # "bytes" => offset = units
================================================================================
