--------------------------------- MODULE Input ---------------------------------
(***************************************************************************)
(* Subjects and positions in them (input.rs).  A view is storage of one of *)
(* three kinds and its length in UTF-16 units; a cursor is an offset, a    *)
(* mark that it is between the units of the scalar there, and its position *)
(* in units.  Offsets count from 0, as in the code.  What a read returns   *)
(* is the cursor after it and the unit or point, None at an end.           *)
(***************************************************************************)
EXTENDS Integers, Sequences, FiniteSets, SequencesExt

None == -1

Least(x, z) == IF x < z THEN x ELSE z
Distance(x, z) == IF x < z THEN z - x ELSE x - z

IsHigh(unit) == 55296 <= unit /\ unit <= 56319
IsLow(unit) == 56320 <= unit /\ unit <= 57343
HighSurrogate(point) == 55296 + ((point - 65536) \div 1024)
LowSurrogate(point) == 56320 + ((point - 65536) % 1024)
CombinePair(high, low) == 65536 + 1024 * (high - 55296) + (low - 56320)
IsContinuation(byte) == byte \div 64 = 2

UnitsOf(point) == IF point > 65535 THEN 2 ELSE 1

(* The bits of a sequence of width bytes at an offset.                     *)
Bits(bytes, offset, width) ==
  LET lead == bytes[offset + 1]
      bits(k) == bytes[offset + k] % 64
  IN IF width = 2 THEN 64 * (lead % 32) + bits(2)
     ELSE IF width = 3 THEN 4096 * (lead % 16) + 64 * bits(2) + bits(3)
     ELSE 262144 * (lead % 8) + 4096 * bits(2) + 64 * bits(3) + bits(4)

(* decode_valid, of bytes decoded before.                                  *)
DecodeValid(bytes, offset) ==
  LET lead == bytes[offset + 1]
      width == IF lead < 224 THEN 2 ELSE IF lead < 240 THEN 3 ELSE 4
  IN IF lead < 128 THEN [point |-> lead, width |-> 1]
     ELSE [point |-> Bits(bytes, offset, width), width |-> width]

(* What a lead byte says: the width, 0 if it is none, and the least point. *)
Announced(lead) ==
  IF lead \in 194..223 THEN 2 ELSE IF lead \in 224..239 THEN 3 ELSE IF lead \in 240..244 THEN 4 ELSE 0
LeastPoint(width) == IF width = 2 THEN 128 ELSE IF width = 3 THEN 2048 ELSE 65536

(* Whether a whole sequence of the width announced follows.                *)
Follows(bytes, offset, width) ==
  /\ width # 0 /\ offset + width <= Len(bytes)
  /\ \A i \in (offset + 2)..(offset + width) : IsContinuation(bytes[i])

NoPoint == [point |-> None, width |-> 0]

(* Fault: an encoding longer than it need be is let through.               *)
DecodeOverlong(bytes, offset) ==
  LET lead == bytes[offset + 1]
      width == Announced(lead)
      point == Bits(bytes, offset, width)
  IN IF lead < 128 THEN [point |-> lead, width |-> 1]
     ELSE IF Follows(bytes, offset, width) /\ point <= 1114111
          THEN [point |-> point, width |-> width]
          ELSE NoPoint

(* decode_checked: the scalar or surrogate at an offset, or None.          *)
DecodeChecked(bytes, offset) ==
  LET lead == bytes[offset + 1]
      width == Announced(lead)
      point == Bits(bytes, offset, width)
  IN IF lead < 128 THEN [point |-> lead, width |-> 1]
     ELSE IF Follows(bytes, offset, width) /\ LeastPoint(width) <= point /\ point <= 1114111
          THEN [point |-> point, width |-> width]
          ELSE NoPoint

(* wtf8: the units of the bytes from an offset, and where they are wrong.  *)
CountedFrom(bytes) ==
  LET count[offset \in 0..Len(bytes)] ==
        IF offset = Len(bytes) THEN [units |-> 0, error |-> None]
        ELSE LET read == DecodeChecked(bytes, offset)
             IN IF read.point = None THEN [units |-> 0, error |-> offset]
                ELSE LET rest == count[offset + read.width]
                     IN [rest EXCEPT !.units = UnitsOf(read.point) + @]
  IN count
Counted(bytes) == CountedFrom(bytes)[0]

View(kind, data, units) == [kind |-> kind, data |-> data, units |-> units]
Wtf8(bytes) ==
  LET units == Counted(bytes).units
  IN View(IF units = Len(bytes) THEN "ascii" ELSE "bytes", bytes, units)
Utf16(units) == View("units", units, Len(units))

(* What a binding keeps of a view.                                         *)
Shape(view) == <<view.kind, Len(view.data), view.units>>

Mark(offset, half, units) == [offset |-> offset, half |-> half, units |-> units]

(* Fault: a mark inside a scalar's bytes is taken.                         *)
ResumesInside(view, mark) ==
  /\ mark.units <= view.units
  /\ mark.offset <= Len(view.data)
  /\ IF view.kind # "bytes" THEN ~mark.half /\ mark.offset = mark.units
     ELSE (mark.offset = Len(view.data)) = (mark.units = view.units)

(* resume_cursor: the marks a view takes.                                  *)
Resumes(view, mark) ==
  /\ mark.units <= view.units
  /\ mark.offset <= Len(view.data)
  /\ IF view.kind # "bytes" THEN ~mark.half /\ mark.offset = mark.units
     ELSE /\ (mark.offset = Len(view.data)) = (mark.units = view.units)
          /\ ~(mark.offset = 0 /\ ~mark.half /\ mark.units # 0)
          /\ mark.offset < Len(view.data) => ~IsContinuation(view.data[mark.offset + 1])
          /\ mark.half => mark.offset < Len(view.data) /\ DecodeValid(view.data, mark.offset).point > 65535

SeekWork(view, position) ==
  IF view.kind # "bytes" THEN 1 ELSE Least(position, view.units - position) + 1

(* The lead of the scalar that ends before an offset.                      *)
LeadBefore(bytes, offset) ==
  Max({o \in 0..(offset - 1) : ~IsContinuation(bytes[o + 1])})

(* Fault: a destination inside a scalar is taken for its start.            *)
SeekAhead(bytes, mark, target) ==
  LET read == DecodeValid(bytes, mark.offset)
      count == UnitsOf(read.point)
  IN IF count > target - mark.units THEN Mark(mark.offset, FALSE, target)
     ELSE Mark(mark.offset + read.width, FALSE, mark.units + count)

(* A scalar of seek_byte_offset's walk, forwards and backwards, to or past *)
(* a target: one whose units the target divides is where it ends.          *)
Ahead(bytes, mark, target) ==
  LET read == DecodeValid(bytes, mark.offset)
      count == UnitsOf(read.point)
  IN IF count > target - mark.units THEN Mark(mark.offset, TRUE, target)
     ELSE Mark(mark.offset + read.width, FALSE, mark.units + count)
Back(bytes, mark, target) ==
  LET offset == LeadBefore(bytes, mark.offset)
      count == UnitsOf(DecodeValid(bytes, offset).point)
  IN IF count > mark.units - target THEN Mark(offset, TRUE, target)
     ELSE Mark(offset, FALSE, mark.units - count)

(* Fault: the walk is always from the start.                               *)
AlwaysAhead(view, target) == TRUE

FromStart(view, target) == target <= view.units \div 2

(* Where its walk is after so many scalars, from the start or from the end.*)
Walking(view, target) ==
  LET walk[k \in 0..view.units] ==
        IF k = 0
        THEN IF FromStart(view, target) THEN Mark(0, FALSE, 0) ELSE Mark(Len(view.data), FALSE, view.units)
        ELSE IF walk[k - 1].units = target THEN walk[k - 1]
        ELSE IF FromStart(view, target) THEN Ahead(view.data, walk[k - 1], target)
        ELSE Back(view.data, walk[k - 1], target)
  IN walk

(* seek_byte_offset, with the scalars it decodes.                          *)
Sought(view, target) ==
  LET walk == Walking(view, target)
  IN [mark |-> walk[view.units],
      work |-> Cardinality({k \in 0..view.units : walk[k].units # target})]

(* Fault: a position in units is taken for an offset.                      *)
CursorAtOffset(view, target) == Mark(target, FALSE, target)

(* cursor_at: a position that is not beyond the end.                       *)
CursorAt(view, target) ==
  IF view.kind # "bytes" \/ target = 0 THEN Mark(target, FALSE, target)
  ELSE IF target = view.units THEN Mark(Len(view.data), FALSE, target)
  ELSE Sought(view, target).mark

Read(mark, value) == [mark |-> mark, value |-> value]

NextUnit(view, mark) ==
  IF mark.offset = Len(view.data) THEN Read(mark, None)
  ELSE IF view.kind # "bytes"
  THEN Read(Mark(mark.offset + 1, FALSE, mark.units + 1), view.data[mark.offset + 1])
  ELSE LET read == DecodeValid(view.data, mark.offset)
           passed == Mark(mark.offset + read.width, FALSE, mark.units + 1)
       IN IF read.point <= 65535 THEN Read(passed, read.point)
          ELSE IF mark.half THEN Read(passed, LowSurrogate(read.point))
          ELSE Read(Mark(mark.offset, TRUE, mark.units + 1), HighSurrogate(read.point))

PreviousUnit(view, mark) ==
  IF mark.units = 0 THEN Read(mark, None)
  ELSE IF view.kind # "bytes"
  THEN Read(Mark(mark.offset - 1, FALSE, mark.units - 1), view.data[mark.offset])
  ELSE IF mark.half
  THEN Read(Mark(mark.offset, FALSE, mark.units - 1),
            HighSurrogate(DecodeValid(view.data, mark.offset).point))
  ELSE LET offset == LeadBefore(view.data, mark.offset)
           point == DecodeValid(view.data, offset).point
       IN IF point > 65535
          THEN Read(Mark(offset, TRUE, mark.units - 1), LowSurrogate(point))
          ELSE Read(Mark(offset, FALSE, mark.units - 1), point)

(* A scalar stored whole is taken whole, and any other pair is put         *)
(* together from two reads, the second undone if it makes no pair.         *)
Whole(view, mark, offset) ==
  /\ view.kind = "bytes" /\ ~mark.half
  /\ DecodeValid(view.data, offset).point > 65535

(* Fault: the second read is not undone.                                   *)
NextPointKept(view, mark) ==
  LET first == NextUnit(view, mark)
      second == NextUnit(view, first.mark)
  IN IF first.value = None THEN first
     ELSE IF Whole(view, mark, mark.offset)
     THEN LET read == DecodeValid(view.data, mark.offset)
          IN Read(Mark(mark.offset + read.width, FALSE, mark.units + 2), read.point)
     ELSE IF IsHigh(first.value) /\ IsLow(second.value)
     THEN Read(second.mark, CombinePair(first.value, second.value))
     ELSE IF IsHigh(first.value) THEN Read(second.mark, first.value) ELSE first

NextPoint(view, mark) ==
  LET first == NextUnit(view, mark)
      second == NextUnit(view, first.mark)
  IN IF first.value = None THEN first
     ELSE IF Whole(view, mark, mark.offset)
     THEN LET read == DecodeValid(view.data, mark.offset)
          IN Read(Mark(mark.offset + read.width, FALSE, mark.units + 2), read.point)
     ELSE IF view.kind # "ascii" /\ IsHigh(first.value) /\ IsLow(second.value)
     THEN Read(second.mark, CombinePair(first.value, second.value))
     ELSE first

PreviousPoint(view, mark) ==
  LET last == PreviousUnit(view, mark)
      first == PreviousUnit(view, last.mark)
  IN IF last.value = None THEN last
     ELSE IF Whole(view, mark, LeadBefore(view.data, mark.offset))
     THEN LET offset == LeadBefore(view.data, mark.offset)
          IN Read(Mark(offset, FALSE, mark.units - 2), DecodeValid(view.data, offset).point)
     ELSE IF view.kind # "ascii" /\ IsLow(last.value) /\ IsHigh(first.value)
     THEN Read(first.mark, CombinePair(first.value, last.value))
     ELSE last

(* Fault: a start is moved back only inside a scalar stored whole.         *)
NormalizeWhole(view, mark) ==
  IF mark.half THEN PreviousUnit(view, mark).mark ELSE mark

NormalizeUnicodeStart(view, mark) ==
  IF /\ IsHigh(PreviousUnit(view, mark).value)
     /\ IsLow(NextUnit(view, mark).value)
  THEN PreviousUnit(view, mark).mark
  ELSE mark

(* Fault: the bytes skipped are not looked at.                             *)
SkipUnchecked(view, mark, count) ==
  IF view.kind # "units" /\ ~mark.half /\ mark.offset + count <= Len(view.data)
  THEN Mark(mark.offset + count, FALSE, mark.units + count)
  ELSE mark

(* skip_ascii: only a tail that begins with so many ASCII bytes.           *)
SkipAscii(view, mark, count) ==
  IF /\ view.kind # "units" /\ ~mark.half
     /\ mark.offset + count <= Len(view.data)
     /\ \A i \in 1..count : view.data[mark.offset + i] < 128
  THEN Mark(mark.offset + count, FALSE, mark.units + count)
  ELSE mark
================================================================================
