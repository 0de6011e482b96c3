--------------------------------- MODULE Reader ---------------------------------
(***************************************************************************)
(* A subject bound to the owner of its storage (binding.rs), and a reader  *)
(* of one of its spans (span/bound.rs), which is called again and again    *)
(* with a quantum, and between calls holds offsets only: each call borrows *)
(* the storage anew, and the owner may refuse it, or give storage of       *)
(* another shape.  Consumers may fail at any unit.                         *)
(***************************************************************************)
EXTENDS Input, Wtf8Text

CONSTANTS
  Texts,      (* Sequences of bytes, all well formed.                      *)
  Quanta,     (* Limits of one call, in units.                             *)
  Budget,     (* The host's budget.                                        *)
  MaxOpens    (* Bounds the readers opened and spans selected.             *)

ASSUME ReaderConstants ==
  /\ \A bytes \in Texts : bytes \in Seq(0..255) /\ Text(bytes).error = None
  /\ Quanta \subseteq Nat /\ Budget \in Nat /\ MaxOpens \in Nat

VARIABLES
  text,       (* The owner's bytes.                                        *)
  layout,     (* What the binding keeps, <<>> before it.                   *)
  reader,     (* The reader.                                               *)
  near,       (* A position a reader gave, or Nowhere.                     *)
  budget,     (* What is left of the budget.                               *)
  got,        (* The units consumed since the span was selected.           *)
  charged,    (* The work charged since.                                   *)
  start,      (* Where the reader stood then.                              *)
  opens,      (* Readers opened and spans selected.                        *)
  result      (* What the last call returned.                              *)

vars == <<text, layout, reader, near, budget, got, charged, start, opens, result>>
host == <<text, layout, near>>

Nowhere == [mark |-> Mark(0, FALSE, 0), layout |-> <<>>]
NoReader == [open |-> FALSE, from |-> 0, to |-> 0, mark |-> Mark(0, FALSE, 0),
             seeking |-> FALSE, complete |-> FALSE, failed |-> FALSE]

Meanings == [bytes \in Texts |-> Text(bytes).units]
Units == Meanings[text]

(* with_view and reborrow_bytes: the owner's storage, with what the        *)
(* binding kept of it and nothing decoded or counted again.                *)
Storage == IF layout[1] = "units" THEN Units ELSE text
Borrow == View(layout[1], Storage, layout[3])

(* Where a cursor that seeks a target starts, of those at hand.            *)
Direct(view, from) == SeekWork(view, from) = 1
EndNear(view, from) == IF from <= view.units - from THEN 0 ELSE view.units
Closer(mark, target, position) == Distance(mark.units, target) < Distance(position, target)

(* new: constant work, at the span or at the nearer end.                   *)
Opened(view, from, to) ==
  LET at == IF from = to THEN 0
            ELSE IF Direct(view, from) THEN from ELSE EndNear(view, from)
  IN [NoReader EXCEPT !.open = TRUE, !.from = from, !.to = to, !.mark = CursorAt(view, at),
                      !.seeking = (at # from), !.complete = (from = to)]

(* new_near: from a position given earlier, if it is nearer.               *)
OpenedNear(view, from, to, position) ==
  LET own == Opened(view, from, to)
      mark == IF from # to /\ Closer(position.mark, from, own.mark.units) THEN position.mark ELSE own.mark
  IN [own EXCEPT !.mark = mark, !.seeking = (from # to /\ mark.units # from)]

(* Fault: the reader's place is not brought to the new span.               *)
RetargetedHere(view, old, from, to) ==
  [old EXCEPT !.from = from, !.to = to, !.complete = (from = to)]

(* retarget: from where the reader stands, or from the nearer end.         *)
Retargeted(view, old, from, to) ==
  LET end == EndNear(view, from)
      mark == IF Direct(view, from) THEN CursorAt(view, from)
              ELSE IF Distance(old.mark.units, from) <= Distance(end, from) THEN old.mark
              ELSE CursorAt(view, end)
  IN [old EXCEPT !.from = from, !.to = to, !.mark = mark,
                 !.seeking = (mark.units # from), !.complete = (from = to)]

(* Fault: a unit is not charged when it is delivered.                      *)
PassFree(view, walk, refuses) ==
  LET seeks == walk.seeking /\ walk.mark.units # walk.from
      read == IF seeks /\ walk.mark.units > walk.from THEN PreviousUnit(view, walk.mark)
              ELSE NextUnit(view, walk.mark)
  IN IF seeks /\ walk.budget = 0 THEN [walk EXCEPT !.end = "work"]
     ELSE IF read.value = None THEN [walk EXCEPT !.end = "changed"]
     ELSE LET units == IF seeks THEN walk.units ELSE Append(walk.units, read.value)
          IN [walk EXCEPT !.mark = read.mark, !.units = units, !.seeking = seeks,
                          !.budget = IF seeks THEN @ - 1 ELSE @, !.work = IF seeks THEN @ + 1 ELSE @,
                          !.end = IF ~seeks /\ Len(units) = refuses THEN "consumer" ELSE @]

(* A unit of a call's work: a unit sought, or a unit delivered, each       *)
(* charged before it is read.  The consumer refuses the unit numbered      *)
(* refuses.                                                                *)
Pass(view, walk, refuses) ==
  LET seeks == walk.seeking /\ walk.mark.units # walk.from
      read == IF seeks /\ walk.mark.units > walk.from THEN PreviousUnit(view, walk.mark)
              ELSE NextUnit(view, walk.mark)
  IN IF walk.budget = 0 THEN [walk EXCEPT !.end = "work"]
     ELSE IF read.value = None THEN [walk EXCEPT !.end = "changed", !.budget = @ - 1, !.work = @ + 1]
     ELSE LET units == IF seeks THEN walk.units ELSE Append(walk.units, read.value)
          IN [walk EXCEPT !.mark = read.mark, !.units = units, !.seeking = seeks,
                          !.budget = @ - 1, !.work = @ + 1,
                          !.end = IF ~seeks /\ Len(units) = refuses THEN "consumer" ELSE @]

(* Where a call that has spent its quantum stands.                         *)
PausedSeeking(walk) == walk.seeking /\ walk.mark.units # walk.from

(* Whether a call has nothing more to do.                                  *)
AtEnd(walk) == ~PausedSeeking(walk) /\ walk.mark.units >= walk.to

(* try_fold's loops, at most quantum units of them.                        *)
Folded(view, old, quantum, refuses) ==
  LET first == [mark |-> old.mark, seeking |-> old.seeking, from |-> old.from, to |-> old.to,
                units |-> <<>>, budget |-> budget, work |-> 0, end |-> "none"]
      walk[k \in 0..quantum] ==
        IF k = 0 THEN first
        ELSE LET before == walk[k - 1]
             IN IF before.end # "none" \/ AtEnd(before) THEN before ELSE Pass(view, before, refuses)
  IN walk[quantum]
-----------------------------------------------------------------------------
Init ==
  /\ text \in Texts
  /\ layout = <<>> /\ reader = NoReader /\ near = Nowhere
  /\ budget = Budget /\ got = <<>> /\ charged = 0 /\ start = 0 /\ opens = 0
  /\ result = "none"

idle == <<reader, near, budget, got, charged, start, opens>>

Bind ==
  /\ layout = <<>>
  /\ layout' \in {Shape(Wtf8(text)), Shape(Utf16(Units))}
  /\ result' = "bound" /\ UNCHANGED <<text, idle>>

(* Fault: a unit is taken for two bytes at most.                           *)
PossibleTwo(units, bytes) == units <= bytes /\ bytes <= 2 * units

Possible(units, bytes) == units <= bytes /\ bytes <= 3 * units

(* new_counted: the host's count of units, of which only what is possible  *)
(* is checked.                                                             *)
BindCounted ==
  /\ layout = <<>>
  /\ LET units == Len(Units)
     IN IF Possible(units, Len(text))
        THEN /\ layout' = <<IF units = Len(text) THEN "ascii" ELSE "bytes", Len(text), units>>
             /\ result' = "bound"
        ELSE result' = "changed layout" /\ UNCHANGED layout
  /\ UNCHANGED <<text, idle>>

Selects(chosen) ==
  /\ reader' = chosen
  /\ got' = <<>> /\ charged' = 0 /\ start' = chosen.mark.units /\ opens' = opens + 1
  /\ result' = "ready" /\ UNCHANGED <<host, budget>>

Fails(why) == result' = why /\ UNCHANGED <<host, idle>>
Poisons(why) ==
  /\ reader' = [reader EXCEPT !.failed = TRUE]
  /\ result' = why /\ UNCHANGED <<host, budget, got, charged, start, opens>>

Spans == {s \in (0..(Len(Units) + 1)) \X (0..(Len(Units) + 1)) : s[1] <= s[2]}

New(from, to) ==
  /\ layout # <<>> /\ opens < MaxOpens
  /\ LET view == Borrow
     IN IF to > view.units THEN Fails("invalid span") ELSE Selects(Opened(view, from, to))

NewNear(from, to) ==
  /\ layout # <<>> /\ near # Nowhere /\ opens < MaxOpens
  /\ LET view == Borrow
     IN IF to > view.units THEN Fails("invalid span")
        ELSE IF near.layout # layout \/ ~Resumes(view, near.mark) THEN Fails("changed position")
        ELSE Selects(OpenedNear(view, from, to, near))

Retarget(from, to) ==
  /\ reader.open /\ opens < MaxOpens
  /\ LET view == Borrow
     IN IF reader.failed THEN Fails("failed")
        ELSE IF to > view.units THEN Poisons("invalid span")
        ELSE IF ~Resumes(view, reader.mark) THEN Poisons("changed position")
        ELSE Selects(Retargeted(view, reader, from, to))

(* position: kept by the host for a later reader.                          *)
Position ==
  /\ reader.open
  /\ near' = [mark |-> reader.mark, layout |-> layout]
  /\ UNCHANGED <<text, layout, reader, budget, got, charged, start, opens, result>>

(* The owner refuses a borrow, or its storage has another shape: a call of *)
(* the reader has poisoned it before it asks, and a new one is not made.   *)
Refused ==
  /\ layout # <<>>
  /\ Fails("subject") \/ (reader.open /\ ~reader.failed /\ Poisons("subject"))

TryFold(quantum, refuses) ==
  /\ reader.open
  /\ IF reader.failed THEN Fails("failed")
     ELSE IF quantum = 0 THEN Fails("invalid quantum")
     ELSE IF reader.complete THEN Fails("complete")
     ELSE IF ~Resumes(Borrow, reader.mark) THEN Poisons("changed position")
     ELSE LET walk == Folded(Borrow, reader, quantum, refuses)
          IN /\ budget' = walk.budget /\ charged' = charged + walk.work
             /\ got' = got \o walk.units
             /\ IF walk.end = "none"
                THEN /\ reader' = [reader EXCEPT !.mark = walk.mark, !.seeking = PausedSeeking(walk),
                                                 !.complete = AtEnd(walk)]
                     /\ result' = IF AtEnd(walk) THEN "complete" ELSE "pending"
                ELSE reader' = [reader EXCEPT !.failed = TRUE] /\ result' = walk.end
             /\ UNCHANGED <<host, start, opens>>

Next ==
  \/ Bind \/ BindCounted
  \/ \E s \in Spans : New(s[1], s[2]) \/ NewNear(s[1], s[2]) \/ Retarget(s[1], s[2])
  \/ Position \/ Refused
  \/ \E quantum \in Quanta, refuses \in 0..2 : TryFold(quantum, refuses)

Spec == Init /\ [][Next]_vars
-----------------------------------------------------------------------------
(* new_counted, told the true count, keeps what decoding would have found, *)
(* and refuses no text.                                                    *)
CountedLikeDecoded ==
  /\ layout # <<>> => layout \in {Shape(Wtf8(text)), Shape(Utf16(Units))}
  /\ result # "changed layout"

(* Every unit of the span is delivered in order and once, over however     *)
(* many borrows of the storage, from either direction of seek and between  *)
(* the halves of a pair: what a consumer was given is a beginning of the   *)
(* span, a reader that pauses stands at its end, and one that completes    *)
(* has given it all.  Nothing is given twice after an error, and the mark  *)
(* kept is one the next borrow takes back.                                 *)
DeliversOnce ==
  reader.open =>
    /\ Resumes(Borrow, reader.mark)
    /\ got = SubSeq(Units, reader.from + 1, reader.from + Len(got))
    /\ reader.from + Len(got) <= reader.to
    /\ (~reader.failed /\ ~reader.seeking /\ reader.from # reader.to) => reader.mark.units = reader.from + Len(got)
    /\ reader.complete => Len(got) = reader.to - reader.from

(* The work charged is the units delivered and the units sought, and a     *)
(* seek is never from farther than the nearer end of the subject.          *)
ChargesTheDistance ==
  (reader.open /\ reader.from # reader.to) =>
    /\ Distance(start, reader.from) <= Least(reader.from, Len(Units) - reader.from)
    /\ charged <= Distance(start, reader.from) + Len(got)
    /\ (~reader.failed /\ ~reader.seeking) => charged = Distance(start, reader.from) + Len(got)
    /\ Budget - budget >= charged
================================================================================
