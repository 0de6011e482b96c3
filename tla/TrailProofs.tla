----------------------------- MODULE TrailProofs -----------------------------
(***************************************************************************)
(* What Trail.tla's runs check on two slots and buffers of two entries,    *)
(* proved for every register file, every set of values and points and      *)
(* every set of buffer lengths.                                            *)
(***************************************************************************)
EXTENDS Trail, SequenceTheorems, TLAPS

(* A sequence cut back to a prefix, and a sequence grown by one element.   *)
LEMMA Cut ==
  ASSUME NEW S, NEW s \in Seq(S), NEW n \in 0 .. Len(s)
  PROVE  /\ SubSeq(s, 1, n) \in Seq(S)
         /\ Len(SubSeq(s, 1, n)) = n
         /\ \A i \in 1 .. n : SubSeq(s, 1, n)[i] = s[i]
<1> QED BY SubSeqProperties

LEMMA Grown ==
  ASSUME NEW S, NEW s \in Seq(S), NEW e \in S
  PROVE  /\ Append(s, e) \in Seq(S)
         /\ Len(Append(s, e)) = Len(s) + 1
         /\ \A i \in 1 .. Len(s) : Append(s, e)[i] = s[i]
         /\ Append(s, e)[Len(s) + 1] = e
<1> QED BY AppendProperties

LEMMA None ==
  ASSUME NEW S
  PROVE  << >> \in Seq(S) /\ Len(<< >>) = 0 /\ \A s \in Seq(S) : Len(s) = 0 <=> s = << >>
<1> QED BY EmptySeq

LEMMA TypeInit == Init => TypeOK
<1> SUFFICES ASSUME Init PROVE TypeOK
    OBVIOUS
<1> USE TrailConstants DEF Init, Contents, Phases, Terminal, Unset, Frame, Entry, Kinds
<1> QED BY DEF TypeOK

LEMMA TypeNext == TypeOK /\ Nested /\ [Next]_vars => TypeOK'
<1> SUFFICES ASSUME TypeOK, Nested, [Next]_vars PROVE TypeOK'
    OBVIOUS
<1> USE TrailConstants DEF TypeOK, Contents, Phases, Terminal, Unset, Settle, Top, Height,
        scratch, control, rolling, request
<1>1. CASE Publish BY <1>1 DEF Publish
<1>2. CASE Initialize
  <2>1. registers' \in [Slots -> Contents] BY <1>2 DEF Initialize
  <2>2. \/ UNCHANGED <<frames, undo, saved, control, point>>
        \/ /\ frames' = <<>> /\ undo' = <<>> /\ saved' = <<>>
           /\ assertion' = 0 /\ phase' = "Trial" /\ point' \in Points
           /\ UNCHANGED rolling
    BY <1>2 DEF Initialize
  <2>3. frames' \in Seq(Frame) /\ undo' \in Seq(Entry) /\ saved' \in Seq([Slots -> Contents])
    BY <2>2, None
  <2> QED BY <1>2, <2>1, <2>2, <2>3 DEF Initialize
<1>3. CASE NoMatch BY <1>3 DEF NoMatch
<1>4. CASE Move BY <1>4 DEF Move
<1>5. CASE AssertEnd
  <2>1. CASE assertion \notin 1 .. Len(frames) BY <1>5, <2>1 DEF AssertEnd
  <2>2. CASE assertion \in 1 .. Len(frames)
    <3>1. assertion \in 1 .. Len(frames) /\ Len(saved) = Len(frames)
      BY <2>2 DEF Nested, Innermost
    <3>2. frames[assertion] \in Frame /\ saved[assertion] \in [Slots -> Contents]
      BY <3>1
    <3>3. frames' \in Seq(Frame) /\ saved' \in Seq([Slots -> Contents])
      <4>1. assertion - 1 \in 0 .. Len(frames) BY <3>1
      <4>2. /\ SubSeq(frames, 1, assertion - 1) \in Seq(Frame)
            /\ SubSeq(saved, 1, assertion - 1) \in Seq([Slots -> Contents])
        BY <3>1, <4>1, Cut
      <4> QED BY <1>5, <2>2, <4>2 DEF AssertEnd
    <3>4. point' \in Points /\ assertion' \in Nat
      BY <1>5, <2>2, <3>2 DEF AssertEnd, Resume, Frame
    <3>5. undo' \in Seq(Entry) /\ registers' = registers
      BY <1>5, <2>2 DEF AssertEnd, Keep
    <3>6. phase' \in Phases /\ until' \in Nat /\ after' \in {"Trial", "Fail"}
      BY <1>5, <2>2, <3>2 DEF AssertEnd, Frame
    <3>7. target' \in [Slots -> Contents]
      BY <1>5, <2>2, <3>2 DEF AssertEnd
    <3> QED BY <1>5, <3>3, <3>4, <3>5, <3>6, <3>7 DEF AssertEnd
  <2> QED BY <2>1, <2>2
<1>6. CASE FailStep BY <1>6 DEF FailStep
<1>7. CASE MatchStep BY <1>7 DEF MatchStep
<1>8. CASE Validate BY <1>8 DEF Validate
<1>9. CASE Backtrack
  <2>1. CASE frames = <<>> BY <1>9, <2>1 DEF Backtrack
  <2>2. CASE frames # <<>>
    <3>1. Len(frames) \in 1 .. Len(frames) /\ Len(saved) = Len(frames)
      BY <2>2 DEF Nested
    <3>2. frames[Len(frames)] \in Frame /\ saved[Len(frames)] \in [Slots -> Contents]
      BY <3>1
    <3>3. frames' \in Seq(Frame) /\ saved' \in Seq([Slots -> Contents])
      <4>1. Len(frames) - 1 \in 0 .. Len(frames) BY <3>1
      <4>2. /\ SubSeq(frames, 1, Len(frames) - 1) \in Seq(Frame)
            /\ SubSeq(saved, 1, Len(frames) - 1) \in Seq([Slots -> Contents])
        BY <3>1, <4>1, Cut
      <4> QED BY <1>9, <2>2, <4>2 DEF Backtrack
    <3>4. point' \in Points /\ assertion' \in Nat /\ until' \in Nat
      BY <1>9, <2>2, <3>2 DEF Backtrack, Resume, Frame
    <3>5. after' \in {"Trial", "Fail"} /\ target' \in [Slots -> Contents] /\ phase' \in Phases
      BY <1>9, <2>2, <3>2 DEF Backtrack
    <3> QED BY <1>9, <3>3, <3>4, <3>5 DEF Backtrack
  <2> QED BY <2>1, <2>2
<1>10. CASE Rollback
  <2>1. undo' \in Seq(Entry)
    <3> DEFINE left == IF Len(undo) > until THEN Len(undo) - 1 ELSE Len(undo)
    <3>1. left \in 0 .. Len(undo) OBVIOUS
    <3>2. SubSeq(undo, 1, left) \in Seq(Entry) BY <3>1, Cut
    <3>3. undo' \in {<< >>, SubSeq(undo, 1, left)} BY <1>10 DEF Rollback
    <3> QED BY <3>2, <3>3, None
  <2>2. registers' \in [Slots -> Contents]
    <3>1. CASE Height > until
      <4>1. undo[Height] \in Entry BY <3>1
      <4> QED BY <1>10, <3>1, <4>1 DEF Rollback, Entry
    <3>2. CASE ~(Height > until) BY <1>10, <3>2 DEF Rollback
    <3> QED BY <3>1, <3>2
  <2>3. phase' \in Phases /\ until' \in Nat /\ after' \in {"Trial", "Fail"}
    BY <1>10 DEF Rollback
  <2>4. target' \in [Slots -> Contents] BY <1>10 DEF Rollback
  <2> QED BY <1>10, <2>1, <2>2, <2>3, <2>4 DEF Rollback
<1>11. CASE Fault BY <1>11 DEF Fault
<1>12. CASE Cancel BY <1>12 DEF Cancel
<1>13. CASE Rebuffer BY <1>13 DEF Rebuffer
<1>14. CASE Restart BY <1>14 DEF Restart
<1>15. ASSUME NEW slot \in Slots, NEW value \in Contents, Store(slot, value)
       PROVE TypeOK'
  <2>1. undo' \in Seq(Entry)
    <3>1. [slot |-> slot, value |-> registers[slot]] \in Entry BY DEF Entry
    <3>2. Append(undo, [slot |-> slot, value |-> registers[slot]]) \in Seq(Entry)
      BY <3>1, Grown
    <3> QED BY <1>15, <3>2 DEF Store, Block
  <2>2. registers' \in [Slots -> Contents] BY <1>15 DEF Store, Block
  <2>3. pending' \in Updates \cup {<<>>} BY <1>15 DEF Store, Block, Updates
  <2> QED BY <1>15, <2>1, <2>2, <2>3 DEF Store, Block
<1>16. ASSUME NEW kind \in Kinds, NEW at \in Points, Push(kind, at)
       PROVE TypeOK'
  <2> DEFINE frame == [point |-> at, undo |-> Len(undo), assertion |-> assertion,
                       kind |-> kind]
  <2>1. frames' \in Seq(Frame) /\ saved' \in Seq([Slots -> Contents])
    <3>1. frame \in Frame BY DEF Frame
    <3>2. /\ Append(frames, frame) \in Seq(Frame)
          /\ Append(saved, registers) \in Seq([Slots -> Contents])
      BY <3>1, Grown
    <3> QED BY <1>16, <3>2 DEF Push, Block
  <2>2. pending' \in Updates \cup {<<>>} BY <1>16 DEF Push, Block, Updates
  <2>3. assertion' \in Nat /\ phase' = phase BY <1>16 DEF Push, Block, Opened
  <2> QED BY <1>16, <2>1, <2>2, <2>3 DEF Push, Block
<1>17. CASE UNCHANGED vars BY <1>17 DEF vars
<1> QED
  BY <1>1, <1>2, <1>3, <1>4, <1>5, <1>6, <1>7, <1>8, <1>9, <1>10, <1>11, <1>12, <1>13,
     <1>14, <1>15, <1>16, <1>17 DEF Next

------------------------------------------------------------------------------
(* A step that changes neither the registers nor what is kept about them,  *)
(* and neither begins nor ends a rollback except by failing.               *)
Quiet ==
  /\ UNCHANGED <<registers, frames, undo, saved, assertion>>
  /\ \/ UNCHANGED <<phase, until, target>>
     \/ phase' = "Failed"
     \/ /\ phase \notin {"Rollback", "Failed"} /\ phase' # "Rollback"
        /\ phase' \in {"NextStart", "Initialize"} => frames = <<>>

Stored == Nested /\ Recoverable /\ NoDeadEntries

LEMMA QuietStep == Stored /\ Quiet => Stored'
<1> SUFFICES ASSUME Stored, Quiet PROVE Stored'
    OBVIOUS
<1> USE DEF Quiet, Stored, Top, Height
<1>1. Nested' BY DEF Nested, Innermost
<1>2. Recoverable' BY DEF Recoverable, Restores, Leaves
<1>3. NoDeadEntries' BY DEF NoDeadEntries
<1> QED BY <1>1, <1>2, <1>3

(* The steps of the evaluator and of its host that are quiet.              *)
LEMMA QuietNext ==
  ASSUME TypeOK, Stored,
         \/ Publish \/ NoMatch \/ Move \/ FailStep \/ MatchStep \/ Validate \/ Fault
         \/ Cancel \/ Rebuffer \/ UNCHANGED vars
         \/ \E slot \in Slots, value \in Contents :
              /\ Store(slot, value)
              /\ UNCHANGED <<registers, undo>>
         \/ \E kind \in Kinds, at \in Points : Push(kind, at) /\ UNCHANGED frames
  PROVE  Quiet
<1> USE DEF Quiet, scratch, control, rolling, Terminal
<1>1. CASE Publish BY <1>1 DEF Publish, Stored, NoDeadEntries
<1>2. CASE NoMatch BY <1>2 DEF NoMatch
<1>3. CASE Move BY <1>3 DEF Move
<1>4. CASE FailStep BY <1>4 DEF FailStep, Running
<1>5. CASE MatchStep BY <1>5 DEF MatchStep, Running
<1>6. CASE Validate BY <1>6 DEF Validate
<1>7. CASE Fault BY <1>7 DEF Fault
<1>8. CASE Cancel BY <1>8 DEF Cancel
<1>9. CASE Rebuffer BY <1>9 DEF Rebuffer
<1>10. CASE UNCHANGED vars BY <1>10 DEF vars
<1>11. ASSUME NEW slot \in Slots, NEW value \in Contents, Store(slot, value),
              UNCHANGED <<registers, undo>>
       PROVE  Quiet
  BY <1>11 DEF Store, Block
<1>12. ASSUME NEW kind \in Kinds, NEW at \in Points, Push(kind, at), UNCHANGED frames
       PROVE  Quiet
  <2> DEFINE frame == [point |-> at, undo |-> Len(undo), assertion |-> assertion,
                       kind |-> kind]
  <2>1. Append(frames, frame) # frames
    <3>1. frame \in Frame BY DEF Frame, TypeOK
    <3>2. Len(Append(frames, frame)) = Len(frames) + 1 /\ Len(frames) \in Nat
      BY <3>1, Grown DEF TypeOK
    <3> QED BY <3>2
  <2> QED BY <1>12, <2>1 DEF Push, Block, Height
<1> QED
  BY <1>1, <1>2, <1>3, <1>4, <1>5, <1>6, <1>7, <1>8, <1>9, <1>10, <1>11, <1>12

------------------------------------------------------------------------------
(* The youngest frames go, down to the first n, and the assertion becomes  *)
(* what the lowest of them recorded.  The trail stays, unless no frame     *)
(* does.                                                                   *)
LEMMA Unstack ==
  ASSUME TypeOK, Stored, NEW n \in 0 .. Top - 1,
         frames' = SubSeq(frames, 1, n),
         saved' = SubSeq(saved, 1, n),
         assertion' = frames[n + 1].assertion,
         registers' = registers,
         undo' = undo \/ (n = 0 /\ phase' # "Rollback"),
         phase' = "Rollback" => until' = frames[n + 1].undo /\ target' = saved[n + 1]
  PROVE  Nested' /\ Recoverable'
<1> USE DEF TypeOK, Stored, Top, Height
<1>1. Len(frames) \in Nat /\ Len(saved) = Len(frames) /\ n + 1 \in 1 .. Len(frames)
  BY DEF Nested
<1>2. /\ Len(frames') = n /\ Len(saved') = n
      /\ \A i \in 1 .. n : frames'[i] = frames[i] /\ saved'[i] = saved[i]
  <2>1. n \in 0 .. Len(frames) /\ n \in 0 .. Len(saved) BY <1>1
  <2> QED BY <2>1, Cut
<1>3. Nested'
  <2>1. \A i \in 1 .. n : \A j \in i .. n : frames'[i].undo <= frames'[j].undo
    BY <1>1, <1>2 DEF Nested
  <2>0. ASSUME NEW k \in 0 .. n, NEW a, Innermost(a, k)
        PROVE  /\ a \in 0 .. k
               /\ a # 0 => frames'[a].kind # "choice"
               /\ \A j \in a + 1 .. k : frames'[j].kind = "choice"
    BY <1>1, <1>2, <2>0 DEF Innermost
  <2>2. \A i \in 1 .. n : Innermost(frames[i].assertion, i - 1)'
    <3> SUFFICES ASSUME NEW i \in 1 .. n PROVE Innermost(frames[i].assertion, i - 1)'
      OBVIOUS
    <3>1. Innermost(frames[i].assertion, i - 1) BY <1>1 DEF Nested
    <3>2. i - 1 \in 0 .. n OBVIOUS
    <3> QED BY <1>2, <2>0, <3>1, <3>2 DEF Innermost
  <2>3. Innermost(assertion, n)'
    <3>1. Innermost(frames[n + 1].assertion, n) BY <1>1 DEF Nested
    <3>2. n \in 0 .. n OBVIOUS
    <3> QED BY <2>0, <3>1, <3>2 DEF Innermost
  <2>4. phase' = "Rollback" => \A i \in 1 .. n : frames'[i].undo <= until'
    BY <1>1, <1>2 DEF Nested
  <2> QED BY <1>2, <2>1, <2>2, <2>3, <2>4 DEF Nested
<1>4. Recoverable'
  <2>1. CASE undo' = undo
    <3>1. \A i \in 1 .. n + 1 : Restores(frames[i].undo, saved[i]) BY <1>1 DEF Recoverable
    <3>2. \A i \in 1 .. n : Restores(frames[i].undo, saved[i])' BY <1>2, <2>1, <3>1 DEF Restores, Leaves
    <3>3. phase' = "Rollback" => Restores(until, target)' BY <1>1, <2>1, <3>1 DEF Restores, Leaves
    <3> QED BY <1>2, <3>2, <3>3 DEF Recoverable
  <2>2. CASE n = 0 /\ phase' # "Rollback" BY <1>2, <2>2 DEF Recoverable
  <2> QED BY <2>1, <2>2
<1> QED BY <1>3, <1>4

LEMMA AssertEndStep == TypeOK /\ Stored /\ AssertEnd => Stored'
<1> SUFFICES ASSUME TypeOK, Stored, AssertEnd PROVE Stored'
    OBVIOUS
<1> USE DEF TypeOK, AssertEnd, Resume, Keep, rolling, scratch
<1>1. CASE assertion \notin 1 .. Top
  <2>1. Quiet BY <1>1 DEF Quiet, Running
  <2> QED BY <2>1, QuietStep
<1>2. CASE assertion \in 1 .. Top
  <2>1. assertion - 1 \in 0 .. Top - 1 BY <1>2 DEF Stored, Nested, Innermost, Top
  <2>2. assertion - 1 + 1 = assertion OBVIOUS
  <2>3. undo' = undo \/ (assertion - 1 = 0 /\ phase' # "Rollback") BY <1>2 DEF Running
  <2>4. Nested' /\ Recoverable' 
    <3>1. phase' = "Rollback" => until' = frames[assertion].undo /\ target' = saved[assertion]
      BY <1>2 DEF Running
    <3>2. /\ frames' = SubSeq(frames, 1, assertion - 1)
          /\ saved' = SubSeq(saved, 1, assertion - 1)
          /\ assertion' = frames[assertion].assertion
          /\ registers' = registers
      BY <1>2
    <3> HIDE DEF AssertEnd, TypeOK
    <3> QED BY <2>1, <2>2, <2>3, <3>1, <3>2, Unstack
  <2>5. NoDeadEntries'
    <3>1. CASE assertion = 1 BY <1>2, <3>1 DEF NoDeadEntries
    <3>2. CASE assertion # 1
      <4>1. assertion - 1 \in 0 .. Len(frames) /\ assertion - 1 # 0 BY <2>1, <3>2 DEF Top
      <4>2. Len(frames') # 0 BY <1>2, <4>1, Cut
      <4>3. Len(<< >>) = 0 BY None
      <4>4. frames' # <<>> /\ phase' \in {"Trial", "Rollback"} BY <1>2, <4>2, <4>3 DEF Running
      <4> QED BY <4>4 DEF NoDeadEntries
    <3> QED BY <3>1, <3>2
  <2> QED BY <2>4, <2>5 DEF Stored
<1> QED BY <1>1, <1>2

LEMMA BacktrackStep == TypeOK /\ Stored /\ Backtrack => Stored'
<1> SUFFICES ASSUME TypeOK, Stored, Backtrack PROVE Stored'
    OBVIOUS
<1> USE DEF TypeOK, Backtrack, Resume, rolling
<1>1. CASE frames = <<>>
  <2>1. Quiet BY <1>1 DEF Quiet
  <2> QED BY <2>1, QuietStep
<1>2. CASE frames # <<>>
  <2>1. Top \in Nat /\ Top # 0 /\ Top - 1 \in 0 .. Top - 1 /\ Top - 1 + 1 = Top
    BY <1>2, None DEF Top
  <2>2. Nested' /\ Recoverable'
    <3>1. phase' = "Rollback" => until' = frames[Top].undo /\ target' = saved[Top]
      BY <1>2
    <3>2. /\ frames' = SubSeq(frames, 1, Top - 1)
          /\ saved' = SubSeq(saved, 1, Top - 1)
          /\ assertion' = frames[Top].assertion
          /\ registers' = registers /\ undo' = undo
      BY <1>2
    <3> HIDE DEF Backtrack, TypeOK
    <3> QED BY <2>1, <3>1, <3>2, Unstack
  <2>3. NoDeadEntries' BY <1>2 DEF NoDeadEntries
  <2> QED BY <2>2, <2>3 DEF Stored
<1> QED BY <1>1, <1>2

(* Nothing is kept, and no rollback runs.                                  *)
LEMMA EmptyStep ==
  ASSUME frames' = <<>>, undo' = <<>>, saved' = <<>>, assertion' = 0, phase' # "Rollback"
  PROVE  Stored'
<1> USE DEF Top, Height
<1>1. Len(frames') = 0 /\ Len(saved') = 0 BY None
<1>2. Nested' BY <1>1 DEF Nested, Innermost
<1>3. Recoverable' BY <1>1 DEF Recoverable
<1> QED BY <1>2, <1>3 DEF Stored, NoDeadEntries

------------------------------------------------------------------------------
(* Recording a store leaves every earlier height leading where it led.     *)
LEMMA Recorded ==
  ASSUME TypeOK, NEW slot \in Slots, NEW value \in Contents,
         registers' = [registers EXCEPT ![slot] = value],
         undo' = Append(undo, [slot |-> slot, value |-> registers[slot]]),
         NEW height \in Nat, NEW snapshot, Restores(height, snapshot)
  PROVE  Restores(height, snapshot)'
<1> DEFINE entry == [slot |-> slot, value |-> registers[slot]]
<1> USE DEF TypeOK, Height
<1>1. /\ Len(undo) \in Nat /\ Len(undo') = Len(undo) + 1
      /\ \A i \in 1 .. Len(undo) : undo'[i] = undo[i]
      /\ undo'[Len(undo) + 1] = entry
  <2>1. entry \in Entry BY DEF Entry
  <2> QED BY <2>1, Grown
<1>2. ASSUME NEW s \in Slots, NEW v, Leaves(height, s, v) PROVE Leaves(height, s, v)'
  <2>1. CASE /\ registers[s] = v
             /\ \A j \in height + 1 .. Height : undo[j].slot # s
    <3>1. CASE s = slot
      <4>1. PICK last \in Nat : last = Len(undo) + 1 BY <1>1
      <4>2. last \in height + 1 .. Len(undo') BY <1>1, <4>1 DEF Restores
      <4>3. undo'[last].slot = s /\ undo'[last].value = v
        BY <1>1, <2>1, <3>1, <4>1
      <4>4. \A k \in height + 1 .. last - 1 : undo'[k].slot # s
        BY <1>1, <2>1, <4>1
      <4> HIDE DEF TypeOK
      <4> QED BY <4>2, <4>3, <4>4 DEF Leaves
    <3>2. CASE s # slot
      <4>1. registers'[s] = v BY <2>1, <3>2
      <4>2. \A j \in height + 1 .. Len(undo') : undo'[j].slot # s BY <1>1, <2>1, <3>2
      <4> QED BY <4>1, <4>2 DEF Leaves
    <3> QED BY <3>1, <3>2
  <2>2. ASSUME NEW j \in height + 1 .. Height, undo[j].slot = s, undo[j].value = v,
               \A k \in height + 1 .. j - 1 : undo[k].slot # s
        PROVE  Leaves(height, s, v)'
    <3>1. j \in height + 1 .. Len(undo') /\ j \in 1 .. Len(undo) BY <1>1
    <3>2. \A k \in height + 1 .. j - 1 : undo'[k].slot # s BY <1>1, <2>2
    <3>3. undo'[j].slot = s /\ undo'[j].value = v BY <1>1, <2>2, <3>1
    <3> QED BY <3>1, <3>2, <3>3 DEF Leaves
  <2> QED BY <1>2, <2>1, <2>2 DEF Leaves
<1> QED BY <1>1, <1>2 DEF Restores

(* So does writing the youngest entry back, for every height below it.     *)
LEMMA Undone ==
  ASSUME TypeOK, Height > 0,
         registers' = [registers EXCEPT ![undo[Height].slot] = undo[Height].value],
         undo' = SubSeq(undo, 1, Height - 1),
         NEW height \in Nat, height < Height,
         NEW snapshot, Restores(height, snapshot)
  PROVE  Restores(height, snapshot)'
<1> USE DEF TypeOK, Height
<1>1. /\ Len(undo) \in Nat /\ Len(undo') = Len(undo) - 1
      /\ \A i \in 1 .. Len(undo) - 1 : undo'[i] = undo[i]
  <2>1. undo \in Seq(Entry) /\ Len(undo) \in Nat OBVIOUS
  <2>2. PICK n \in Nat : n = Len(undo) - 1 BY <2>1
  <2>3. n \in 0 .. Len(undo) BY <2>1, <2>2
  <2>4. undo' = SubSeq(undo, 1, n) BY <2>2
  <2> HIDE DEF TypeOK
  <2>5. Len(undo') = n /\ \A i \in 1 .. n : undo'[i] = undo[i] BY <2>1, <2>3, <2>4, Cut
  <2> QED BY <2>1, <2>2, <2>5
<1>2. undo[Len(undo)] \in Entry
  <2>1. Len(undo) \in 1 .. Len(undo) BY <1>1
  <2> QED BY <2>1, ElementOfSeq
<1>3. ASSUME NEW s \in Slots, NEW v, Leaves(height, s, v) PROVE Leaves(height, s, v)'
  <2>1. CASE /\ registers[s] = v
             /\ \A j \in height + 1 .. Height : undo[j].slot # s
    <3>1. undo[Len(undo)].slot # s BY <2>1
    <3>2. registers'[s] = v BY <1>2, <2>1, <3>1 DEF Entry
    <3>3. \A j \in height + 1 .. Len(undo') : undo'[j].slot # s BY <1>1, <2>1
    <3> QED BY <3>2, <3>3 DEF Leaves
  <2>2. ASSUME NEW j \in height + 1 .. Height, undo[j].slot = s, undo[j].value = v,
               \A k \in height + 1 .. j - 1 : undo[k].slot # s
        PROVE  Leaves(height, s, v)'
    <3>1. CASE j = Len(undo)
      <4>1. registers'[s] = v BY <1>2, <2>2, <3>1 DEF Entry
      <4>2. \A k \in height + 1 .. Len(undo') : undo'[k].slot # s BY <1>1, <2>2, <3>1
      <4> QED BY <4>1, <4>2 DEF Leaves
    <3>2. CASE j # Len(undo)
      <4>1. j \in height + 1 .. Len(undo') /\ j \in 1 .. Len(undo) - 1 BY <1>1, <3>2
      <4>2. \A k \in height + 1 .. j - 1 : undo'[k].slot # s BY <1>1, <2>2, <4>1
      <4>3. undo'[j].slot = s /\ undo'[j].value = v BY <1>1, <2>2, <4>1
      <4> QED BY <4>1, <4>2, <4>3 DEF Leaves
    <3> QED BY <3>1, <3>2
  <2> QED BY <1>3, <2>1, <2>2 DEF Leaves
<1> QED BY <1>1, <1>3 DEF Restores

LEMMA Heights == TypeOK => \A i \in 1 .. Top : frames[i].undo \in Nat
<1> SUFFICES ASSUME TypeOK, NEW i \in 1 .. Len(frames) PROVE frames[i].undo \in Nat
    BY DEF Top
<1>1. frames[i] \in Frame BY ElementOfSeq DEF TypeOK
<1> QED BY <1>1 DEF Frame

LEMMA StoreStep ==
  ASSUME TypeOK, Stored, NEW slot \in Slots, NEW value \in Contents, Store(slot, value)
  PROVE  Stored'
<1> USE DEF Store, Block, scratch, control, rolling, Logged
<1>1. phase = "Trial" /\ phase' = "Trial" BY DEF Running
<1>2. CASE UNCHANGED <<registers, undo>>
  <2>1. Quiet BY <1>2, QuietNext
  <2> QED BY <2>1, QuietStep
<1>3. CASE frames = <<>> /\ UNCHANGED <<frames, undo, saved, assertion>>
  <2> USE DEF Stored, Top, Height
  <2>1. Nested' BY <1>1, <1>3 DEF Nested, Innermost
  <2>2. Recoverable' BY <1>1, <1>3, None DEF Recoverable
  <2>3. NoDeadEntries' BY <1>1, <1>3 DEF NoDeadEntries
  <2> QED BY <2>1, <2>2, <2>3
<1>4. CASE /\ frames # <<>>
           /\ undo' = Append(undo, [slot |-> slot, value |-> registers[slot]])
           /\ registers' = [registers EXCEPT ![slot] = value]
           /\ UNCHANGED <<frames, saved, assertion>>
  <2> HIDE DEF Store
  <2>1. Nested' BY <1>1, <1>4 DEF Stored, Nested, Innermost, Top
  <2>2. Recoverable'
    <3>1. ASSUME NEW i \in 1 .. Len(frames)
          PROVE  Restores(frames[i].undo, saved[i])'
      <4>1. frames[i].undo \in Nat BY Heights DEF Top
      <4>2. Restores(frames[i].undo, saved[i]) BY DEF Stored, Recoverable, Top
      <4>3. \A height \in Nat : \A snapshot :
              Restores(height, snapshot) => Restores(height, snapshot)'
        BY <1>4, Recorded
      <4>4. UNCHANGED <<frames, saved>> BY <1>4
      <4> QED BY <4>1, <4>2, <4>3, <4>4
    <3> QED BY <1>1, <1>4, <3>1 DEF Recoverable, Top
  <2>3. NoDeadEntries' BY <1>1, <1>4 DEF NoDeadEntries
  <2> QED BY <2>1, <2>2, <2>3 DEF Stored
<1> QED BY <1>2, <1>3, <1>4

LEMMA PushStep ==
  ASSUME TypeOK, Stored, NEW kind \in Kinds, NEW at \in Points, Push(kind, at)
  PROVE  Stored'
<1> DEFINE frame == [point |-> at, undo |-> Len(undo), assertion |-> assertion,
                     kind |-> kind]
<1>1. CASE UNCHANGED frames
  <2>1. Quiet BY <1>1, QuietNext
  <2> QED BY <2>1, QuietStep
<1>2. CASE ~UNCHANGED frames
  <2> DEFINE n == Len(frames)
  <2>1. /\ frames' = Append(frames, frame) /\ saved' = Append(saved, registers)
        /\ UNCHANGED <<registers, undo, phase>> /\ phase = "Trial"
        /\ assertion' = IF kind = "choice" THEN assertion ELSE n + 1
    BY <1>2 DEF Push, Block, scratch, Height, Opened, Top, Running
  <2>0. PICK m \in Nat : m = Len(frames) + 1 BY DEF TypeOK
  <2>2. /\ n \in Nat /\ m = n + 1 /\ Len(frames') = m /\ Len(saved') = m /\ Len(saved) = n
        /\ \A i \in 1 .. n : frames'[i] = frames[i] /\ saved'[i] = saved[i]
        /\ frames'[m] = frame /\ saved'[m] = registers
    <3>1. frame \in Frame BY DEF Frame, TypeOK
    <3>2. Len(saved) = Len(frames) BY DEF Stored, Nested, Top
    <3> QED BY <2>0, <2>1, <3>1, <3>2, Grown DEF TypeOK
  <2>3. Len(undo) \in Nat /\ \A i \in 1 .. n : frames[i].undo <= Len(undo)
    BY DEF TypeOK, Stored, Recoverable, Restores, Top, Height
  <2>4. Nested'
    <3>1. \A i \in 1 .. m : \A j \in i .. m : frames'[i].undo <= frames'[j].undo
      BY <2>2, <2>3 DEF Stored, Nested, Top
    <3>2. Innermost(assertion, n) BY DEF Stored, Nested, Top
    <3>3. ASSUME NEW i \in 1 .. m PROVE Innermost(frames[i].assertion, i - 1)'
      <4>1. CASE i = m BY <2>1, <2>2, <3>2, <4>1 DEF Innermost
      <4>2. CASE i # m
        <5>1. i \in 1 .. n BY <2>2, <4>2
        <5>2. Innermost(frames[i].assertion, i - 1) BY <5>1 DEF Stored, Nested, Top
        <5> QED BY <2>2, <5>1, <5>2 DEF Innermost
      <4> QED BY <4>1, <4>2
    <3>4. Innermost(assertion, m)' BY <2>1, <2>2, <3>2 DEF Innermost, Kinds
    <3>5. Len(frames') = m /\ Len(saved') = m /\ phase' # "Rollback" BY <2>1, <2>2
    <3> QED BY <3>1, <3>3, <3>4, <3>5 DEF Nested, Top
  <2>5. Recoverable'
    <3>1. ASSUME NEW i \in 1 .. m PROVE Restores(frames[i].undo, saved[i])'
      <4>1. CASE i = m BY <2>1, <2>2, <2>3, <4>1 DEF Restores, Leaves, Height
      <4>2. CASE i # m
        <5>1. i \in 1 .. n BY <2>2, <4>2
        <5>2. Restores(frames[i].undo, saved[i]) BY <5>1 DEF Stored, Recoverable, Top
        <5> QED BY <2>1, <2>2, <5>1, <5>2 DEF Restores, Leaves, Height
      <4> QED BY <4>1, <4>2
    <3>2. Len(frames') = m /\ phase' # "Rollback" BY <2>1, <2>2
    <3> QED BY <3>1, <3>2 DEF Recoverable, Top
  <2>6. NoDeadEntries'
    <3>1. frames' # <<>> BY <2>2, None
    <3> QED BY <2>1, <3>1 DEF NoDeadEntries
  <2> QED BY <2>4, <2>5, <2>6 DEF Stored
<1> QED BY <1>1, <1>2

LEMMA RollbackStep == TypeOK /\ Stored /\ Rollback => Stored'
<1> SUFFICES ASSUME TypeOK, Stored, Rollback PROVE Stored'
    OBVIOUS
<1> DEFINE left == IF Len(undo) > until THEN Len(undo) - 1 ELSE Len(undo)
<1>1. /\ phase = "Rollback" /\ UNCHANGED <<frames, saved, assertion>>
      /\ phase' \in {"Rollback", "Trial", "Fail"}
      /\ phase' = "Rollback" => left > until /\ UNCHANGED <<until, target>>
      /\ undo' = SubSeq(undo, 1, left)
           \/ (frames = <<>> /\ undo' = <<>> /\ phase' # "Rollback")
      /\ left > until => undo' = SubSeq(undo, 1, left) /\ phase' = "Rollback"
      /\ left <= until => (frames = <<>> => undo' = <<>>)
  BY DEF Rollback, Height, rolling, TypeOK
<1>2. /\ Len(undo) \in Nat /\ until \in Nat /\ until <= Len(undo)
      /\ left \in until .. Len(undo)
  BY <1>1 DEF TypeOK, Stored, Recoverable, Restores, Height
<1>3. \A height \in Nat : \A snapshot :
        height <= left /\ undo' = SubSeq(undo, 1, left) /\ Restores(height, snapshot)
          => Restores(height, snapshot)'
  <2>1. CASE Len(undo) > until
    <3>1. registers' = [registers EXCEPT ![undo[Height].slot] = undo[Height].value]
      BY <1>2, <2>1 DEF Rollback, Height
    <3>2. Height > 0 /\ left = Height - 1 BY <1>2, <2>1 DEF Height
    <3>3. \A height \in Nat : height <= left => height < Height
      BY <1>2, <3>2 DEF Height
    <3> QED BY <3>1, <3>2, <3>3, Undone
  <2>2. CASE ~(Len(undo) > until)
    <3>1. registers' = registers BY <1>2, <2>2 DEF Rollback, Height
    <3>2. left = Len(undo) BY <2>2
    <3>3. SubSeq(undo, 1, Len(undo)) = undo BY SubSeqFull DEF TypeOK
    <3> HIDE DEF left
    <3>4. undo' = SubSeq(undo, 1, left) => undo' = undo BY <3>2, <3>3
    <3> SUFFICES ASSUME NEW height \in Nat, NEW snapshot,
                        undo' = SubSeq(undo, 1, left), Restores(height, snapshot)
                 PROVE  Restores(height, snapshot)'
      OBVIOUS
    <3>5. undo' = undo /\ registers' = registers BY <3>1, <3>4
    <3>6. Height' = Height BY <3>5 DEF Height
    <3>7. ASSUME NEW s \in Slots, NEW v, Leaves(height, s, v) PROVE Leaves(height, s, v)'
      BY ONLY <3>5, <3>6, <3>7 DEF Leaves
    <3> QED BY ONLY Restores(height, snapshot), <3>6, <3>7 DEF Restores
  <2> QED BY <2>1, <2>2
<1>4. Nested' BY <1>1 DEF Stored, Nested, Innermost, Top
<1>5. Recoverable'
  <2>1. ASSUME NEW i \in 1 .. Len(frames) PROVE Restores(frames[i].undo, saved[i])'
    <3>1. frames[i].undo \in Nat BY Heights DEF Top
    <3>2. frames[i].undo <= left BY <1>1, <1>2, <3>1 DEF Stored, Nested, Top
    <3>3. Restores(frames[i].undo, saved[i]) BY DEF Stored, Recoverable, Top
    <3>4. frames # <<>> BY None
    <3>6. UNCHANGED <<frames, saved>> /\ undo' = SubSeq(undo, 1, left) BY <1>1, <3>4
    <3> QED BY <1>3, <3>1, <3>2, <3>3, <3>6
  <2>2. phase' = "Rollback" => Restores(until, target)'
    <3>1. Restores(until, target) BY <1>1 DEF Stored, Recoverable
    <3> QED BY <1>1, <1>2, <1>3, <3>1
  <2> QED BY <1>1, <2>1, <2>2 DEF Recoverable, Top
<1>6. NoDeadEntries' BY <1>1, <1>2 DEF NoDeadEntries
<1> QED BY <1>4, <1>5, <1>6 DEF Stored

LEMMA StoredNext == TypeOK /\ Stored /\ [Next]_vars => Stored'
<1> SUFFICES ASSUME TypeOK, Stored, [Next]_vars PROVE Stored'
    OBVIOUS
<1>1. CASE \/ Publish \/ NoMatch \/ Move \/ FailStep \/ MatchStep \/ Validate \/ Fault
           \/ Cancel \/ Rebuffer \/ UNCHANGED vars
  <2>1. Quiet BY <1>1, QuietNext
  <2> QED BY <2>1, QuietStep
<1>2. CASE Initialize
  <2>1. CASE UNCHANGED <<frames, undo, saved, control>>
    <3> USE DEF Stored, Top, Height, control, rolling
    <3>1. phase = "Initialize" BY <1>2 DEF Initialize
    <3>2. frames = <<>> BY <3>1 DEF NoDeadEntries
    <3>3. Nested' BY <2>1, <3>1 DEF Nested, Innermost
    <3>4. Recoverable' BY <2>1, <3>1, <3>2, None DEF Recoverable
    <3>5. NoDeadEntries' BY <2>1, <3>1 DEF NoDeadEntries
    <3> QED BY <3>3, <3>4, <3>5
  <2>2. CASE /\ frames' = <<>> /\ undo' = <<>> /\ saved' = <<>>
             /\ assertion' = 0 /\ phase' = "Trial"
    BY <2>2, EmptyStep
  <2> QED BY <1>2, <2>1, <2>2 DEF Initialize
<1>3. CASE AssertEnd BY <1>3, AssertEndStep
<1>4. CASE Backtrack BY <1>4, BacktrackStep
<1>5. CASE Rollback BY <1>5, RollbackStep
<1>6. CASE Restart BY <1>6, EmptyStep DEF Restart
<1>7. ASSUME NEW slot \in Slots, NEW value \in Contents, Store(slot, value) PROVE Stored'
  BY <1>7, StoreStep
<1>8. ASSUME NEW kind \in Kinds, NEW at \in Points, Push(kind, at) PROVE Stored'
  BY <1>8, PushStep
<1> QED BY <1>1, <1>2, <1>3, <1>4, <1>5, <1>6, <1>7, <1>8 DEF Next

LEMMA StoredInit == Init => Stored
<1> SUFFICES ASSUME Init PROVE Stored
    OBVIOUS
<1>1. Len(frames) = 0 /\ Len(saved) = 0 /\ frames = <<>> /\ undo = <<>>
  BY None DEF Init
<1> QED BY <1>1 DEF Init, Stored, Nested, Recoverable, NoDeadEntries, Innermost, Top

(* Well-typed storage whose every live frame can be gone back to.          *)
IInv == TypeOK /\ Stored

THEOREM Inductive == Spec => []IInv
<1>1. Init => IInv BY TypeInit, StoredInit DEF IInv
<1>2. IInv /\ [Next]_vars => IInv' BY TypeNext, StoredNext DEF IInv, Stored
<1> QED BY <1>1, <1>2, PTL DEF Spec

(* Every reachable state of the evaluator's storage is well typed.         *)
THEOREM TypeCorrect == Spec => []TypeOK
<1>1. IInv => TypeOK BY DEF IInv
<1> QED BY <1>1, Inductive, PTL

(* Vm::store, push_at, ASSERT_END and Phase::Rollback together never lose  *)
(* what a register held when a frame was pushed, whatever pauses, requests *)
(* and exchanges of buffers come between.                                  *)
THEOREM AlwaysRecoverable == Spec => []Recoverable
<1>1. IInv => Recoverable BY DEF IInv, Stored
<1> QED BY <1>1, Inductive, PTL

(* State::assertion names the innermost open assertion frame, always.      *)
THEOREM AlwaysNested == Spec => []Nested
<1>1. IInv => Nested BY DEF IInv, Stored
<1> QED BY <1>1, Inductive, PTL

(* No trail entry outlives the frames, no frame outlives its start.        *)
THEOREM NeverDead == Spec => []NoDeadEntries
<1>1. IInv => NoDeadEntries BY DEF IInv, Stored
<1> QED BY <1>1, Inductive, PTL

------------------------------------------------------------------------------
(* A capacity request interrupts a trial, there is no request without an   *)
(* update that waits for it, and a match has closed its assertions.        *)
Orderly ==
  /\ pending # <<>> => phase = "Trial"
  /\ blocked # "none" => pending # <<>>
  /\ phase = "Validate" => assertion = 0

LEMMA OrderlyNext == TypeOK /\ Orderly /\ [Next]_vars => Orderly'
<1> SUFFICES ASSUME TypeOK, Orderly, [Next]_vars PROVE Orderly'
    OBVIOUS
<1> USE DEF Orderly, scratch, control, rolling, request
<1>1. CASE Publish BY <1>1 DEF Publish
<1>2. CASE Initialize BY <1>2 DEF Initialize
<1>3. CASE NoMatch BY <1>3 DEF NoMatch
<1>4. CASE Move BY <1>4 DEF Move
<1>5. CASE AssertEnd BY <1>5 DEF AssertEnd, Running
<1>6. CASE FailStep BY <1>6 DEF FailStep, Running
<1>7. CASE MatchStep BY <1>7 DEF MatchStep, Running
<1>8. CASE Validate BY <1>8 DEF Validate
<1>9. CASE Backtrack BY <1>9 DEF Backtrack
<1>10. CASE Rollback BY <1>10 DEF Rollback, TypeOK
<1>11. CASE Fault BY <1>11 DEF Fault
<1>12. CASE Cancel BY <1>12 DEF Cancel
<1>13. CASE Rebuffer BY <1>13 DEF Rebuffer
<1>14. CASE Restart BY <1>14 DEF Restart
<1>15. ASSUME NEW slot \in Slots, NEW value \in Contents, Store(slot, value) PROVE Orderly'
  <2>1. <<"store", slot, value>> # <<>> OBVIOUS
  <2> QED BY <1>15, <2>1 DEF Store, Running, Block
<1>16. ASSUME NEW kind \in Kinds, NEW at \in Points, Push(kind, at) PROVE Orderly'
  <2>1. <<"push", kind, at>> # <<>> OBVIOUS
  <2> QED BY <1>16, <2>1 DEF Push, Running, Block
<1>17. CASE UNCHANGED vars BY <1>17 DEF vars
<1> QED
  BY <1>1, <1>2, <1>3, <1>4, <1>5, <1>6, <1>7, <1>8, <1>9, <1>10, <1>11, <1>12, <1>13,
     <1>14, <1>15, <1>16, <1>17 DEF Next

LEMMA OrderlyAlways == Spec => []Orderly
<1>1. Init => Orderly BY DEF Init, Orderly
<1> QED BY <1>1, TypeCorrect, OrderlyNext, PTL DEF Spec

------------------------------------------------------------------------------
LEMMA FitsNext == IInv /\ Fits /\ [Next]_vars => Fits'
<1> SUFFICES ASSUME IInv, Fits, [Next]_vars PROVE Fits'
    OBVIOUS
<1>0. /\ Len(frames) \in Nat /\ Len(undo) \in Nat
      /\ capacity.frames \in Nat /\ capacity.undo \in Nat
      /\ capacity'.frames \in Nat /\ capacity'.undo \in Nat
  <2>1. TypeOK' BY TypeNext DEF IInv, Stored
  <2>2. capacity \in [frames : Capacities, undo : Capacities] BY DEF IInv, TypeOK
  <2>3. capacity' \in [frames : Capacities, undo : Capacities] BY <2>1 DEF TypeOK
  <2>4. Len(frames) \in Nat /\ Len(undo) \in Nat BY DEF IInv, TypeOK
  <2> QED BY <2>2, <2>3, <2>4, TrailConstants
<1> DEFINE Shrinks == /\ capacity' = capacity
                      /\ Len(frames') <= Len(frames) /\ Len(undo') <= Len(undo)
<1>1. ASSUME Shrinks PROVE Fits'
  <2>1. TypeOK' BY TypeNext DEF IInv, Stored
  <2> QED BY <1>0, <1>1, <2>1 DEF Fits, Top, Height, TypeOK
<1> HIDE DEF Shrinks
<1> USE DEF Top, Height, scratch, control, rolling, request
<1>2. CASE \/ Publish \/ NoMatch \/ Move \/ FailStep \/ MatchStep \/ Validate \/ Fault
           \/ Cancel \/ UNCHANGED vars
  <2>1. UNCHANGED <<frames, undo, capacity>>
    BY <1>2 DEF Publish, NoMatch, Move, FailStep, MatchStep, Validate, Fault, Cancel, vars
  <2> QED BY <1>0, <1>1, <2>1 DEF Shrinks
<1>3. CASE Initialize
  BY <1>0, <1>1, <1>3, None DEF Initialize, Shrinks
<1>4. CASE AssertEnd
  <2>1. CASE assertion \notin 1 .. Len(frames) BY <1>0, <1>1, <1>4, <2>1 DEF AssertEnd, Shrinks
  <2>2. CASE assertion \in 1 .. Len(frames)
    <3>1. assertion - 1 \in 0 .. Len(frames)
      BY <2>2, <1>0 DEF IInv, Stored, Nested, Innermost
    <3>2. Len(frames') <= Len(frames)
      BY <1>0, <1>4, <2>2, <3>1, Cut DEF AssertEnd, IInv, TypeOK
    <3>3. undo' = undo \/ undo' = <<>> BY <1>4, <2>2 DEF AssertEnd, Keep
    <3>4. Len(undo') <= Len(undo) BY <1>0, <3>3, None
    <3> QED BY <1>1, <1>4, <3>2, <3>4 DEF AssertEnd, Shrinks
  <2> QED BY <2>1, <2>2
<1>5. CASE Backtrack
  <2>1. CASE frames = <<>> BY <1>0, <1>1, <1>5, <2>1 DEF Backtrack, Shrinks
  <2>2. CASE frames # <<>>
    <3>1. Len(frames) - 1 \in 0 .. Len(frames) BY <1>0, <2>2, None DEF IInv, TypeOK
    <3>2. Len(frames') <= Len(frames)
      BY <1>0, <1>5, <2>2, <3>1, Cut DEF Backtrack, IInv, TypeOK
    <3> QED BY <1>0, <1>1, <1>5, <3>2 DEF Backtrack, Shrinks
  <2> QED BY <2>1, <2>2
<1>6. CASE Rollback
  <2> DEFINE left == IF Len(undo) > until THEN Len(undo) - 1 ELSE Len(undo)
  <2>1. left \in 0 .. Len(undo) BY <1>0 DEF IInv, TypeOK
  <2>2. Len(SubSeq(undo, 1, left)) <= Len(undo) BY <1>0, <2>1, Cut DEF IInv, TypeOK
  <2>3. undo' = SubSeq(undo, 1, left) \/ undo' = <<>> BY <1>6 DEF Rollback
  <2>4. Len(undo') <= Len(undo) BY <1>0, <2>2, <2>3, None
  <2> QED BY <1>0, <1>1, <1>6, <2>4 DEF Rollback, Shrinks
<1>7. CASE Restart
  BY <1>0, <1>1, <1>7, None DEF Restart, Shrinks
<1>8. CASE Rebuffer
  <2>1. capacity'.frames >= Len(frames) /\ capacity'.undo >= Len(undo)
    BY <1>0, <1>8 DEF Rebuffer, Required
  <2> QED BY <1>0, <1>8, <2>1 DEF Rebuffer, Fits
<1>9. ASSUME NEW slot \in Slots, NEW value \in Contents, Store(slot, value) PROVE Fits'
  <2>1. CASE undo' = undo BY <1>0, <1>1, <1>9, <2>1 DEF Store, Block, Shrinks
  <2>2. CASE /\ undo' = Append(undo, [slot |-> slot, value |-> registers[slot]])
             /\ Height < capacity.undo /\ UNCHANGED <<frames, capacity>>
    <3>1. [slot |-> slot, value |-> registers[slot]] \in Entry BY DEF Entry, IInv, TypeOK
    <3>2. Len(undo') = Len(undo) + 1 BY <2>2, <3>1, Grown DEF IInv, TypeOK
    <3> QED BY <1>0, <2>2, <3>2 DEF Fits
  <2> QED BY <1>9, <2>1, <2>2 DEF Store, Block
<1>10. ASSUME NEW kind \in Kinds, NEW at \in Points, Push(kind, at) PROVE Fits'
  <2> DEFINE frame == [point |-> at, undo |-> Len(undo), assertion |-> assertion,
                       kind |-> kind]
  <2>1. CASE frames' = frames /\ undo' = undo
    BY <1>0, <1>1, <1>10, <2>1 DEF Push, Block, Shrinks
  <2>2. CASE /\ frames' = Append(frames, frame)
             /\ Top < capacity.frames /\ UNCHANGED <<undo, capacity>>
    <3>1. frame \in Frame BY DEF Frame, IInv, TypeOK
    <3>2. Len(frames') = Len(frames) + 1 BY <2>2, <3>1, Grown DEF IInv, TypeOK
    <3> QED BY <1>0, <2>2, <3>2 DEF Fits
  <2> QED BY <1>10, <2>1, <2>2 DEF Push, Block
<1> QED BY <1>2, <1>3, <1>4, <1>5, <1>6, <1>7, <1>8, <1>9, <1>10 DEF Next

(* Search::rebuffer never strands a frame or a trail entry outside the     *)
(* buffers it accepted.                                                    *)
THEOREM AlwaysFits == Spec => []Fits
<1>1. Init => Fits
  <2> SUFFICES ASSUME Init PROVE Fits
      OBVIOUS
  <2>1. Len(frames) = 0 /\ Len(undo) = 0 BY None DEF Init
  <2>2. capacity.frames \in Nat /\ capacity.undo \in Nat BY TrailConstants DEF Init
  <2> QED BY <2>1, <2>2 DEF Fits, Top, Height
<1> QED BY <1>1, FitsNext, Inductive, PTL DEF Spec

------------------------------------------------------------------------------
(* The copies that a stack of frames stands for.                           *)
Choice == [kind : Kinds, point : Points, regs : [Slots -> Contents]]
CopyOf(frame, regs) == [kind |-> frame.kind, point |-> frame.point, regs |-> regs]
CopiesOf(fs, ss) == [i \in DOMAIN fs |-> CopyOf(fs[i], ss[i])]

LEMMA CopiesType ==
  ASSUME NEW fs \in Seq(Frame), NEW ss \in Seq([Slots -> Contents]), Len(ss) = Len(fs)
  PROVE  /\ CopiesOf(fs, ss) \in Seq(Choice) /\ Len(CopiesOf(fs, ss)) = Len(fs)
         /\ \A i \in 1 .. Len(fs) : CopiesOf(fs, ss)[i] = CopyOf(fs[i], ss[i])
<1>1. DOMAIN fs = 1 .. Len(fs) /\ Len(fs) \in Nat BY LenProperties
<1>2. ASSUME NEW i \in 1 .. Len(fs) PROVE CopiesOf(fs, ss)[i] \in Choice
  <2>1. fs[i] \in Frame /\ ss[i] \in [Slots -> Contents] BY ElementOfSeq
  <2> QED BY <1>1, <2>1 DEF CopiesOf, CopyOf, Choice, Frame
<1>3. CopiesOf(fs, ss) \in [1 .. Len(fs) -> Choice] BY <1>1, <1>2 DEF CopiesOf
<1>4. CopiesOf(fs, ss) \in Seq(Choice) BY <1>1, <1>3
<1>5. Len(CopiesOf(fs, ss)) = Len(fs) BY <1>1, <1>3, <1>4
<1> QED BY <1>1, <1>4, <1>5 DEF CopiesOf

(* Cutting the frames back cuts the copies back.                           *)
LEMMA CopiesCut ==
  ASSUME NEW fs \in Seq(Frame), NEW ss \in Seq([Slots -> Contents]), Len(ss) = Len(fs),
         NEW n \in 0 .. Len(fs)
  PROVE  CopiesOf(SubSeq(fs, 1, n), SubSeq(ss, 1, n)) = SubSeq(CopiesOf(fs, ss), 1, n)
<1> DEFINE cut == CopiesOf(SubSeq(fs, 1, n), SubSeq(ss, 1, n))
           all == CopiesOf(fs, ss)
<1>1. /\ SubSeq(fs, 1, n) \in Seq(Frame) /\ Len(SubSeq(fs, 1, n)) = n
      /\ SubSeq(ss, 1, n) \in Seq([Slots -> Contents]) /\ Len(SubSeq(ss, 1, n)) = n
      /\ \A i \in 1 .. n : SubSeq(fs, 1, n)[i] = fs[i] /\ SubSeq(ss, 1, n)[i] = ss[i]
  BY Cut
<1>2. cut \in Seq(Choice) /\ Len(cut) = n /\ \A i \in 1 .. n : cut[i] = CopyOf(fs[i], ss[i])
  BY <1>1, CopiesType
<1>3. all \in Seq(Choice) /\ Len(all) = Len(fs)
      /\ \A i \in 1 .. Len(fs) : all[i] = CopyOf(fs[i], ss[i])
  BY CopiesType
<1> HIDE DEF cut, all
<1>4. /\ SubSeq(all, 1, n) \in Seq(Choice) /\ Len(SubSeq(all, 1, n)) = n
      /\ \A i \in 1 .. n : SubSeq(all, 1, n)[i] = all[i]
  BY <1>3, Cut
<1>5. \A i \in 1 .. n : cut[i] = SubSeq(all, 1, n)[i] BY <1>2, <1>3, <1>4
<1>6. cut = SubSeq(all, 1, n) BY <1>2, <1>4, <1>5, SeqEqual
<1> QED BY <1>6 DEF cut, all

(* Pushing a frame makes a copy.                                           *)
LEMMA CopiesGrown ==
  ASSUME NEW fs \in Seq(Frame), NEW ss \in Seq([Slots -> Contents]), Len(ss) = Len(fs),
         NEW frame \in Frame, NEW regs \in [Slots -> Contents]
  PROVE  CopiesOf(Append(fs, frame), Append(ss, regs))
           = Append(CopiesOf(fs, ss), CopyOf(frame, regs))
<1> DEFINE grown == CopiesOf(Append(fs, frame), Append(ss, regs))
           all == CopiesOf(fs, ss)
           copy == CopyOf(frame, regs)
<1>0. PICK m \in Nat : m = Len(fs) + 1 OBVIOUS
<1>1. /\ Append(fs, frame) \in Seq(Frame) /\ Len(Append(fs, frame)) = m
      /\ Append(ss, regs) \in Seq([Slots -> Contents]) /\ Len(Append(ss, regs)) = m
      /\ \A i \in 1 .. Len(fs) : Append(fs, frame)[i] = fs[i] /\ Append(ss, regs)[i] = ss[i]
      /\ Append(fs, frame)[m] = frame /\ Append(ss, regs)[m] = regs
  BY <1>0, Grown
<1>2. /\ grown \in Seq(Choice) /\ Len(grown) = m
      /\ \A i \in 1 .. Len(fs) : grown[i] = CopyOf(fs[i], ss[i])
      /\ grown[m] = copy
  <2>1. m \in 1 .. m /\ \A i \in 1 .. Len(fs) : i \in 1 .. m BY <1>0
  <2>2. /\ grown \in Seq(Choice) /\ Len(grown) = m
        /\ \A i \in 1 .. m : grown[i] = CopyOf(Append(fs, frame)[i], Append(ss, regs)[i])
    BY <1>1, CopiesType
  <2> HIDE DEF grown
  <2>3. grown[m] = CopyOf(frame, regs) BY <1>1, <2>1, <2>2
  <2>4. ASSUME NEW i \in 1 .. Len(fs) PROVE grown[i] = CopyOf(fs[i], ss[i])
    <3>1. grown[i] = CopyOf(Append(fs, frame)[i], Append(ss, regs)[i]) BY <2>1, <2>2
    <3>2. Append(fs, frame)[i] = fs[i] /\ Append(ss, regs)[i] = ss[i] BY <1>1
    <3> QED BY <3>1, <3>2
  <2> QED BY <2>2, <2>3, <2>4
<1>3. /\ all \in Seq(Choice) /\ Len(all) = Len(fs) /\ copy \in Choice
      /\ \A i \in 1 .. Len(fs) : all[i] = CopyOf(fs[i], ss[i])
  <2>1. copy \in Choice BY DEF CopyOf, Choice, Frame
  <2> QED BY <2>1, CopiesType
<1> HIDE DEF grown, all, copy
<1>4. /\ Append(all, copy) \in Seq(Choice) /\ Len(Append(all, copy)) = m
      /\ \A i \in 1 .. Len(fs) : Append(all, copy)[i] = all[i]
      /\ Append(all, copy)[m] = copy
  BY <1>0, <1>3, Grown
<1>5. \A i \in 1 .. m : grown[i] = Append(all, copy)[i] BY <1>0, <1>2, <1>3, <1>4
<1>6. grown = Append(all, copy) BY <1>2, <1>4, <1>5, SeqEqual
<1> QED BY <1>6 DEF grown, all, copy

LEMMA CopiesNone == ASSUME NEW ss PROVE CopiesOf(<<>>, ss) = <<>>
<1>1. DOMAIN <<>> = {} OBVIOUS
<1> QED BY <1>1 DEF CopiesOf

(* The assertion register is what the abstract stack calls Open.           *)
LEMMA OpenIsAssertion ==
  ASSUME TypeOK, Nested, Stack = CopiesOf(frames, saved)
  PROVE  Copies!Open = assertion
<1>1. /\ Len(Stack) = Len(frames) /\ Len(frames) \in Nat
      /\ DOMAIN Stack = 1 .. Len(frames)
      /\ \A i \in 1 .. Len(frames) : Stack[i].kind = frames[i].kind
  <2>1. /\ Stack \in Seq(Choice) /\ Len(Stack) = Len(frames)
        /\ \A i \in 1 .. Len(frames) : Stack[i] = CopyOf(frames[i], saved[i])
    BY CopiesType DEF TypeOK, Nested, Top
  <2>2. DOMAIN Stack = 1 .. Len(frames) BY <2>1, LenProperties
  <2>3. Len(frames) \in Nat BY DEF TypeOK
  <2> QED BY <2>1, <2>2, <2>3 DEF CopyOf
<1>2. Innermost(assertion, Len(frames)) BY DEF Nested, Top
<1>3. CASE assertion = 0
  BY <1>1, <1>2, <1>3 DEF Innermost, Copies!Open
<1>4. CASE assertion # 0
  <2> DEFINE Last(i) == /\ Stack[i].kind # "choice"
                        /\ \A j \in i + 1 .. Len(Stack) : Stack[j].kind = "choice"
  <2>1. assertion \in DOMAIN Stack /\ Last(assertion) BY <1>1, <1>2, <1>4 DEF Innermost
  <2>2. \A i \in DOMAIN Stack : Last(i) => i = assertion
    <3> SUFFICES ASSUME NEW i \in 1 .. Len(frames), Last(i), i # assertion PROVE FALSE
        BY <1>1
    <3>1. CASE i < assertion
      <4>1. assertion \in i + 1 .. Len(Stack) BY <1>1, <2>1, <3>1
      <4> QED BY <2>1, <4>1
    <3>2. CASE assertion < i
      <4>1. i \in assertion + 1 .. Len(Stack) BY <1>1, <2>1, <3>2
      <4> QED BY <2>1, <4>1
    <3> QED BY <1>1, <2>1, <3>1, <3>2
  <2>3. (CHOOSE i \in DOMAIN Stack : Last(i)) = assertion BY <2>1, <2>2
  <2> QED BY <2>1, <2>3 DEF Copies!Open
<1> QED BY <1>3, <1>4

(* A finished rollback has brought the registers it owes.                  *)
LEMMA RolledBack ==
  ASSUME TypeOK, Stored, Rollback, phase' # "Rollback"
  PROVE  registers' = target
<1> USE DEF TypeOK, Height
<1>1. /\ Restores(until, target) /\ Len(undo) \in Nat /\ until \in Nat /\ until <= Len(undo)
      /\ target \in [Slots -> Contents] /\ registers \in [Slots -> Contents]
  BY DEF Rollback, Stored, Recoverable, Restores
<1>2. CASE Len(undo) = until
  <2>1. registers' = registers BY <1>1, <1>2 DEF Rollback
  <2>2. \A s \in Slots : registers[s] = target[s] BY <1>1, <1>2 DEF Restores, Leaves
  <2> QED BY <1>1, <2>1, <2>2
<1>3. CASE Len(undo) > until
  <2>1. Len(undo) = until + 1 BY <1>1, <1>3 DEF Rollback
  <2>2. Len(undo) \in 1 .. Len(undo) BY <1>1, <1>3
  <2>3. undo[Len(undo)] \in Entry BY <2>2, ElementOfSeq
  <2>4. registers' = [registers EXCEPT ![undo[Len(undo)].slot] = undo[Len(undo)].value]
    BY <1>1, <1>3 DEF Rollback
  <2>5. ASSUME NEW s \in Slots PROVE registers'[s] = target[s]
    <3>1. Leaves(until, s, target[s]) BY <1>1 DEF Restores
    <3>2. \A j \in until + 1 .. Len(undo) : j = Len(undo) BY <2>1
    <3>3. CASE undo[Len(undo)].slot = s
      <4>1. undo[Len(undo)].value = target[s]
        <5>1. Len(undo) \in until + 1 .. Len(undo) BY <1>1, <2>1
        <5> QED BY <3>1, <3>2, <3>3, <5>1 DEF Leaves
      <4> QED BY <1>1, <2>3, <2>4, <3>3, <4>1 DEF Entry
    <3>4. CASE undo[Len(undo)].slot # s
      <4>1. registers[s] = target[s] BY <3>1, <3>2, <3>4 DEF Leaves
      <4> QED BY <1>1, <2>3, <2>4, <3>4, <4>1 DEF Entry
    <3> QED BY <3>3, <3>4
  <2>6. registers' \in [Slots -> Contents] BY <1>1, <2>3, <2>4 DEF Entry
  <2> QED BY <1>1, <2>5, <2>6
<1> QED BY <1>1, <1>2, <1>3

------------------------------------------------------------------------------
LEMMA CopiesInit == Init => Copies!Init
<1> SUFFICES ASSUME Init PROVE Copies!Init
    OBVIOUS
<1>1. Stack = <<>>
  <2>1. DOMAIN frames = {} BY DEF Init
  <2> QED BY <2>1 DEF Stack, Init
<1>2. Held = Copies!Blank BY DEF Init, Held, Unset, Copies!Blank
<1>3. Status = "NextStart" BY DEF Init, Status
<1> QED BY <1>1, <1>2, <1>3 DEF Init, Copies!Init

(* Every step of the evaluator or of its host is a step of chronological   *)
(* backtracking over full copies, or changes nothing such a copy holds.    *)
LEMMA CopiesNext ==
  IInv /\ IInv' /\ Orderly /\ [Next]_vars => [Copies!Next]_Copies!vars
<1> SUFFICES ASSUME IInv, IInv', Orderly, [Next]_vars
             PROVE  [Copies!Next]_Copies!vars
    OBVIOUS
<1> USE DEF IInv
<1>a. TypeOK /\ Nested /\ Stored BY DEF Stored
<1>b. /\ Stack = CopiesOf(frames, saved) /\ Stack' = CopiesOf(frames', saved')
  BY DEF Stack, CopiesOf, CopyOf
<1>c. Copies!Open = assertion BY <1>a, <1>b, OpenIsAssertion
<1>d. /\ Len(Stack) = Len(frames) /\ Len(frames) \in Nat /\ Len(saved) = Len(frames)
      /\ \A i \in 1 .. Len(frames) :
           /\ Stack[i].kind = frames[i].kind
           /\ Stack[i].point = frames[i].point
           /\ Stack[i].regs = saved[i]
  <2>1. /\ Len(Stack) = Len(frames)
        /\ \A i \in 1 .. Len(frames) : Stack[i] = CopyOf(frames[i], saved[i])
    BY <1>a, <1>b, CopiesType DEF TypeOK, Nested, Top
  <2>2. Len(frames) \in Nat /\ Len(saved) = Len(frames) BY <1>a DEF TypeOK, Nested, Top
  <2>3. ASSUME NEW i \in 1 .. Len(frames)
        PROVE  /\ Stack[i].kind = frames[i].kind
               /\ Stack[i].point = frames[i].point
               /\ Stack[i].regs = saved[i]
    <3>1. Stack[i] = CopyOf(frames[i], saved[i]) BY <2>1
    <3> QED BY ONLY <3>1 DEF CopyOf
  <2> QED BY <2>1, <2>2, <2>3
<1>e. frames = <<>> <=> Stack = <<>>
  <2>1. Stack \in Seq(Choice) BY <1>a, <1>b, CopiesType DEF TypeOK, Nested, Top
  <2>2. frames \in Seq(Frame) BY <1>a DEF TypeOK
  <2> QED BY <1>d, <2>1, <2>2, None
<1>f. frames' = <<>> => Stack' = <<>> BY <1>b, CopiesNone
<1>g. /\ Unset = Copies!Blank
      /\ Terminal = Copies!Ended /\ Kinds = Copies!Kinds /\ Contents = Copies!Contents
  BY DEF Unset, Copies!Blank, Terminal, Copies!Ended, Kinds, Copies!Kinds, Contents,
         Copies!Contents
<1>h. ASSUME UNCHANGED <<frames, saved>> PROVE Stack' = Stack BY <1>b, <1>h
<1>i. ASSUME NEW n \in 0 .. Len(frames),
             frames' = SubSeq(frames, 1, n), saved' = SubSeq(saved, 1, n)
      PROVE  Stack' = SubSeq(Stack, 1, n)
  BY <1>a, <1>b, <1>d, <1>i, CopiesCut DEF TypeOK
<1> USE DEF scratch, control, rolling, request, Held, Status
<1>1. CASE Publish
  BY <1>1, <1>h DEF Publish, Copies!vars
<1>2. CASE Initialize
  <2>1. frames = <<>> /\ Stack = <<>>
    BY <1>2, <1>a, <1>e DEF Initialize, Stored, NoDeadEntries
  <2>2. CASE UNCHANGED <<frames, undo, saved, control, point>>
    BY <1>2, <1>h, <2>2 DEF Initialize, Copies!vars
  <2>3. CASE /\ \E entry \in SUBSET Captures, start \in Contents :
                   registers' = [s \in Slots |-> IF s \in entry THEN start
                                   ELSE IF s \in Captures THEN UNSET ELSE registers[s]]
             /\ frames' = <<>> /\ phase' = "Trial" /\ point' \in Points
    <3>1. registers' \in [Slots -> Contents] BY DEF TypeOK
    <3>2. \E start \in Contents : \A s \in Captures : registers'[s] \in {UNSET, start}
      <4>1. PICK entry \in SUBSET Captures, start \in Contents :
              registers' = [s \in Slots |-> IF s \in entry THEN start
                              ELSE IF s \in Captures THEN UNSET ELSE registers[s]]
        BY <2>3
      <4>2. \A s \in Captures : s \in Slots /\ registers'[s] \in {UNSET, start}
        BY <4>1, TrailConstants
      <4> QED BY <4>2
    <3> QED BY <1>2, <1>f, <1>g, <2>3, <3>1, <3>2 DEF Initialize, Copies!Begin, Copies!Next
  <2> QED BY <1>2, <2>2, <2>3 DEF Initialize
<1>3. CASE NoMatch
  BY <1>3, <1>h DEF NoMatch, Copies!Exhausted, Copies!Next
<1>4. CASE Move
  BY <1>4, <1>h DEF Move, Running, Copies!Move, Copies!Next
<1>5. CASE AssertEnd
  <2> USE DEF Top
  <2>1. CASE assertion \notin 1 .. Len(frames)
    BY <1>5, <1>g, <1>h, <2>1 DEF AssertEnd, Running, Copies!Abort, Copies!Ended, Copies!Next
  <2>2. CASE assertion \in 1 .. Len(frames)
    <3>1. assertion \in 1 .. Len(frames) /\ assertion - 1 \in 0 .. Len(frames)
      BY <1>a, <1>d, <2>2 DEF Nested, Innermost, Top
    <3>2. Stack' = SubSeq(Stack, 1, assertion - 1) BY <1>5, <1>i, <2>2, <3>1 DEF AssertEnd
    <3>3. point' = Stack[assertion].point BY <1>5, <1>d, <2>2, <3>1 DEF AssertEnd, Resume
    <3>4. phase = "Trial" /\ Held = registers /\ Status = "Trial"
      BY <1>5 DEF AssertEnd, Running
    <3>5. frames[assertion].kind \in {"positive", "negative"}
      <4>1. frames[assertion] \in Frame BY <1>a, <3>1, ElementOfSeq DEF TypeOK
      <4>2. Innermost(assertion, Len(frames)) /\ assertion # 0 BY <1>a, <1>d, <2>2 DEF Nested
      <4> QED BY <4>1, <4>2 DEF Innermost, Frame, Kinds
    <3>6. CASE frames[assertion].kind = "negative"
      <4>1. Held' = Stack[assertion].regs /\ Status' = "Fail"
        BY <1>5, <1>d, <2>2, <3>1, <3>6 DEF AssertEnd
      <4>2. Stack[assertion].kind # "positive" BY <1>d, <3>1, <3>6
      <4> HIDE DEF Held, Status
      <4> QED BY <1>c, <2>2, <3>2, <3>3, <3>4, <4>1, <4>2 DEF Copies!Close, Copies!Next
    <3>7. CASE frames[assertion].kind = "positive"
      <4>1. Held' = Held /\ Status' = Status
        BY <1>5, <2>2, <3>4, <3>7 DEF AssertEnd
      <4>2. Stack[assertion].kind = "positive" BY <1>d, <3>1, <3>7
      <4> HIDE DEF Held, Status
      <4> QED BY <1>c, <2>2, <3>2, <3>3, <3>4, <4>1, <4>2 DEF Copies!Close, Copies!Next
    <3> QED BY <3>5, <3>6, <3>7
  <2> QED BY <2>1, <2>2
<1>6. CASE FailStep
  BY <1>6, <1>h DEF FailStep, Running, Copies!Reject, Copies!Next
<1>7. CASE MatchStep
  BY <1>7, <1>c, <1>g, <1>h
     DEF MatchStep, Running, Copies!Accept, Copies!Abort, Copies!Ended, Copies!Next, Copies!vars
<1>8. CASE Validate
  BY <1>8, <1>c, <1>h DEF Validate, Orderly, Copies!Accept, Copies!Next
<1>9. CASE Backtrack
  <2>1. CASE frames = <<>>
    BY <1>9, <1>e, <1>g, <1>h, <2>1 DEF Backtrack, Copies!GiveUp, Copies!Next
  <2>2. CASE frames # <<>>
    <3>1. Top \in 1 .. Len(frames) /\ Top - 1 \in 0 .. Len(frames) /\ Top = Len(Stack)
      <4>1. Len(frames) # 0 BY <1>a, <2>2, None DEF TypeOK
      <4> QED BY <1>d, <4>1 DEF Top
    <3>2. Stack' = SubSeq(Stack, 1, Top - 1) BY <1>9, <1>i, <2>2, <3>1 DEF Backtrack
    <3>3. point' = Stack[Top].point BY <1>9, <1>d, <2>2, <3>1 DEF Backtrack, Resume
    <3>4. Status = "Fail" /\ Stack # <<>> BY <1>9, <1>e, <2>2 DEF Backtrack
    <3>5. Held' = Stack[Top].regs BY <1>9, <1>d, <2>2, <3>1 DEF Backtrack
    <3>6. Status' = IF Stack[Top].kind = "positive" THEN "Fail" ELSE "Trial"
      BY <1>9, <1>d, <2>2, <3>1 DEF Backtrack
    <3> HIDE DEF Held, Status
    <3> QED BY <3>1, <3>2, <3>3, <3>4, <3>5, <3>6 DEF Copies!Backtrack, Copies!Next
  <2> QED BY <2>1, <2>2
<1>10. CASE Rollback
  <2>1. Stack' = Stack /\ point' = point /\ phase = "Rollback" BY <1>10, <1>h DEF Rollback
  <2>2. CASE phase' = "Rollback"
    <3>1. UNCHANGED rolling
      BY <1>10, <1>a, <2>2 DEF Rollback, TypeOK
    <3> QED BY <2>1, <2>2, <3>1 DEF Copies!vars
  <2>3. CASE phase' # "Rollback"
    <3>1. registers' = target BY <1>10, <1>a, <2>3, RolledBack
    <3>2. phase' = after /\ after \in {"Trial", "Fail"} BY <1>10, <1>a, <2>1, <2>3 DEF Rollback, TypeOK
    <3> QED BY <2>1, <3>1, <3>2 DEF Copies!vars
  <2> QED BY <2>2, <2>3
<1>11. CASE Fault \/ Cancel
  <2>1. /\ Stack' = Stack /\ point' = point
        /\ phase \in Phases /\ phase \notin Terminal /\ phase' = "Failed"
    BY <1>11, <1>a, <1>h DEF Fault, Cancel, TypeOK
  <2>2. Status \notin Copies!Ended
    BY <1>a, <2>1 DEF Copies!Ended, Terminal, Phases, TypeOK
  <2> QED BY <1>g, <2>1, <2>2 DEF Copies!Abort, Copies!Next
<1>12. CASE Rebuffer
  BY <1>12, <1>h DEF Rebuffer, Copies!vars
<1>13. CASE Restart
  BY <1>13, <1>f, <1>g DEF Restart, Copies!Restart, Copies!Next
<1>14. ASSUME NEW slot \in Slots, NEW value \in Contents, Store(slot, value)
       PROVE [Copies!Next]_Copies!vars
  <2>1. /\ Stack' = Stack /\ point' = point /\ phase = "Trial" /\ phase' = "Trial"
        /\ Held = registers /\ Held' = registers'
    BY <1>14, <1>h DEF Store, Block, Running
  <2>2. registers' = registers \/ registers' = [registers EXCEPT ![slot] = value]
    BY <1>14 DEF Store, Block
  <2> QED BY <1>g, <2>1, <2>2 DEF Copies!Store, Copies!Next, Copies!vars
<1>15. ASSUME NEW kind \in Kinds, NEW at \in Points, Push(kind, at)
       PROVE [Copies!Next]_Copies!vars
  <2> DEFINE frame == [point |-> at, undo |-> Len(undo), assertion |-> assertion,
                       kind |-> kind]
  <2>1. /\ point' = point /\ phase = "Trial" /\ phase' = "Trial" /\ registers' = registers
    BY <1>15 DEF Push, Block, Running
  <2>2. CASE frames' = frames /\ saved' = saved
    BY <1>h, <2>1, <2>2 DEF Copies!vars
  <2>3. CASE frames' = Append(frames, frame) /\ saved' = Append(saved, registers)
    <3>1. frame \in Frame BY DEF Frame, TypeOK
    <3>2. Stack' = Append(Stack, CopyOf(frame, registers))
      <4>1. /\ frames \in Seq(Frame) /\ saved \in Seq([Slots -> Contents])
            /\ registers \in [Slots -> Contents]
        BY DEF TypeOK
      <4>2. CopiesOf(Append(frames, frame), Append(saved, registers))
              = Append(CopiesOf(frames, saved), CopyOf(frame, registers))
        BY ONLY <1>d, <3>1, <4>1, CopiesGrown
      <4> QED BY <1>b, <2>3, <4>2
    <3>3. CopyOf(frame, registers) = [kind |-> kind, point |-> at, regs |-> Held]
      BY <2>1 DEF CopyOf
    <3>4. Held' = Held /\ Status' = Status /\ Status = "Trial" BY <2>1
    <3> HIDE DEF Held, Status
    <3>5. Copies!Push(kind, at) BY <2>1, <3>2, <3>3, <3>4 DEF Copies!Push
    <3> QED BY <1>g, <3>5 DEF Copies!Next
  <2> QED BY <1>15, <2>2, <2>3 DEF Push, Block, Height
<1>16. CASE UNCHANGED vars
  BY <1>16, <1>h DEF vars, Copies!vars
<1> QED
  BY <1>1, <1>2, <1>3, <1>4, <1>5, <1>6, <1>7, <1>8, <1>9, <1>10, <1>11, <1>12, <1>13,
     <1>14, <1>15, <1>16 DEF Next

(* The trail implements chronological backtracking with full copies.       *)
THEOREM Refinement == Spec => Implements
<1> QED BY CopiesInit, CopiesNext, Inductive, OrderlyAlways, PTL
        DEF Spec, Implements, Copies!Spec
==============================================================================
