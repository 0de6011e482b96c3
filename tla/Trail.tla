-------------------------------- MODULE Trail --------------------------------
(***************************************************************************)
(* The evaluator's backtracking storage (src/executor.rs): registers, a    *)
(* stack of frames and an undo trail in caller-owned buffers that may be   *)
(* full, may be exchanged for others between any two steps, and may be     *)
(* abandoned at any step.  A frame holds a place to resume and the height  *)
(* of the trail when it was pushed; what the registers held then has to be *)
(* recovered from the entries above that height.                           *)
(*                                                                         *)
(* Which instruction runs next is left open: a trial is any sequence of    *)
(* stores, pushes, moves, failures and assertion ends.  Vm.tla gives the   *)
(* instructions.  Of the frame kinds of the source, 0, 3, 4 and 5 differ   *)
(* in what resumes, not in what is restored, and are all "choice" here; 1  *)
(* and 2 are the positive and the negative assertion.                      *)
(***************************************************************************)
EXTENDS Naturals, Sequences

CONSTANTS
  Slots,     (* Register slots.                                           *)
  Captures,  (* The slots Phase::Initialize clears before a trial.        *)
  Values,    (* Subject offsets and repeat counts a store may write.      *)
  UNSET,     (* usize::MAX, the value of a cleared register.              *)
  Points,    (* What a frame saves directly: pc, position and direction.  *)
  Capacities (* Lengths a host's frame and undo buffers may have.         *)

ASSUME TrailConstants ==
  /\ Captures \subseteq Slots
  /\ UNSET \notin Values
  /\ Points # {}
  /\ Capacities \subseteq Nat

VARIABLES
  registers, (* Scratch::registers, every slot of which some search uses. *)
  frames,    (* The live prefix of Scratch::frames.                       *)
  undo,      (* The live prefix of Scratch::undo.                         *)
  capacity,  (* The lengths of the two buffers now supplied.              *)
  point,     (* State::pc, the cursor and State::reverse.                 *)
  assertion, (* State::assertion as an index into frames; 0 is UNSET.     *)
  phase,     (* The Phase, apart from what a scan would add to it.        *)
  until,     (* Phase::Rollback: the trail height to come down to,        *)
  after,     (*   and the phase that follows.                             *)
  blocked,   (* State::blocked: "none", "Frames" or "Undo".               *)
  pending,   (* The update a capacity request interrupted; <<>> if none.  *)
  saved,     (* History: the registers when each frame was pushed.        *)
  target     (* History: the registers the running rollback must reach.   *)

scratch == <<registers, frames, undo, saved>>
rolling == <<until, after, target>>
control == <<assertion, phase, rolling>>
request == <<blocked, pending>>
vars == <<scratch, control, request, capacity, point>>

Contents == Values \cup {UNSET}
Kinds == {"choice", "positive", "negative"}
Terminal == {"Matched", "NoMatch", "Failed"}
Phases == {"NextStart", "Initialize", "Trial", "Fail", "Rollback", "Validate"}
          \cup Terminal
Frame == [point : Points, undo : Nat, assertion : Nat, kind : Kinds]
Entry == [slot : Slots, value : Contents]
Updates == {"store"} \X Slots \X Contents \cup {"push"} \X Kinds \X Points

Top == Len(frames)
Height == Len(undo)

(* No rollback is running: its parameters went with the phase.             *)
Unset == [s \in Slots |-> UNSET]
Settle == until' = 0 /\ after' = "Trial" /\ target' = Unset

(* An update may run when nothing blocks the search and no other update is *)
(* waiting to be completed.                                                *)
Running(update) == phase = "Trial" /\ blocked = "none" /\ pending \in {<<>>, update}

------------------------------------------------------------------------------
Init ==
  /\ registers \in [Slots -> Contents]
  /\ frames = <<>> /\ undo = <<>> /\ saved = <<>>
  /\ capacity \in [frames : Capacities, undo : Capacities]
  /\ point \in Points
  /\ assertion = 0
  /\ phase = "NextStart"
  /\ until = 0 /\ after = "Trial" /\ target = Unset
  /\ blocked = "none" /\ pending = <<>>

(* A scan publishes a start to try.                                       *)
Publish ==
  /\ phase = "NextStart"
  /\ phase' = "Initialize"
  /\ UNCHANGED <<scratch, capacity, point, assertion, rolling, request>>

(* Phase::Initialize clears a batch of capture registers, only those, and  *)
(* calls begin_trial with the last of them; a pause may follow any batch.  *)
(* skip_verified then runs the entry SAVEs a start scan has already paid   *)
(* for, with no frame to record them for.                                  *)
Initialize ==
  /\ phase = "Initialize"
  /\ \/ /\ \E batch \in SUBSET Captures :
            registers' = [s \in Slots |-> IF s \in batch THEN UNSET ELSE registers[s]]
        /\ UNCHANGED <<frames, undo, saved, control, point>>
     \/ /\ \E entry \in SUBSET Captures, start \in Contents :
            registers' = [s \in Slots |-> IF s \in entry THEN start
                            ELSE IF s \in Captures THEN UNSET ELSE registers[s]]
        /\ frames' = <<>> /\ undo' = <<>> /\ saved' = <<>>
        /\ assertion' = 0
        /\ phase' = "Trial"
        /\ point' \in Points
        /\ UNCHANGED rolling
  /\ UNCHANGED <<capacity, request>>

(* No later start: the search is sticky, anchored or out of characters.    *)
NoMatch ==
  /\ phase = "NextStart"
  /\ phase' = "NoMatch"
  /\ UNCHANGED <<scratch, capacity, point, assertion, rolling, request>>

(* Characters are read or control jumps: registers and frames stay.        *)
Move ==
  /\ Running(<<>>) /\ pending = <<>>
  /\ point' \in Points
  /\ UNCHANGED <<scratch, capacity, control, request>>

(* The buffer is full: the host is asked for a larger one, and the store   *)
(* or push waits (Phase::Execute and ClearStore keep the instruction).     *)
Block(what, update) ==
  /\ blocked' = what
  /\ pending' = update
  /\ UNCHANGED <<scratch, control>>

(* Fault: the first frame is overlooked.                                   *)
LoggedLate == Top > 1

(* A store is recorded when a frame could ask for the old value back.      *)
Logged == frames # <<>>

(* Vm::store: an unchanged value writes nothing.                           *)
Store(slot, value) ==
  /\ Running(<<"store", slot, value>>)
  /\ UNCHANGED <<capacity, point>>
  /\ LET old == registers[slot] IN
       \/ /\ old = value
          /\ pending' = <<>>
          /\ UNCHANGED <<scratch, control, blocked>>
       \/ /\ old # value /\ ~Logged
          /\ registers' = [registers EXCEPT ![slot] = value]
          /\ pending' = <<>>
          /\ UNCHANGED <<frames, undo, saved, control, blocked>>
       \/ /\ old # value /\ Logged /\ Height < capacity.undo
          /\ undo' = Append(undo, [slot |-> slot, value |-> old])
          /\ registers' = [registers EXCEPT ![slot] = value]
          /\ pending' = <<>>
          /\ UNCHANGED <<frames, saved, control, blocked>>
       \/ /\ old # value /\ Logged /\ Height >= capacity.undo
          /\ Block("Undo", <<"store", slot, value>>)

(* Fault: the index is taken before the push counts its frame.             *)
OpenedEarly(kind) == IF kind = "choice" THEN assertion ELSE Top - 1

(* The assertion a push leaves open: ASSERT names the frame it pushed.     *)
Opened(kind) == IF kind = "choice" THEN assertion ELSE Top + 1

(* Vm::push_at, and the two assignments ASSERT makes after it.             *)
Push(kind, at) ==
  /\ Running(<<"push", kind, at>>)
  /\ UNCHANGED <<capacity, point>>
  /\ \/ /\ Top < capacity.frames
        /\ frames' = Append(frames, [point |-> at, undo |-> Height,
                                     assertion |-> assertion, kind |-> kind])
        /\ saved' = Append(saved, registers)
        /\ assertion' = Opened(kind)
        /\ pending' = <<>>
        /\ UNCHANGED <<registers, undo, phase, rolling, blocked>>
     \/ /\ Top >= capacity.frames
        /\ Block("Frames", <<"push", kind, at>>)

(* Fault: the assertion register is not restored with the cursor.          *)
ResumeInside(frame) == point' = frame.point /\ assertion' = assertion

(* Back to where a frame was pushed: cursor, direction and assertion.      *)
Resume(frame) == point' = frame.point /\ assertion' = frame.assertion

(* Fault: entries no frame can ask for are never dropped.                  *)
KeepAll == undo

(* Fault: the body's entries are dropped although outer frames need them.  *)
KeepOuter == SubSeq(undo, 1, frames[assertion].undo)

(* What a positive assertion leaves of the trail.                          *)
Keep == IF assertion = 1 THEN <<>> ELSE undo

(* ASSERT_END: the frames of the body go, its trail entries stay for the   *)
(* frames below.  A negative assertion unwinds its body and then fails.    *)
AssertEnd ==
  /\ Running(<<>>) /\ pending = <<>>
  /\ UNCHANGED <<capacity, request>>
  /\ \/ /\ assertion \notin 1 .. Top
        /\ phase' = "Failed"
        /\ UNCHANGED <<scratch, point, assertion, rolling>>
     \/ /\ assertion \in 1 .. Top
        /\ LET frame == frames[assertion] IN
             /\ frames' = SubSeq(frames, 1, assertion - 1)
             /\ saved' = SubSeq(saved, 1, assertion - 1)
             /\ Resume(frame)
             /\ IF frame.kind = "negative"
                  THEN /\ phase' = "Rollback" /\ until' = frame.undo /\ after' = "Fail"
                       /\ target' = saved[assertion]
                       /\ UNCHANGED <<registers, undo>>
                  ELSE /\ undo' = Keep
                       /\ UNCHANGED <<registers, phase, rolling>>

(* An instruction's condition does not hold.                               *)
FailStep ==
  /\ Running(<<>>) /\ pending = <<>>
  /\ phase' = "Fail"
  /\ UNCHANGED <<scratch, capacity, point, assertion, rolling, request>>

(* MATCH: an invalid program inside an assertion, otherwise the answer,    *)
(* whose captures are validated unless nobody may read them.               *)
MatchStep ==
  /\ Running(<<>>) /\ pending = <<>>
  /\ phase' \in IF assertion = 0 THEN {"Validate", "Matched"} ELSE {"Failed"}
  /\ UNCHANGED <<scratch, capacity, point, assertion, rolling, request>>

(* Phase::Validate: every capture lies in the subject.                    *)
Validate ==
  /\ phase = "Validate"
  /\ phase' = "Matched"
  /\ UNCHANGED <<scratch, capacity, point, assertion, rolling, request>>

(* Phase::Fail: the youngest frame is popped and its rollback begins.      *)
Backtrack ==
  /\ phase = "Fail"
  /\ UNCHANGED <<registers, undo, capacity, request>>
  /\ \/ /\ frames = <<>>
        /\ phase' = "NextStart"
        /\ UNCHANGED <<frames, saved, point, assertion, rolling>>
     \/ /\ frames # <<>>
        /\ LET frame == frames[Top] IN
             /\ frames' = SubSeq(frames, 1, Top - 1)
             /\ saved' = SubSeq(saved, 1, Top - 1)
             /\ Resume(frame)
             /\ until' = frame.undo
             /\ after' = IF frame.kind = "positive" THEN "Fail" ELSE "Trial"
             /\ target' = saved[Top]
             /\ phase' = "Rollback"

(* Phase::Rollback: the youngest entry is written back, and the next phase *)
(* is entered once no entry is left above the frame's height.  The quantum *)
(* and the budget decide how many entries one dispatcher round undoes; a   *)
(* round of several is several of these steps.                             *)
Rollback ==
  /\ phase = "Rollback"
  /\ LET left == IF Height > until THEN Height - 1 ELSE Height
         entry == undo[Height] IN
       /\ registers' = IF left < Height THEN [registers EXCEPT ![entry.slot] = entry.value]
                                       ELSE registers
       /\ IF left > until
            THEN /\ undo' = SubSeq(undo, 1, left)
                 /\ UNCHANGED <<phase, rolling>>
            ELSE /\ undo' = IF frames = <<>> THEN <<>> ELSE SubSeq(undo, 1, left)
                 /\ phase' = after
                 /\ Settle
  /\ UNCHANGED <<frames, saved, capacity, point, assertion, request>>

------------------------------------------------------------------------------
(* An error ends the search: the budget runs out in a charge, which        *)
(* precedes every change, or advance finds other views or a bad program.   *)
Fault ==
  /\ phase \notin Terminal /\ blocked = "none"
  /\ phase' = "Failed" /\ Settle
  /\ pending' = <<>>
  /\ UNCHANGED <<scratch, capacity, point, assertion, blocked>>

(* Search::cancel: a terminal search stays what it is.  The interrupted    *)
(* instruction is the phase the cancellation replaces.                     *)
Cancel ==
  /\ phase \notin Terminal
  /\ phase' = "Failed" /\ Settle
  /\ blocked' = "none" /\ pending' = <<>>
  /\ UNCHANGED <<scratch, capacity, point, assertion>>

(* Fault: only the request is counted, not what is live.                   *)
RequiredForRequest == [frames |-> IF blocked = "Frames" THEN Top + 1 ELSE 0,
                       undo |-> IF blocked = "Undo" THEN Height + 1 ELSE 0]

(* Search::required_scratch.                                               *)
Required == [frames |-> Top + (IF blocked = "Frames" THEN 1 ELSE 0),
             undo |-> Height + (IF blocked = "Undo" THEN 1 ELSE 0)]

(* Search::rebuffer between any two advances: the live prefixes move to    *)
(* buffers of another size, larger or smaller, and the request is lifted.  *)
Rebuffer ==
  /\ capacity' \in [frames : Capacities, undo : Capacities]
  /\ capacity'.frames >= Required.frames
  /\ capacity'.undo >= Required.undo
  /\ blocked' = "none"
  /\ UNCHANGED <<scratch, control, pending, point>>

(* Search::restart_at, from any state: State::new over the same scratch.   *)
Restart ==
  /\ frames' = <<>> /\ undo' = <<>> /\ saved' = <<>>
  /\ assertion' = 0
  /\ phase' = "NextStart" /\ Settle
  /\ blocked' = "none" /\ pending' = <<>>
  /\ UNCHANGED <<registers, capacity, point>>

Next ==
  \/ Publish \/ Initialize \/ NoMatch \/ Move \/ AssertEnd \/ FailStep
  \/ MatchStep \/ Validate \/ Backtrack \/ Rollback
  \/ Fault \/ Cancel \/ Rebuffer \/ Restart
  \/ \E slot \in Slots, value \in Contents : Store(slot, value)
  \/ \E kind \in Kinds, at \in Points : Push(kind, at)

Spec == Init /\ [][Next]_vars

------------------------------------------------------------------------------
(* Every variable holds a value of its kind.                               *)
TypeOK ==
  /\ registers \in [Slots -> Contents]
  /\ frames \in Seq(Frame)
  /\ undo \in Seq(Entry)
  /\ capacity \in [frames : Capacities, undo : Capacities]
  /\ point \in Points
  /\ assertion \in Nat
  /\ phase \in Phases
  /\ until \in Nat
  /\ after \in {"Trial", "Fail"}
  /\ blocked \in {"none", "Frames", "Undo"}
  /\ pending \in Updates \cup {<<>>}
  /\ saved \in Seq([Slots -> Contents])
  /\ target \in [Slots -> Contents]

(* Coming down the trail to `height` would leave `value` in `slot`: it is  *)
(* what the oldest entry above that height holds, or the register itself.  *)
Leaves(height, slot, value) ==
  \/ /\ registers[slot] = value
     /\ \A j \in height + 1 .. Height : undo[j].slot # slot
  \/ \E j \in height + 1 .. Height :
       /\ undo[j].slot = slot
       /\ undo[j].value = value
       /\ \A k \in height + 1 .. j - 1 : undo[k].slot # slot

Restores(height, snapshot) ==
  /\ height <= Height
  /\ \A s \in Slots : Leaves(height, s, snapshot[s])

(* Whatever a trial stored, however it was paused, and whichever buffers   *)
(* it now runs in, the trail still leads from the present registers back   *)
(* to exactly what they were when each live frame was pushed, and an       *)
(* unfinished rollback is still on its way to the registers it owes.       *)
Recoverable ==
  /\ \A i \in 1 .. Top : Restores(frames[i].undo, saved[i])
  /\ phase = "Rollback" => Restores(until, target)

(* An assertion frame i is the innermost one below frame n + 1.            *)
Innermost(i, n) ==
  /\ i \in 0 .. n
  /\ i # 0 => frames[i].kind # "choice"
  /\ \A j \in i + 1 .. n : frames[j].kind = "choice"

(* Frames record the trail in the order they were pushed, and the          *)
(* assertion register always names the innermost assertion still open, in  *)
(* the live state and in every frame: ending a body can only ever drop the *)
(* frames of that body.                                                    *)
Nested ==
  /\ Len(saved) = Top
  /\ \A i \in 1 .. Top : \A j \in i .. Top : frames[i].undo <= frames[j].undo
  /\ \A i \in 1 .. Top : Innermost(frames[i].assertion, i - 1)
  /\ Innermost(assertion, Top)
  /\ phase = "Rollback" => \A i \in 1 .. Top : frames[i].undo <= until

(* With no frame to come back to, the trail is empty: entries nobody can   *)
(* ask for never count against the host's undo buffer.  And no choice of   *)
(* one start is left when the next start is tried.                         *)
NoDeadEntries ==
  /\ frames = <<>> /\ phase \notin {"Rollback", "Failed"} => undo = <<>>
  /\ phase \in {"NextStart", "Initialize"} => frames = <<>>

(* However often the host exchanges its buffers, for larger or smaller     *)
(* ones, everything live fits the pair in use: no frame or trail entry a   *)
(* later failure needs is ever outside them.                               *)
Fits == Top <= capacity.frames /\ Height <= capacity.undo

(* The trail implements chronological backtracking with full copies: what  *)
(* the matcher knows, the copy each frame stands for, and where it is.     *)
Held == CASE phase \in {"Trial", "Fail", "Validate", "Matched"} -> registers
          [] phase = "Rollback" -> target
          [] OTHER -> Unset

Stack == [i \in DOMAIN frames |->
            [kind |-> frames[i].kind, point |-> frames[i].point, regs |-> saved[i]]]

Status == CASE phase = "Initialize" -> "NextStart"
            [] phase = "Rollback" -> after
            [] phase = "Validate" -> "Trial"
            [] OTHER -> phase

Copies == INSTANCE Choices WITH regs <- Held, stack <- Stack, status <- Status

(* Failing always goes back to everything the matcher knew at the youngest *)
(* choice, and an assertion keeps or drops what its body did, whatever the *)
(* buffers, requests, pauses and cancellations on the way.                 *)
Implements == Copies!Spec
==============================================================================
