--------------------------------- MODULE Vm ---------------------------------
(***************************************************************************)
(* The evaluator (src/executor.rs, executor/atom.rs): every instruction    *)
(* and every phase, with the work each charges, over UTF-16 storage and a  *)
(* program without the u, v and i flags.  On that storage the byte scans   *)
(* (Phase::Candidate, short_start, literal runs, ATOM_REPEAT's byte walks) *)
(* are not taken, and every subject of the runs is below the 64 units at   *)
(* which Admission looks for the required condition.                       *)
(*                                                                         *)
(* One action is one instruction or one unit of a phase's loop.  The       *)
(* source batches such units up to the quantum left; a batch and the same  *)
(* units one by one, with the quantum asked before each, stop at the same  *)
(* places.  Where they do not (LazySkip, the BRANCH chain) the batch is    *)
(* modelled as it is.                                                      *)
(*                                                                         *)
(* A job is searched twice: first in one call with room for everything,    *)
(* then under any sequence of quanta, with scratch that grows only when it *)
(* is asked for, and with a little more or less work than the first took.  *)
(***************************************************************************)
EXTENDS Integers, Sequences, FiniteSets, FiniteSetsExt

CONSTANTS
  Jobs,      (* A sequence of what may be searched: a compiled program, a *)
             (* record of Emission, with its subjects, the positions to   *)
             (* start from, whether captures may be left out, and the     *)
             (* work the second search has beyond what the first took.    *)
  Quanta,    (* What one advance may be asked to spend.                   *)
  Scarce     (* Whether the second search starts with empty buffers.      *)

ASSUME VmConstants == Quanta \subseteq Nat \ {0} /\ Scarce \subseteq BOOLEAN

VARIABLES
  job,       (* What is searched, one of Jobs: program, subject and start.  *)
  vm,        (* State, Cursor, Budget and the live prefixes of Scratch.   *)
  capacity,  (* The lengths of the frame and undo buffers.                *)
  first,     (* History: what the unpaused search answered and spent.     *)
  spare      (* History: the work the second search was given beyond that.*)

vars == <<job, vm, capacity, first, spare>>

UNSET == -1
Unlimited == 100000
Ample == 2000

P == job.program
Text == job.subject
Captured == 2 * P.captures
Slots == 0 .. Captured + 2 * P.repeats - 1
OneStart == P.sticky \/ P.anchored

Terminal == {"Matched", "NoMatch", "WorkLimit", "InvalidProgram"}
In(tag) == [is |-> tag]

Frame == [pc : Nat, at : Nat, undo : Nat, assertion : Nat, limit : Nat,
          kind : {"choice", "positive", "negative", "greedy", "lazy"}, reverse : BOOLEAN]

Fresh(budget, window, registers) ==
  [phase |-> In("Admission"), pc |-> 1, at |-> 0, reverse |-> FALSE,
   registers |-> registers, frames |-> <<>>, undo |-> <<>>, assertion |-> 0,
   start |-> 0, runEnd |-> UNSET, atom |-> [needed |-> 0, remaining |-> 0, minEnd |-> 0],
   blocked |-> "none", budget |-> budget, window |-> window]

Init ==
  /\ \E asked \in {<<k, Jobs[k]>> : k \in DOMAIN Jobs} :
     \E s \in asked[2].subjects, f \in asked[2].froms, b \in asked[2].booleans :
       job = [program |-> asked[2].program, subject |-> s, from |-> f, boolean |-> b,
              spares |-> asked[2].spares]
  /\ job.from <= Len(job.subject)
  /\ vm = Fresh(Ample, Unlimited, [s \in Slots |-> 0])
  /\ capacity = [frames |-> Unlimited, undo |-> Unlimited]
  /\ first = <<>> /\ spare = 0

------------------------------------------------------------------------------
(* Vm::charge: work an operation may spend, all of it or none; the rest of *)
(* the operation is `then`.                                                *)
Spend(n, then) ==
  IF vm.budget < n THEN [vm EXCEPT !.phase = In("WorkLimit"), !.budget = 0]
  ELSE [then EXCEPT !.budget = vm.budget - n, !.window = vm.window - n]

Become(v, tag) == [v EXCEPT !.phase = In(tag)]

(* Nothing more happens in an operation a full buffer has interrupted.     *)
IfRoom(v, then) == IF v.blocked = "none" THEN then ELSE v

(* Vm::store, with its request for undo entries.                           *)
Store(v, slot, value) ==
  IfRoom(v,
    IF v.registers[slot] = value THEN v
    ELSE IF v.frames = <<>> THEN [v EXCEPT !.registers[slot] = value]
    ELSE IF Len(v.undo) < capacity.undo
      THEN [v EXCEPT !.undo = Append(@, [slot |-> slot, value |-> v.registers[slot]]),
                     !.registers[slot] = value]
    ELSE [v EXCEPT !.blocked = "Undo"])

(* Vm::push_at, with its request for frames.                               *)
PushLimit(v, pc, kind, limit) ==
  IfRoom(v,
    IF Len(v.frames) < capacity.frames
      THEN [v EXCEPT !.frames = Append(@,
             [pc |-> pc, at |-> v.at, undo |-> Len(v.undo), assertion |-> v.assertion,
              limit |-> limit, kind |-> kind, reverse |-> v.reverse])]
      ELSE [v EXCEPT !.blocked = "Frames"])

Push(v, pc, kind) == PushLimit(v, pc, kind, 0)

(* The unit read in a direction, and the cursor after it.                  *)
UnitAt(at, reverse) == Text[IF reverse THEN at ELSE at + 1]
CanRead(at, reverse) == IF reverse THEN at > 0 ELSE at < Len(Text)
Step(at, reverse) == IF reverse THEN at - 1 ELSE at + 1

LineTerminator(c) == c \in {10, 13, 8232, 8233}
Word(c) == c \in (48 .. 57) \cup (65 .. 90) \cup {95} \cup (97 .. 122)
Inside(range, c) == c >= range[1] /\ c <= range[2]

(* What a consuming instruction accepts (equal, line_terminator, class).   *)
Accepts(i, c) ==
  CASE i.op = "CHAR" -> c = i.a
    [] i.op = "ANY" -> ~LineTerminator(c)
    [] i.op = "ANY_S" -> TRUE
    [] i.op = "CLASS" -> (\E k \in DOMAIN i.a : Inside(i.a[k], c)) # i.b

AcceptsAt(i, at, reverse) == CanRead(at, reverse) /\ Accepts(i, UnitAt(at, reverse))

------------------------------------------------------------------------------
(* An advance goes on while it has work left to spend and nothing blocks.  *)
Going == vm.window > 0 /\ vm.blocked = "none"
Runs(tag) == Going /\ vm.phase.is = tag

(* An instruction is fetched and paid for, or an interrupted one resumes.  *)
Resumed == vm.phase.is = "Execute"
Address == IF Resumed THEN vm.phase.address ELSE vm.pc
I == P.code[Address]
Executes(ops) == Going /\ vm.phase.is \in {"Trial", "Execute"} /\ I.op \in ops
Fetched == IF Resumed THEN Become(vm, "Trial") ELSE [vm EXCEPT !.pc = @ + 1]
Paid == IF Resumed THEN 0 ELSE 1

(* Fault: what an interrupted instruction did before it was interrupted is *)
(* taken to be all of it.                                                  *)
KeptAsDone(v) == v

(* Fault: an interrupted instruction is fetched and paid for again.        *)
RefetchAll(v) == IF v.blocked = "none" THEN v ELSE [vm EXCEPT !.blocked = v.blocked]

(* An instruction interrupted for want of room is kept, paid for.          *)
Kept(v) ==
  IF v.blocked = "none" THEN v
  ELSE [v EXCEPT !.phase = [is |-> "Execute", address |-> Address]]

Instruction(cost, v) == vm' = Spend(Paid + cost, Kept(v))
Host == UNCHANGED <<job, capacity, first, spare>>

Consuming == {"CHAR", "ANY", "ANY_S"}

(* CHAR, ANY: one unit is read in the current direction.                   *)
Consume ==
  /\ Executes(Consuming)
  /\ Instruction(0,
       IF AcceptsAt(I, vm.at, vm.reverse)
         THEN [Fetched EXCEPT !.at = Step(vm.at, vm.reverse)] ELSE Become(Fetched, "Fail"))
  /\ Host

(* CLASS: the ranges are tried from the first, each paid when it is.       *)
Class ==
  /\ Executes({"CLASS"})
  /\ Instruction(0,
       IF CanRead(vm.at, vm.reverse)
         THEN [Fetched EXCEPT !.at = Step(vm.at, vm.reverse),
                 !.phase = [is |-> "Class", unit |-> UnitAt(vm.at, vm.reverse),
                            address |-> Address, next |-> 1]]
         ELSE Become(Fetched, "Fail"))
  /\ Host

(* class_decide and class_step.                                            *)
ClassStep ==
  /\ Runs("Class")
  /\ LET ph == vm.phase
         class == P.code[ph.address]
         Result(found) == Become(vm, IF found # class.b THEN "Trial" ELSE "Fail")
     IN vm' = IF ph.next > Len(class.a) THEN Result(FALSE)
              ELSE Spend(1, IF Inside(class.a[ph.next], ph.unit) THEN Result(TRUE)
                            ELSE IF ph.next = Len(class.a) THEN Result(FALSE)
                            ELSE [vm EXCEPT !.phase.next = @ + 1])
  /\ Host

(* MATCH: an assertion cannot be open; captures are checked if anyone may  *)
(* read them.                                                              *)
Match ==
  /\ Executes({"MATCH"})
  /\ Instruction(0,
       IF vm.assertion # 0 THEN Become(Fetched, "InvalidProgram")
       ELSE IF job.boolean THEN Become(Fetched, "Matched")
       ELSE [Fetched EXCEPT !.phase = [is |-> "Validate", next |-> 0]])
  /\ Host

Save ==
  /\ Executes({"SAVE"})
  /\ Instruction(0, Store(Fetched, I.a, vm.at))
  /\ Host

Split ==
  /\ Executes({"SPLIT"})
  /\ LET v == Push(Fetched, I.b, "choice") IN
       Instruction(0, IfRoom(v, [v EXCEPT !.pc = I.a]))
  /\ Host

Bucket(c) == (c % 32) % 24

(* Fault: the character before the cursor is always the one looked at.     *)
ViableForward(i) == CanRead(vm.at, FALSE) /\ Bucket(UnitAt(vm.at, FALSE)) \in i.a

(* An arm can begin with the next character, in the direction of reading.  *)
Viable(i) == CanRead(vm.at, vm.reverse) /\ Bucket(UnitAt(vm.at, vm.reverse)) \in i.a

(* Fault: a chain is walked to its end whatever the quantum.               *)
ChainedOn(chained, left) == FALSE

(* A chain stops at the quantum the next instruction would have been given.*)
ChainedOut(chained, left) == chained >= left

(* BRANCH: arms that cannot begin here are passed over, each further one   *)
(* charged as its own instruction would be, while the quantum allows.  The *)
(* arm found viable leaves a frame for the next.                           *)
Branch ==
  /\ Executes({"BRANCH"})
  /\ LET left == vm.window - Paid
         chain[pc \in DOMAIN P.code, n \in 1 .. Len(P.code)] ==
           LET i == P.code[pc] IN
             IF Viable(i) THEN [pc |-> pc, passed |-> 0, arm |-> TRUE]
             ELSE IF P.code[i.b].op # "BRANCH" \/ ChainedOut(n, left)
               THEN [pc |-> i.b, passed |-> 0, arm |-> FALSE]
             ELSE [chain[i.b, n + 1] EXCEPT !.passed = @ + 1]
         end == chain[Address, 1]
     IN Instruction(end.passed,
          IF ~end.arm THEN [Fetched EXCEPT !.pc = end.pc]
          ELSE Push([Fetched EXCEPT !.pc = end.pc + 1], P.code[end.pc].b, "choice"))
  /\ Host

Jump ==
  /\ Executes({"JUMP"})
  /\ Instruction(0, [Fetched EXCEPT !.pc = I.a])
  /\ Host

(* START, END and WORD look at the units around the cursor.                *)
Around(reverse, Test(_)) == CanRead(vm.at, reverse) /\ Test(UnitAt(vm.at, reverse))
Holds ==
  CASE I.op = "START" -> vm.at = 0
    [] I.op = "START_M" -> vm.at = 0 \/ Around(TRUE, LineTerminator)
    [] I.op = "END" -> vm.at = Len(Text)
    [] I.op = "END_M" -> vm.at = Len(Text) \/ Around(FALSE, LineTerminator)
    [] I.op = "WORD" -> (Around(TRUE, Word) # Around(FALSE, Word)) # I.a

Boundary ==
  /\ Executes({"START", "START_M", "END", "END_M", "WORD"})
  /\ Instruction(0, IF Holds THEN Fetched ELSE Become(Fetched, "Fail"))
  /\ Host

(* Vm::backref: a capture that takes no part matches the empty string.     *)
BackrefTo(v, index) ==
  LET start == v.registers[2 * index]
      end == v.registers[2 * index + 1]
  IN IF start = UNSET \/ end = UNSET THEN Become(v, "Trial")
     ELSE IF start > end \/ end > Len(Text) THEN Become(v, "InvalidProgram")
     ELSE [v EXCEPT !.phase = [is |-> "Backref", start |-> start, end |-> end,
                               captured |-> IF v.reverse THEN end ELSE start]]

(* Finding the captured text is a seek, one unit on this storage.          *)
SeekCost(v) == IF v.phase.is = "Backref" THEN 1 ELSE 0

Backref ==
  /\ Executes({"BACKREF"})
  /\ LET v == BackrefTo(Fetched, I.a) IN Instruction(SeekCost(v), v)
  /\ Host

(* NAMED_BACKREF and Phase::Named: of the groups sharing a name, the one   *)
(* that takes part; two of them are an invalid program.                    *)
Named ==
  /\ Executes({"NAMED"})
  /\ Instruction(0, [Fetched EXCEPT !.phase =
       [is |-> "Named", groups |-> I.a, next |-> 1, selected |-> UNSET]])
  /\ Host

NamedStep ==
  /\ Runs("Named")
  /\ LET ph == vm.phase IN
       IF ph.next > Len(ph.groups)
         THEN LET v == IF ph.selected = UNSET THEN Become(vm, "Trial")
                                              ELSE BackrefTo(vm, ph.selected)
              IN vm' = Spend(SeekCost(v), v)
         ELSE LET k == ph.groups[ph.next]
                  complete == vm.registers[2 * k] # UNSET /\ vm.registers[2 * k + 1] # UNSET
              IN vm' = Spend(1,
                   IF complete /\ ph.selected # UNSET THEN Become(vm, "InvalidProgram")
                   ELSE [vm EXCEPT !.phase.next = @ + 1,
                                   !.phase.selected = IF complete THEN k ELSE @])
  /\ Host

(* Phase::Backref: one unit of the captured text is compared.              *)
BackrefStep ==
  /\ Runs("Backref")
  /\ LET ph == vm.phase
         left == ph.captured
     IN vm' = IF left = (IF vm.reverse THEN ph.start ELSE ph.end) THEN Become(vm, "Trial")
              ELSE Spend(1,
                IF /\ CanRead(vm.at, vm.reverse)
                   /\ UnitAt(vm.at, vm.reverse) = UnitAt(left, vm.reverse)
                  THEN [vm EXCEPT !.at = Step(@, vm.reverse),
                                  !.phase.captured = Step(@, vm.reverse)]
                  ELSE Become(vm, "Fail"))
  /\ Host

------------------------------------------------------------------------------
(* ASSERT: the frame to come back to, and the direction of the body.       *)
Assertion ==
  /\ Executes({"ASSERT"})
  /\ LET v == Push(Fetched, I.a, IF I.b.negative THEN "negative" ELSE "positive") IN
       Instruction(0, IfRoom(v, [v EXCEPT !.assertion = Len(v.frames),
                                          !.reverse = I.b.behind]))
  /\ Host

AssertionEnd ==
  /\ Executes({"ASSERT_END"})
  /\ Instruction(0,
       IF vm.assertion \notin 1 .. Len(vm.frames) THEN Become(Fetched, "InvalidProgram")
       ELSE LET frame == vm.frames[vm.assertion]
                back == [Fetched EXCEPT !.frames = SubSeq(@, 1, vm.assertion - 1),
                           !.at = frame.at, !.reverse = frame.reverse,
                           !.assertion = frame.assertion]
            IN IF frame.kind = "negative"
                 THEN [back EXCEPT !.phase =
                         [is |-> "Rollback", until |-> frame.undo, after |-> "Fail"]]
                 ELSE [back EXCEPT !.pc = frame.pc,
                         !.undo = IF back.frames = <<>> THEN <<>> ELSE @])
  /\ Host

------------------------------------------------------------------------------
(* The two registers of a repeat: its count and where its iteration began. *)
CountSlot(r) == Captured + 2 * r.id
PlaceSlot(r) == Captured + 2 * r.id + 1

(* Fault: the count of an earlier trial or iteration is left in place.     *)
InitPlaceOnly(v, r) == Store(v, PlaceSlot(r), UNSET)

InitStores(v, r) == Store(Store(v, CountSlot(r), 0), PlaceSlot(r), UNSET)

RepeatInit ==
  /\ Executes({"REPEAT_INIT"})
  /\ Instruction(0, InitStores(Fetched, I.a))
  /\ Host

(* REPEAT_CHOICE: at the maximum the repeat is over, below the minimum it  *)
(* goes on, and between them a frame keeps the other choice.               *)
RepeatChoice ==
  /\ Executes({"REPEAT_CHOICE"})
  /\ LET r == I.a
         count == vm.registers[CountSlot(r)]
     IN Instruction(0,
          IF ~r.infinite /\ count >= r.max THEN [Fetched EXCEPT !.pc = r.exit]
          ELSE IF count < r.min THEN Fetched
          ELSE IF ~r.lazy THEN Push(Fetched, r.exit, "choice")
          ELSE LET v == Push(Fetched, r.body, "choice") IN
                 IfRoom(v, [v EXCEPT !.pc = r.exit]))
  /\ Host

(* REPEAT_BODY: captures made inside the repeat are cleared, in their own  *)
(* phase when there are any, and the iteration's start is recorded.        *)
RepeatBody ==
  /\ Executes({"REPEAT_BODY"})
  /\ LET r == I.a IN
       Instruction(0,
         IF r.clear = {} THEN Store(Fetched, PlaceSlot(r), vm.at)
         ELSE [Fetched EXCEPT !.phase = [is |-> "Clear", next |-> 2 * Min(r.clear),
                                         end |-> 2 * Max(r.clear) + 2, slot |-> PlaceSlot(r)]])
  /\ Host

(* Phase::Clear charges a slot before it clears it, and Phase::ClearStore  *)
(* is where a clearing interrupted for want of an undo entry resumes.      *)
Cleared(v) == IfRoom(v, [v EXCEPT !.phase = [@ EXCEPT !.is = "Clear", !.next = @ + 1]])

Clear ==
  /\ Runs("Clear")
  /\ LET ph == vm.phase IN
       IF ph.next = ph.end
         THEN LET v == Store(vm, ph.slot, vm.at) IN
                vm' = IfRoom(v, Become(v, "Trial"))
         ELSE vm' = Spend(1, Cleared(Store([vm EXCEPT !.phase.is = "ClearStore"], ph.next, UNSET)))
  /\ Host

ClearStore ==
  /\ Runs("ClearStore")
  /\ vm' = Cleared(Store(vm, vm.phase.next, UNSET))
  /\ Host

(* Fault: an iteration that consumed nothing is only refused at first.     *)
EmptyAtFirst(r, count) == vm.at = vm.registers[PlaceSlot(r)] /\ count = r.min

(* An iteration beyond the minimum has consumed nothing.                   *)
EmptyIteration(r, count) == vm.at = vm.registers[PlaceSlot(r)] /\ count >= r.min

RepeatNext ==
  /\ Executes({"REPEAT_NEXT"})
  /\ LET r == I.a
         count == vm.registers[CountSlot(r)]
         v == Store(Fetched, CountSlot(r), count + 1)
     IN Instruction(0, IF EmptyIteration(r, count) THEN Become(Fetched, "Fail")
                       ELSE IfRoom(v, [v EXCEPT !.pc = r.body - 1]))
  /\ Host

------------------------------------------------------------------------------
(* executor/atom.rs: a repeat of one consuming character keeps one frame   *)
(* for all its endpoints.                                                  *)
R == P.code[vm.pc].a
Body == P.code[vm.pc + 3]
NoAtom == [needed |-> 0, remaining |-> 0, minEnd |-> 0]

(* A character of an atom, decided: one, and each range of a class.        *)
Cost(i) == IF i.op = "CLASS" THEN 1 + Len(i.a) ELSE 1

(* The run of the program's leading repeat ends here.                      *)
RunEnds(v) == IF P.runSkip = vm.pc THEN [v EXCEPT !.runEnd = v.at] ELSE v

AtomRepeat ==
  /\ Executes({"ATOM_REPEAT"})
  /\ Instruction(0, [Become(Fetched, "AtomScan") EXCEPT !.pc = Address,
       !.atom = [needed |-> I.a.min,
                 remaining |-> IF I.a.infinite THEN 0 ELSE I.a.max - I.a.min,
                 minEnd |-> vm.at]])
  /\ Host

(* One character of a scan or of a lazy extension (atom_scan, atom_result).*)
Took(v) ==
  LET moved == [v EXCEPT !.at = Step(@, v.reverse)] IN
    IF v.atom.needed > 0
      THEN [moved EXCEPT !.atom.needed = @ - 1, !.atom.minEnd = moved.at]
      ELSE [moved EXCEPT !.atom.remaining = IF R.infinite THEN @ ELSE @ - 1]

AtomCharge == IF CanRead(vm.at, vm.reverse) THEN Cost(Body) ELSE 1

AtomScan ==
  /\ Runs("AtomScan")
  /\ LET a == vm.atom IN
       IF a.needed = 0 /\ (R.lazy \/ (~R.infinite /\ a.remaining = 0))
         THEN vm' = Become(vm, "AtomCommit")
         ELSE vm' = Spend(AtomCharge,
                IF AcceptsAt(Body, vm.at, vm.reverse) THEN Took(vm)
                ELSE Become(RunEnds(vm), IF a.needed # 0 THEN "Fail" ELSE "AtomCommit"))
  /\ Host

AtomExtend ==
  /\ Runs("AtomExtend")
  /\ vm' = IF vm.atom.needed # 0 \/ (~R.infinite /\ vm.atom.remaining = 0)
             THEN Become(vm, "InvalidProgram")
             ELSE Spend(AtomCharge,
                    IF AcceptsAt(Body, vm.at, vm.reverse) THEN Become(Took(vm), "AtomCommit")
                                                          ELSE Become(RunEnds(vm), "Fail"))
  /\ Host

(* What follows a repeat, past the SAVEs that consume nothing.             *)
Following(pc) == CHOOSE q \in pc .. Len(P.code) :
  P.code[q].op # "SAVE" /\ \A k \in pc .. q - 1 : P.code[k].op = "SAVE"

(* Fault: a repeat that may match nothing is taken to state a condition.   *)
ProbeAny(i, pc) == IF i.op = "ATOM_REPEAT" THEN P.code[pc + 3] ELSE i

(* The instruction that consumes the continuation's first character.       *)
ProbeOf(i, pc) ==
  IF i.op = "ATOM_REPEAT" /\ i.a.min >= 1 THEN P.code[pc + 3] ELSE i

Probe == LET pc == Following(R.exit) IN ProbeOf(P.code[pc], pc)
Probing == Probe.op \in Consuming \cup {"CLASS"}

(* Fault: the least a skip may spend does not cover one character.         *)
QuantumOnly(cost) == Min({vm.window, 256})

(* Fault: a skip walks its whole round whatever the quantum.               *)
RoundOnly(cost) == 256

(* What one skip may spend: at least one character is taken.               *)
SkipLimit(cost) == Max({Min({vm.window, 256}), cost})

(* atom_commit: the repeat's other endpoints get one frame, if there are   *)
(* any, and matching goes on behind it.                                    *)
Committed(v) ==
  LET retry == IF R.lazy THEN R.infinite \/ v.atom.remaining # 0 ELSE v.at # v.atom.minEnd
      pushed == IF retry THEN PushLimit(v, v.pc, IF R.lazy THEN "lazy" ELSE "greedy",
                                        IF R.lazy THEN v.atom.remaining ELSE v.atom.minEnd)
                         ELSE v
  IN IfRoom(pushed, [Become(pushed, "Trial") EXCEPT !.pc = R.exit, !.atom = NoAtom])

Commit ==
  /\ Runs("AtomCommit")
  /\ ~(R.lazy /\ (R.infinite \/ vm.atom.remaining # 0) /\ Probing)
  /\ vm' = Committed(vm)
  /\ Host

(* lazy_skip: endpoints the continuation cannot start at are passed over,  *)
(* up to what this dispatcher round may spend.  At the subject's end the   *)
(* remaining count is committed as it was before the skip.                 *)
LazySkip ==
  /\ Runs("AtomCommit")
  /\ R.lazy /\ (R.infinite \/ vm.atom.remaining # 0) /\ Probing
  /\ LET cost == Cost(Body)
         limit == SkipLimit(cost)
         Place(i) == IF vm.reverse THEN vm.at - i ELSE vm.at + i
         AtEnd(i) == ~CanRead(Place(i), vm.reverse)
         Starts(i) == Accepts(Probe, UnitAt(Place(i), vm.reverse))
         Spent(i) == (i + 1) * cost > limit
         Used(i) == ~R.infinite /\ vm.atom.remaining = i
         Refuses(i) == ~Accepts(Body, UnitAt(Place(i), vm.reverse))
         n == CHOOSE i \in 0 .. Len(Text) :
                /\ AtEnd(i) \/ Starts(i) \/ Spent(i) \/ Used(i) \/ Refuses(i)
                /\ \A j \in 0 .. i - 1 :
                     ~(AtEnd(j) \/ Starts(j) \/ Spent(j) \/ Used(j) \/ Refuses(j))
         moved == [vm EXCEPT !.at = Place(n)]
         noted == [moved EXCEPT !.atom.remaining = IF R.infinite THEN @ ELSE @ - n]
     IN vm' = CASE AtEnd(n) -> Spend(n * cost, Committed(moved))
                [] ~AtEnd(n) /\ Starts(n) -> Spend(n * cost, Committed(noted))
                [] ~AtEnd(n) /\ ~Starts(n) /\ Spent(n) -> Spend(n * cost, noted)
                [] ~AtEnd(n) /\ ~Starts(n) /\ ~Spent(n) /\ Used(n) ->
                     Spend(n * cost, Become(noted, "Fail"))
                [] OTHER -> Spend((n + 1) * cost, Become(RunEnds(noted), "Fail"))
  /\ Host

(* atom_retreat: one endpoint back.  Where the continuation states what it *)
(* begins with, an endpoint it cannot start at is passed over, down to the *)
(* minimum; a literal condition is charged one, another what it costs.     *)
AtomRetreat ==
  /\ Runs("AtomRetreat")
  /\ LET literal == P.code[Following(R.exit)].op = "CHAR"
         at == Step(vm.at, ~vm.reverse)
         back == [vm EXCEPT !.at = at]
         cost == 1 + (IF literal THEN 1 ELSE IF Probing THEN Cost(Probe) - 1 ELSE 0)
     IN vm' = IF IF vm.reverse THEN vm.at >= vm.atom.minEnd ELSE vm.at <= vm.atom.minEnd
                THEN Become(vm, "InvalidProgram")
              ELSE Spend(cost,
                IF ~Probing \/ at = vm.atom.minEnd \/ AcceptsAt(Probe, at, vm.reverse)
                  THEN Become(back, "AtomCommit") ELSE back)
  /\ Host

------------------------------------------------------------------------------
(* Phase::Admission on this storage: end_candidate asks the last unit.     *)
Admission ==
  /\ Runs("Admission")
  /\ vm' = IF P.last.nullable THEN Become(vm, "Start")
           ELSE Spend(1,
             IF /\ Text # <<>>
                /\ \/ Text[Len(Text)] >= 128
                   \/ Inside(<<P.last.lo, P.last.hi>>, Text[Len(Text)])
               THEN Become(vm, "Start") ELSE Become(vm, "NoMatch"))
  /\ Host

(* A start is tried: its registers are cleared first (start_candidate).    *)
Began(v, at) == [v EXCEPT !.at = at, !.start = at,
                          !.phase = [is |-> "Initialize", next |-> 0]]

(* Fault: a match may be one unit shorter than its bound allows.           *)
EarliestLate == IF P.bound < Len(Text) THEN Len(Text) - P.bound + 1 ELSE 0

(* The earliest start a bounded match that ends with the subject can have. *)
Earliest == IF P.bound < Len(Text) THEN Len(Text) - P.bound ELSE 0

(* Phase::Start, with the seek it makes: one unit on this storage.         *)
Start ==
  /\ Runs("Start")
  /\ vm' = CASE P.anchored /\ job.from >= 2 -> Spend(1, Become(vm, "NoMatch"))
             [] ~(P.anchored /\ job.from >= 2) /\ job.from < Earliest ->
                  IF OneStart THEN Spend(1, Become(vm, "NoMatch"))
                              ELSE Spend(2, Began(vm, Earliest))
             [] OTHER -> Spend(1, Began(vm, job.from))
  /\ Host

(* Phase::Seek, which only a skipped run enters here.                      *)
Seek ==
  /\ Runs("Seek")
  /\ vm' = Spend(1, IF vm.at + 1 = vm.phase.target THEN Began(vm, vm.at + 1)
                                                   ELSE [vm EXCEPT !.at = @ + 1])
  /\ Host

(* Phase::Initialize clears the capture registers; begin_trial follows.    *)
Initialize ==
  /\ Runs("Initialize")
  /\ LET next == vm.phase.next
         v == [vm EXCEPT !.registers[next] = UNSET, !.phase.next = next + 1]
     IN vm' = Spend(1,
          IF next + 1 < Captured THEN v
          ELSE [Become(v, "Trial") EXCEPT !.pc = 1, !.frames = <<>>, !.undo = <<>>,
                  !.assertion = 0, !.reverse = FALSE, !.at = vm.start])
  /\ Host

(* Phase::Fail: the youngest frame says where to go on, once the trail is  *)
(* down to its height.                                                     *)
After(kind) == CASE kind = "positive" -> "Fail"
                 [] kind = "greedy" -> "AtomRetreat"
                 [] kind = "lazy" -> "AtomExtend"
                 [] OTHER -> "Trial"

(* The cursor and the repeat a frame was pushed with.                      *)
Restored(f) ==
  [vm EXCEPT !.frames = SubSeq(@, 1, Len(@) - 1), !.at = f.at, !.reverse = f.reverse, !.pc = f.pc,
     !.assertion = f.assertion,
     !.atom = [needed |-> 0, remaining |-> IF f.kind = "lazy" THEN f.limit ELSE 0,
               minEnd |-> IF f.kind = "greedy" THEN f.limit ELSE 0]]

Fail ==
  /\ Runs("Fail")
  /\ IF vm.frames = <<>> THEN vm' = Become(vm, "NextStart")
     ELSE LET f == vm.frames[Len(vm.frames)] IN
       vm' = Spend(1, [Restored(f) EXCEPT !.phase =
                         [is |-> "Rollback", until |-> f.undo, after |-> After(f.kind)]])
  /\ Host

Rollback ==
  /\ Runs("Rollback")
  /\ LET height == Len(vm.undo)
         left == IF height > vm.phase.until THEN height - 1 ELSE height
         entry == vm.undo[height]
         v == IF left = height THEN vm
              ELSE [vm EXCEPT !.registers[entry.slot] = entry.value, !.undo = SubSeq(@, 1, left)]
     IN vm' = Spend(height - left,
          IF left > vm.phase.until THEN v
          ELSE [Become(v, vm.phase.after) EXCEPT !.undo = IF v.frames = <<>> THEN <<>> ELSE @])
  /\ Host

(* Phase::NextStart: one unit on, or at the end of a run whose starts all  *)
(* fail with this one.                                                     *)
NextStart ==
  /\ Runs("NextStart")
  /\ LET v == [vm EXCEPT !.at = vm.start, !.runEnd = UNSET] IN
       vm' = IF OneStart THEN Become(vm, "NoMatch")
             ELSE Spend(1,
               IF vm.runEnd > vm.start
                 THEN [v EXCEPT !.phase = [is |-> "Seek", target |-> vm.runEnd]]
               ELSE IF vm.start = Len(Text) THEN Become(v, "NoMatch")
               ELSE Began(v, vm.start + 1))
  /\ Host

(* Phase::Validate: the whole match is set, and every capture lies in the  *)
(* subject.                                                                *)
Validate ==
  /\ Runs("Validate")
  /\ LET k == vm.phase.next
         lo == vm.registers[2 * k]
         hi == vm.registers[2 * k + 1]
     IN vm' = Spend(2,
          IF \/ k = 0 /\ (lo = UNSET \/ hi = UNSET)
             \/ lo # UNSET /\ hi # UNSET /\ (lo > hi \/ hi > Len(Text))
            THEN Become(vm, "InvalidProgram")
          ELSE IF k + 1 = P.captures THEN Become(vm, "Matched")
          ELSE [vm EXCEPT !.phase.next = k + 1])
  /\ Host

------------------------------------------------------------------------------
(* The host.  copy_match_registers: a capture with either end unset takes  *)
(* no part.                                                                *)
Spans == [k \in 1 .. P.captures |->
            IF vm.registers[2 * k - 2] = UNSET \/ vm.registers[2 * k - 1] = UNSET
              THEN <<>> ELSE <<vm.registers[2 * k - 2], vm.registers[2 * k - 1]>>]

Done == vm.phase.is \in Terminal
Outcome == [is |-> vm.phase.is, spans |-> IF vm.phase.is = "Matched" THEN Spans ELSE <<>>]

(* A second search over the same scratch, registers as they were left.     *)
Again ==
  /\ Done /\ first = <<>>
  /\ first' = <<Outcome, Ample - vm.budget>>
  /\ spare' \in job.spares
  /\ \E scarce \in Scarce :
       LET length == IF scarce THEN 0 ELSE Unlimited IN
         capacity' = [frames |-> length, undo |-> length]
  /\ vm' = Fresh(first'[2] + spare', 0, vm.registers)
  /\ UNCHANGED job

(* Search::advance, entered again after a pause or a supplied request.     *)
Advance ==
  /\ first # <<>> /\ vm.window <= 0 /\ vm.blocked = "none" /\ ~Done
  /\ \E quantum \in Quanta : vm' = [vm EXCEPT !.window = quantum]
  /\ UNCHANGED <<job, capacity, first, spare>>

(* Search::rebuffer with what Search::required_scratch asks for.           *)
Rebuffer ==
  /\ vm.blocked # "none"
  /\ capacity' = IF vm.blocked = "Frames"
                   THEN [capacity EXCEPT !.frames = Len(vm.frames) + 1]
                   ELSE [capacity EXCEPT !.undo = Len(vm.undo) + 1]
  /\ vm' = [vm EXCEPT !.blocked = "none", !.window = 0]
  /\ UNCHANGED <<job, first, spare>>

Trial ==
  \/ Consume \/ Class \/ Match \/ Save \/ Split \/ Branch \/ Jump \/ Boundary
  \/ Backref \/ Named \/ Assertion \/ AssertionEnd
  \/ RepeatInit \/ RepeatChoice \/ RepeatBody \/ RepeatNext \/ AtomRepeat

Phase ==
  \/ Admission \/ Start \/ Seek \/ Initialize \/ Fail \/ Rollback \/ NextStart \/ Validate
  \/ ClassStep \/ NamedStep \/ BackrefStep \/ Clear \/ ClearStore
  \/ AtomScan \/ AtomExtend \/ Commit \/ LazySkip \/ AtomRetreat

Next == Trial \/ Phase \/ Again \/ Advance \/ Rebuffer

Spec == Init /\ [][Next]_vars

(* The evaluator runs whenever an advance lets it, and the host goes on    *)
(* advancing a paused search and supplying what it asks for.               *)
FairSpec == Spec /\ WF_vars(Next)
==============================================================================
