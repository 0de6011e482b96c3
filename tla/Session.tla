------------------------------- MODULE Session -------------------------------
(***************************************************************************)
(* A search as its host sees it (Search, Run and Finished of               *)
(* src/executor.rs): created, advanced, supplied, cancelled, restarted,    *)
(* asked for its position and its captures, in any order, over views that  *)
(* may move, change or be unavailable between two calls.                   *)
(*                                                                         *)
(* What a trial at one start does is given by the job: the work it takes,  *)
(* whether its last instruction pushes a frame, and where its match ends.  *)
(* Vm.tla is about what happens inside.  The walk to the start, the class  *)
(* admission looks for and the scan for candidates are modelled unit by    *)
(* unit, because a pause inside them is what a position reports.           *)
(***************************************************************************)
EXTENDS Integers, FiniteSets, FiniteSetsExt

CONSTANTS
  Worlds,      (* Pairs of jobs: one program over two subject layouts.     *)
  Starts,      (* Positions a search may be asked to start from.           *)
  Budgets,     (* Work a new search may be given.                          *)
  Quanta,      (* Work one call may be asked to spend.                     *)
  Capacities,  (* Lengths a frame buffer may have.                         *)
  MaxTurns     (* Bound: searches begun, by new, run or restart_at.        *)

NONE == -1
NoScan == -1
Fails == -1

(* A program over a subject: its length, whether storage is indexed, where *)
(* admission finds its class (at the length if nowhere), whether starts    *)
(* are scanned for and which are worth a trial, whether only one is tried, *)
(* and what a trial at each does.  `inside` is the places within a pair of *)
(* surrogates, for a program that reads the pair as one character (none    *)
(* for any other); a scan stops at the byte such a pair begins with.       *)
Trials(length) == [work : Nat \ {0}, push : BOOLEAN, end : {Fails} \cup 0 .. length]
IsJob(job) ==
  /\ job.length \in Nat /\ job.admits \in {NoScan} \cup 0 .. job.length
  /\ {job.indexed, job.scans, job.sticky} \subseteq BOOLEAN
  /\ job.inside \subseteq 1 .. job.length - 1 /\ job.admits \notin job.inside
  /\ \A p \in job.inside : p + 1 \notin job.inside /\ (job.scans => p - 1 \in job.viable)
  /\ \A s \in 0 .. job.length : job.trial[s] \in Trials(job.length)

ASSUME SessionConstants ==
  /\ \A w \in Worlds : IsJob(w[1]) /\ IsJob(w[2])
  /\ Starts \subseteq Nat /\ Budgets \subseteq Nat /\ Quanta \subseteq Nat
  /\ Capacities \subseteq Nat /\ MaxTurns \in Nat

VARIABLES
  world,     (* The host's resources: the job of each layout.             *)
  layout,    (* The layout its views show now, 0 when none can be had.    *)
  handle,    (* What the host holds: "none", "search" or "finished".      *)
  op,        (* State, Shape and Budget of the operation.                 *)
  call,      (* The running call and what it may still spend.             *)
  registers, (* The whole match's two registers, <<>> when cleared.       *)
  capacity,  (* Length of the frame buffer.                               *)
  hint,      (* A position the host has read, or <<>>.                    *)
  turns,     (* Searches begun.                                           *)
  begun,     (* History: budget, nearness and layout a search began with. *)
  answered,  (* History: what the last new, run or advance returned.      *)
  read       (* History: the capture last read, <<>> if refused.          *)

host == <<world, layout, hint, turns>>
vars == <<host, handle, op, call, registers, capacity, begun, answered, read>>

Idle == [is |-> "none", window |-> 0]
Distance(a, b) == IF a < b THEN b - a ELSE a - b

Job == world[op.shape]
Seen == world[layout]

(* Cursor::normalize_unicode_start: from within a pair, back to it.        *)
Aligned(job, at) == IF at \in job.inside THEN at - 1 ELSE at

(* read: past the character at a place.                                    *)
After(job, at) == IF at + 1 \in job.inside THEN at + 2 ELSE at + 1

(* State::new, with the length of the subject in view.                     *)
Begin(start, length, budget, shape) ==
  [phase |-> IF start > length THEN "NoMatch" ELSE "Admission", done |-> 0,
   requested |-> start, start |-> 0, current |-> 0, near |-> NONE, started |-> FALSE,
   blocked |-> FALSE, boolean |-> FALSE, frames |-> 0, budget |-> budget, shape |-> shape]

Decided(o) == o.phase \in {"Matched", "NoMatch", "WorkLimit", "ChangedResources", "Cancelled"}
Failed(o) == o.phase \in {"WorkLimit", "ChangedResources", "Cancelled"}

Init ==
  /\ world \in Worlds /\ layout = 1
  /\ handle = "none" /\ op = Begin(0, 0, 0, 1) /\ call = Idle
  /\ registers = <<>> /\ capacity = 0 /\ hint = <<>> /\ turns = 0
  /\ begun = [budget |-> 0, near |-> NONE, shape |-> 1] /\ answered = "nothing" /\ read = <<>>

------------------------------------------------------------------------------
(* Vm::charge, on the operation's budget and the call's quantum.           *)
Spend(n, then) ==
  /\ op' = IF op.budget < n THEN [op EXCEPT !.phase = "WorkLimit", !.budget = 0]
                            ELSE [then EXCEPT !.budget = op.budget - n]
  /\ call' = [call EXCEPT !.window = @ - n]

Runs(phases) ==
  /\ call.is # "none" /\ call.window > 0 /\ ~op.blocked
  /\ op.phase \in phases

(* The evaluator reads the views in front of it.                           *)
Length == Seen.length
Evaluator == UNCHANGED <<host, handle, capacity, begun, answered, read>>
Quiet == Evaluator /\ UNCHANGED registers

(* Admission looks for the character class every match must consume.       *)
Admission ==
  /\ Runs({"Admission"})
  /\ Spend(0, IF Seen.admits = NoScan THEN [op EXCEPT !.phase = "Start"]
                                      ELSE [op EXCEPT !.phase = "AdmitClass", !.current = 0])
  /\ Quiet

AdmitClass ==
  /\ Runs({"AdmitClass"})
  /\ IF op.current = Length THEN Spend(0, [op EXCEPT !.phase = "NoMatch"])
     ELSE Spend(1, [op EXCEPT !.phase = "AdmitRange", !.current = After(Seen, @)])
  /\ Quiet

AdmitRange ==
  /\ Runs({"AdmitRange"})
  /\ Spend(1, [op EXCEPT !.phase = IF op.current = After(Seen, Seen.admits) THEN "Start" ELSE "AdmitClass"])
  /\ Quiet

(* Vm::start_candidate: non-ASCII bytes are scanned for a first character. *)
AtStart(o, at) ==
  [o EXCEPT !.start = at, !.current = at, !.done = 0,
            !.phase = IF Seen.scans THEN "Candidate" ELSE "Trial"]

(* Vm::sought, for a start.                                                *)
Sought(o, at) == [AtStart(o, Aligned(Seen, at)) EXCEPT !.started = TRUE]

(* Input::seek_work: a walk from the nearer end, or one step.              *)
SeekWork(job, at) == IF job.indexed THEN 1 ELSE 1 + Min({at, job.length - at})

(* Fault: a position given is always started from.                         *)
NearerAlways(near, at, work) == near # NONE

Nearer(near, at, work) == near # NONE /\ Distance(near, at) + 1 < work

(* Vm::seek to the requested start: from the position given if that is     *)
(* nearer, at once if the quantum covers the walk, or from an end.         *)
Start ==
  /\ Runs({"Start"})
  /\ LET at == op.requested
         work == SeekWork(Seen, at)
         o == [op EXCEPT !.near = NONE]
     IN IF Nearer(op.near, at, work)
          THEN Spend(1, [o EXCEPT !.current = op.near, !.phase = "Seek"])
        ELSE IF work = 1 \/ work <= call.window THEN Spend(work, Sought(o, at))
        ELSE Spend(1, [o EXCEPT !.current = IF at <= Length \div 2 THEN 0 ELSE Length,
                                !.phase = "Seek"])
  /\ Quiet

Seek ==
  /\ Runs({"Seek"})
  /\ LET at == op.requested
         next == IF op.current < at THEN op.current + 1 ELSE op.current - 1
     IN IF op.current = at THEN Spend(0, Sought(op, at))
        ELSE Spend(1, IF next = at THEN Sought(op, at) ELSE [op EXCEPT !.current = next])
  /\ Quiet

(* mixed_candidate_step, unit by unit.                                     *)
Candidate ==
  /\ Runs({"Candidate"})
  /\ Spend(1,
       IF op.current < Length /\ op.current \in Seen.viable
         THEN [op EXCEPT !.start = op.current, !.phase = "Trial"]
       ELSE IF Seen.sticky \/ op.current + 1 >= Length THEN [op EXCEPT !.phase = "NoMatch"]
       ELSE [op EXCEPT !.current = @ + 1])
  /\ Quiet

(* A trial's last instruction has room for its frame: it matches or fails. *)
Conclude(o) ==
  LET trial == Seen.trial[op.start] IN
    IF trial.end = Fails THEN [o EXCEPT !.phase = "NextStart", !.frames = 0]
    ELSE [o EXCEPT !.current = trial.end, !.frames = IF trial.push THEN 1 ELSE 0,
                   !.phase = IF op.boolean THEN "Matched" ELSE "Validate"]

(* The whole match's registers after that.                                 *)
Written == IF Seen.trial[op.start].end = Fails THEN <<>> ELSE <<op.start, Seen.trial[op.start].end>>

Refused == Seen.trial[op.start].push /\ capacity < 1

(* Phase::Initialize and the instructions of one start; the last is kept   *)
(* when there is no room for its frame.                                    *)
Trial ==
  /\ Runs({"Trial"})
  /\ LET last == op.done + 1 = Seen.trial[op.start].work
         o == [op EXCEPT !.done = @ + 1]
     IN /\ Spend(1, IF ~last THEN [o EXCEPT !.current = Min({@ + 1, Length})]
                    ELSE IF Refused THEN [o EXCEPT !.phase = "Execute", !.blocked = TRUE]
                    ELSE Conclude(o))
        /\ registers' = IF op.budget = 0 THEN registers
                        ELSE IF last /\ ~Refused THEN Written
                        ELSE IF op.done = 0 THEN <<>> ELSE registers
  /\ Evaluator

Execute ==
  /\ Runs({"Execute"})
  /\ IF Refused THEN Spend(0, [op EXCEPT !.blocked = TRUE]) /\ UNCHANGED registers
                ELSE Spend(0, Conclude(op)) /\ registers' = Written
  /\ Evaluator

LastStart(at) == at = Length

NextStart ==
  /\ Runs({"NextStart"})
  /\ IF Seen.sticky THEN Spend(0, [op EXCEPT !.phase = "NoMatch"])
     ELSE Spend(1, IF LastStart(op.start) THEN [op EXCEPT !.phase = "NoMatch", !.current = op.start]
                   ELSE AtStart(op, After(Seen, op.start)))
  /\ Quiet

Validate ==
  /\ Runs({"Validate"})
  /\ Spend(2, [op EXCEPT !.phase = "Matched"])
  /\ Quiet

------------------------------------------------------------------------------
(* Fault: wherever the evaluator stands.                                   *)
PositionCurrent(o) == o.current

(* position_of.                                                            *)
PositionOf(o) ==
  IF o.phase = "Matched" THEN o.current
  ELSE IF o.started THEN o.start
  ELSE IF o.near # NONE THEN o.near
  ELSE o.current

Host == call.is = "none"
Remains == UNCHANGED <<world, layout, hint>>
Hints == {<<>>, hint}
Foreign(near) == near # <<>> /\ near.layout # layout
MarkOf(near) == IF near = <<>> THEN NONE ELSE near.mark

(* Search::new and new_near, and without_captures on what they return.     *)
New ==
  /\ Host /\ handle = "none" /\ layout # 0 /\ turns < MaxTurns
  /\ turns' = turns + 1 /\ read' = <<>>
  /\ \E start \in Starts, near \in Hints, budget \in Budgets, boolean \in BOOLEAN,
        room \in Capacities :
       IF Foreign(near)
         THEN answered' = "ChangedResources" /\ UNCHANGED <<handle, op, capacity, begun>>
         ELSE /\ handle' = "search" /\ capacity' = room
              /\ op' = [Begin(start, Length, budget, layout) EXCEPT
                          !.near = MarkOf(near), !.boolean = boolean]
              /\ begun' = [budget |-> budget, near |-> MarkOf(near), shape |-> layout]
              /\ answered' = "Ok"
  /\ UNCHANGED <<call, registers>> /\ Remains

(* Search::run: the operation runs in the views it was created in, if it   *)
(* was given anything to spend.                                            *)
Run ==
  /\ Host /\ handle = "none" /\ layout # 0 /\ turns < MaxTurns
  /\ turns' = turns + 1 /\ read' = <<>>
  /\ \E start \in Starts, near \in Hints, budget \in Budgets, quantum \in Quanta,
        boolean \in BOOLEAN, room \in Capacities :
       IF Foreign(near)
         THEN answered' = "ChangedResources" /\ UNCHANGED <<handle, op, call, capacity, begun>>
         ELSE /\ op' = [Begin(start, Length, budget, layout) EXCEPT
                          !.near = MarkOf(near), !.boolean = boolean]
              /\ begun' = [budget |-> budget, near |-> MarkOf(near), shape |-> layout]
              /\ capacity' = room
              /\ IF quantum = 0
                   THEN handle' = "search" /\ answered' = "Paused" /\ UNCHANGED call
                   ELSE /\ call' = [is |-> "run", window |-> quantum]
                        /\ UNCHANGED <<handle, answered>>
  /\ UNCHANGED registers /\ Remains

(* Fault: the views are taken for those of the last advance.               *)
Unchecked == TRUE

(* The views an advance acquires have the shape the search began with.     *)
SameShape == layout = op.shape

(* Search::advance: what is blocked or decided stays so; without views     *)
(* nothing has happened.                                                   *)
Advance ==
  /\ Host /\ handle = "search"
  /\ \E quantum \in Quanta :
       IF op.blocked THEN answered' = "Frames" /\ UNCHANGED <<op, call>>
       ELSE IF Decided(op) THEN answered' = op.phase /\ UNCHANGED <<op, call>>
       ELSE IF quantum = 0 THEN answered' = "Pending" /\ UNCHANGED <<op, call>>
       ELSE IF layout = 0 THEN answered' = "Resource" /\ UNCHANGED <<op, call>>
       ELSE IF ~SameShape THEN /\ answered' = "ChangedResources"
                               /\ op' = [op EXCEPT !.phase = "ChangedResources"]
                               /\ UNCHANGED call
       ELSE call' = [is |-> "advance", window |-> quantum] /\ UNCHANGED <<op, answered>>
  /\ UNCHANGED <<host, handle, registers, capacity, begun, read>>

(* A call ends: decided, refused for want of a frame, or out of quantum.   *)
Return ==
  /\ ~Host /\ (Decided(op) \/ op.blocked \/ call.window <= 0)
  /\ call' = Idle
  /\ LET still == IF call.is = "run" THEN "Paused" ELSE IF op.blocked THEN "Frames" ELSE "Pending"
     IN answered' = IF Decided(op) THEN op.phase ELSE still
  /\ handle' = IF call.is = "advance" \/ ~Decided(op) THEN "search"
               ELSE IF Failed(op) THEN "none" ELSE "finished"
  /\ UNCHANGED <<host, op, registers, capacity, begun, read>>

(* Search::rebuffer: the live frame, and the one asked for, must fit.      *)
Rebuffer ==
  /\ Host /\ handle = "search"
  /\ \E room \in Capacities :
       /\ room >= op.frames + (IF op.blocked THEN 1 ELSE 0)
       /\ capacity' = room
  /\ op' = [op EXCEPT !.blocked = FALSE]
  /\ UNCHANGED <<host, handle, call, registers, begun, answered, read>>

(* Fault: a decided search is cancelled like any other.                    *)
CancelsAny == TRUE

Cancels == ~Decided(op)

Cancel ==
  /\ Host /\ handle = "search" /\ Cancels
  /\ op' = [op EXCEPT !.phase = "Cancelled", !.blocked = FALSE]
  /\ UNCHANGED <<host, handle, call, registers, capacity, begun, answered, read>>

(* Search::restart_at: the same shape, scratch and budget, near where the  *)
(* search left off.                                                        *)
Restart ==
  /\ Host /\ handle = "search" /\ turns < MaxTurns
  /\ turns' = turns + 1 /\ read' = <<>>
  /\ \E start \in Starts :
       op' = [Begin(start, Job.length, op.budget, op.shape) EXCEPT
                !.near = PositionOf(op), !.boolean = op.boolean]
  /\ begun' = [budget |-> op.budget, near |-> PositionOf(op), shape |-> op.shape]
  /\ UNCHANGED <<handle, call, registers, capacity, answered>> /\ Remains

(* Fault: whatever the registers hold may be read.                         *)
ReadableAny(o) == ~o.boolean

(* require_match, of Search and of Finished.                               *)
Readable(o) == ~o.blocked /\ ~o.boolean /\ o.phase = "Matched"

Capture ==
  /\ Host /\ handle # "none"
  /\ read' = IF Readable(op) THEN registers ELSE <<>>
  /\ UNCHANGED <<host, handle, op, call, registers, capacity, begun, answered>>

Position ==
  /\ Host /\ handle # "none"
  /\ hint' = [mark |-> PositionOf(op), layout |-> op.shape]
  /\ UNCHANGED <<world, layout, turns, handle, op, call, registers, capacity, begun, answered, read>>

(* The buffers come back with whatever is in them.                         *)
IntoBuffers ==
  /\ Host /\ handle # "none"
  /\ handle' = "none" /\ read' = <<>>
  /\ UNCHANGED <<host, op, call, registers, capacity, begun, answered>>

(* The host relinks its resources, or cannot lend them.                    *)
Rebind ==
  /\ Host /\ layout' \in {0, 1, 2} \ {layout}
  /\ UNCHANGED <<world, hint, turns, handle, op, call, registers, capacity, begun, answered, read>>

Evaluate ==
  \/ Admission \/ AdmitClass \/ AdmitRange \/ Start \/ Seek \/ Candidate
  \/ Trial \/ Execute \/ NextStart \/ Validate

Next ==
  \/ Evaluate \/ New \/ Run \/ Advance \/ Return \/ Rebuffer \/ Cancel \/ Restart
  \/ Capture \/ Position \/ IntoBuffers \/ Rebind

Spec == Init /\ [][Next]_vars

------------------------------------------------------------------------------
(* What a search costs and answers once it stands at a start: the total    *)
(* over the starts still to try, in whatever pieces it is paid.            *)
Outcome(work, end, at) == [work |-> work, end |-> end, at |-> at]
Plus(work, rest) == Outcome(work + rest.work, rest.end, rest.at)
Nothing(work) == Outcome(work, Fails, Fails)

(* After a trial at s has failed; `rest` is the outcome from the place     *)
(* after it, the next character's if that place is within a pair.          *)
Failing(job, s, rest) ==
  IF job.sticky THEN Nothing(0) ELSE IF s = job.length THEN Nothing(1) ELSE Plus(1, rest)

Tried(job, boolean, s, rest) ==
  LET trial == job.trial[s] IN
    IF trial.end # Fails THEN Outcome(trial.work + (IF boolean THEN 0 ELSE 2), trial.end, s)
    ELSE Plus(trial.work, Failing(job, s, rest))

Come(job, boolean, s, rest) ==
  IF s \in job.inside THEN rest
  ELSE IF ~job.scans THEN Tried(job, boolean, s, rest)
  ELSE IF s < job.length /\ s \in job.viable THEN Plus(1, Tried(job, boolean, s, rest))
  ELSE IF job.sticky \/ s + 1 >= job.length THEN Nothing(1)
  ELSE Plus(1, rest)

FromStart(job, boolean) ==
  LET from[s \in 0 .. job.length] == Come(job, boolean, s, from[s + 1]) IN from

(* The nearer of both ends and the position given.                         *)
Walk(job, start, near) ==
  Min({SeekWork(job, start)} \cup (IF near = NONE THEN {} ELSE {Distance(near, start) + 1}))

(* The characters before a place.                                          *)
Reads(job, at) == Cardinality(0 .. at - 1 \ job.inside)

Whole(job, start, near, boolean) ==
  IF start > job.length THEN Nothing(0)
  ELSE IF job.admits = job.length THEN Nothing(2 * Reads(job, job.length))
  ELSE Plus((IF job.admits = NoScan THEN 0 ELSE 2 * (Reads(job, job.admits) + 1)) + Walk(job, start, near),
            FromStart(job, boolean)[Aligned(job, start)])

(* What the search in hand has to cost and answer.                         *)
Right == Whole(world[begun.shape], op.requested, begun.near, op.boolean)
Spent == begun.budget - op.budget

------------------------------------------------------------------------------
(* The state is well typed, and every place in it lies in its subject.     *)
Phases ==
  {"Admission", "AdmitClass", "AdmitRange", "Start", "Seek", "Candidate", "Trial", "Execute",
   "NextStart", "Validate", "Matched", "NoMatch", "WorkLimit", "ChangedResources", "Cancelled"}
Operations(length) ==
  [phase : Phases, done : Nat, requested : Nat, start : 0 .. length, current : 0 .. length,
   near : {NONE} \cup 0 .. length, started : BOOLEAN, blocked : BOOLEAN, boolean : BOOLEAN,
   frames : {0, 1}, budget : Nat, shape : {1, 2}]

TypeOK ==
  /\ world \in Worlds /\ layout \in 0 .. 2 /\ turns \in Nat /\ capacity \in Nat
  /\ handle \in {"none", "search", "finished"}
  /\ call \in [is : {"none", "run", "advance"}, window : Int]
  /\ op.shape \in {1, 2} /\ op \in Operations(Job.length)
  /\ begun \in [budget : Nat, near : {NONE} \cup 0 .. Job.length, shape : {op.shape}]
  /\ hint = <<>> \/ \E shape \in {1, 2} : hint \in [mark : 0 .. world[shape].length, layout : {shape}]

(* However a search was begun (new, near a position, run, restarted), and  *)
(* whatever the host called and lent in between, it spends what one        *)
(* uninterrupted search of its own subject spends, and answers that.  It   *)
(* runs out of work exactly when it was given less.                        *)
WorkIsExact ==
  /\ op.phase = "Matched" => Right.end # Fails /\ op.current = Right.end
  /\ op.phase = "NoMatch" => Right.end = Fails
  /\ op.phase \in {"Matched", "NoMatch"} => Spent = Right.work
  /\ op.phase = "WorkLimit" => op.budget = 0 /\ begun.budget < Right.work
  /\ ~Failed(op) => Spent <= Right.work

(* A position given is never dearer than none (docs/resumption.md).        *)
NearNeverDearer ==
  op.phase \in {"Matched", "NoMatch"} =>
    Spent <= Whole(Job, op.requested, NONE, op.boolean).work

(* Matched, not matched, cancelled, out of work or on changed resources, a *)
(* search stays so until it is begun again: no call revives it, and        *)
(* advancing it reports the same.                                          *)
OutcomeKept ==
  [][Decided(op) /\ turns' = turns =>
       op'.phase = op.phase /\ (answered' # answered => answered' = op.phase)]_vars

(* A capture is only ever read of the match this very search has found,    *)
(* never of an earlier one whose registers are still in the buffers.       *)
CapturesOfThisMatch == read # <<>> => op.phase = "Matched" /\ read = <<Right.at, Right.end>>

(* A loop may go on from the position of a search that has come to a start *)
(* and not matched, whatever has interrupted it: a search from there finds *)
(* what one from the requested start finds.  A sticky search has not left  *)
(* the character it was asked for.                                         *)
PositionTells ==
  op.started /\ op.phase # "Matched" =>
    LET rest == FromStart(Job, op.boolean)[PositionOf(op)] IN
      /\ rest.end = Right.end /\ rest.at = Right.at
      /\ Job.sticky => PositionOf(op) = Aligned(Job, op.requested)

(* "the start of the last attempt it made, which for a sticky search is    *)
(* its requested start" (Search::position).                                *)
PositionAsRequested ==
  Job.sticky /\ op.started /\ op.phase # "Matched" => PositionOf(op) = op.requested

(* "before it has reached a start, the position it was given to start      *)
(* near, or the subject's beginning" (Search::position).                   *)
PositionAsDocumented ==
  handle = "search" /\ Host /\ ~op.started /\ op.phase # "Matched" =>
    PositionOf(op) = (IF begun.near = NONE THEN 0 ELSE begun.near)

(* "continues exactly as Search::new_near ... followed by advance would    *)
(* have" (docs/resumption.md): it is paused only where advance would say   *)
(* that there is more to do.                                               *)
RunAgrees == answered = "Paused" => ~Decided(op)
==============================================================================
