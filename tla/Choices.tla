------------------------------- MODULE Choices -------------------------------
(***************************************************************************)
(* What chronological backtracking promises a pattern: a choice point is a *)
(* copy of everything the matcher knew when it was made, and failing goes  *)
(* back to the youngest copy.  There is no trail here, no capacity and no  *)
(* pause; Trail.tla shows the evaluator of src/executor.rs, which keeps    *)
(* none of these copies, to implement this.                                *)
(***************************************************************************)
EXTENDS Naturals, Sequences

CONSTANTS
  Slots,     (* Register slots: two per capture, two per repeat.          *)
  Captures,  (* The slots a trial starts from cleared.                    *)
  Values,    (* What a store may write: subject offsets and counts.       *)
  UNSET,     (* The value of a cleared register.                          *)
  Points     (* What a frame holds directly: pc, position and direction.  *)

Contents == Values \cup {UNSET}

VARIABLES
  regs,      (* The register file.                                        *)
  point,     (* Where matching stands.                                    *)
  stack,     (* The choice points, oldest first, each with its own copy.  *)
  status     (* Trial, Fail, NextStart, Matched, NoMatch or Failed.       *)

vars == <<regs, point, stack, status>>

Kinds == {"choice", "positive", "negative"}
Ended == {"Matched", "NoMatch", "Failed"}

(* Between trials the registers mean nothing; nobody may read them.       *)
Blank == [s \in Slots |-> UNSET]

(* The youngest assertion still being tried, zero when there is none.     *)
Open ==
  IF \E i \in DOMAIN stack : stack[i].kind # "choice"
    THEN CHOOSE i \in DOMAIN stack :
           /\ stack[i].kind # "choice"
           /\ \A j \in i + 1 .. Len(stack) : stack[j].kind = "choice"
    ELSE 0

Init ==
  /\ regs = Blank
  /\ point \in Points
  /\ stack = <<>>
  /\ status = "NextStart"

(* A start position is tried: captures are clear or, where the pattern     *)
(* opens with them, already hold the start; the other slots hold whatever  *)
(* an earlier trial left, and no choice is left.                           *)
Begin ==
  /\ status = "NextStart"
  /\ regs' \in [Slots -> Contents]
  /\ \E start \in Contents : \A s \in Captures : regs'[s] \in {UNSET, start}
  /\ stack' = <<>>
  /\ status' = "Trial"
  /\ point' \in Points

Exhausted ==
  /\ status = "NextStart"
  /\ status' = "NoMatch"
  /\ UNCHANGED <<regs, point, stack>>

Move ==
  /\ status = "Trial"
  /\ point' \in Points
  /\ UNCHANGED <<regs, stack, status>>

Store(slot, value) ==
  /\ status = "Trial"
  /\ regs' = [regs EXCEPT ![slot] = value]
  /\ UNCHANGED <<point, stack, status>>

Push(kind, at) ==
  /\ status = "Trial"
  /\ stack' = Append(stack, [kind |-> kind, point |-> at, regs |-> regs])
  /\ UNCHANGED <<regs, point, status>>

(* An assertion body has matched: the choices inside it are gone.  What a  *)
(* positive assertion captured stays; a negative one fails with nothing    *)
(* of its body left.                                                       *)
Close ==
  /\ status = "Trial"
  /\ Open # 0
  /\ stack' = SubSeq(stack, 1, Open - 1)
  /\ point' = stack[Open].point
  /\ IF stack[Open].kind = "positive"
       THEN UNCHANGED <<regs, status>>
       ELSE regs' = stack[Open].regs /\ status' = "Fail"

Reject ==
  /\ status = "Trial"
  /\ status' = "Fail"
  /\ UNCHANGED <<regs, point, stack>>

Accept ==
  /\ status = "Trial"
  /\ Open = 0
  /\ status' = "Matched"
  /\ UNCHANGED <<regs, point, stack>>

(* Go back to the youngest choice.  A positive assertion whose body has    *)
(* run out of choices fails in turn; a negative one has succeeded.         *)
Backtrack ==
  /\ status = "Fail"
  /\ stack # <<>>
  /\ LET top == stack[Len(stack)] IN
       /\ regs' = top.regs
       /\ point' = top.point
       /\ stack' = SubSeq(stack, 1, Len(stack) - 1)
       /\ status' = IF top.kind = "positive" THEN "Fail" ELSE "Trial"

GiveUp ==
  /\ status = "Fail"
  /\ stack = <<>>
  /\ status' = "NextStart"
  /\ regs' = Blank
  /\ UNCHANGED <<point, stack>>

(* The search ends with an error: no work left, cancelled, bad program.   *)
Abort ==
  /\ status \notin Ended
  /\ status' = "Failed"
  /\ regs' = Blank
  /\ UNCHANGED <<point, stack>>

Restart ==
  /\ status' = "NextStart"
  /\ stack' = <<>>
  /\ regs' = Blank
  /\ UNCHANGED point

Next ==
  \/ Begin \/ Exhausted \/ Move \/ Close \/ Reject \/ Accept
  \/ Backtrack \/ GiveUp \/ Abort \/ Restart
  \/ \E slot \in Slots, value \in Contents : Store(slot, value)
  \/ \E kind \in Kinds, at \in Points : Push(kind, at)

Spec == Init /\ [][Next]_vars
==============================================================================
