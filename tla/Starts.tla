-------------------------------- MODULE Starts --------------------------------
(***************************************************************************)
(* What a compiled program claims about where its matches can begin, beyond *)
(* the claims of Emission: its first character (program word 7), the bytes *)
(* every match begins with (word 9; program.rs) and the condition every    *)
(* match contains (compiler/admission.rs).  Characters below 128, no flags.*)
(* The limits of the source's walks (32 characters, 8 arms, 128            *)
(* instructions) are not reached by the patterns of the runs.              *)
(***************************************************************************)
EXTENDS Emission

ADMISSION_MAX == 32

(* The instructions from pc on that are characters.                        *)
RECURSIVE LiteralRun(_, _)
LiteralRun(code, pc) ==
  IF pc \in DOMAIN code /\ code[pc].op = "CHAR" THEN <<code[pc].a>> \o LiteralRun(code, pc + 1)
  ELSE <<>>

(* The alternatives a chain of branches leads to, first to last.           *)
RECURSIVE Arms(_, _)
Arms(code, pc) ==
  CASE code[pc].op = "SPLIT" -> Arms(code, code[pc].a) \o Arms(code, code[pc].b)
    [] code[pc].op = "BRANCH" -> Arms(code, pc + 1) \o Arms(code, code[pc].b)
    [] OTHER -> <<pc>>

(* The instructions alternation_matches visits while nothing matches: each *)
(* alternative by its characters, a branch without any.                    *)
RECURSIVE Entered(_, _)
Entered(code, pc) ==
  CASE code[pc].op = "SPLIT" -> << <<>> >> \o Entered(code, code[pc].a) \o Entered(code, code[pc].b)
    [] code[pc].op = "BRANCH" -> << <<>> >> \o Entered(code, pc + 1) \o Entered(code, code[pc].b)
    [] OTHER -> <<LiteralRun(code, pc)>>

(* derive_alternation: every arm of the entry begins with two characters.  *)
Alternation(code) ==
  LET arms == Arms(code, LeadingPc(code, 1)) IN
    Len(arms) > 1 /\ \A k \in DOMAIN arms : Len(LiteralRun(code, arms[k])) >= 2

(* derive_leading: the runs a match begins with one of, none if unknown.   *)
Leading(code) ==
  LET entry == LeadingPc(code, 1)
      run == LiteralRun(code, entry)
      arms == Arms(code, entry)
  IN IF Len(run) >= 2 THEN <<run>>
     ELSE IF Alternation(code) THEN [k \in DOMAIN arms |-> LiteralRun(code, arms[k])]
     ELSE <<>>

(* prefix, literal_pairs, branch_pairs: the first two bytes of each.       *)
Pairs(runs) == {SubSeq(runs[k], 1, 2) : k \in DOMAIN runs}

------------------------------------------------------------------------------
(* A condition: the run of characters, or the class, at an instruction.    *)
(* A lower score is a better condition.  `reverse` code holds a run        *)
(* backwards; `text` is the run as the subject holds it.                   *)
Condition(score, text, ranges, pc, reverse) ==
  <<[score |-> score, text |-> text, ranges |-> ranges, pc |-> pc,
     reverse |-> reverse, asserted |-> FALSE]>>

RunCondition(code, pc, reverse) ==
  LET run == LiteralRun(code, pc) IN
    Condition(ADMISSION_MAX - Len(run), IF reverse THEN Reverse(run) ELSE run, <<>>, pc, reverse)

ClassSize(ranges) == FoldSeq(LAMBDA r, sum : sum + r[2] - r[1] + 1, 0, ranges)

RECURSIVE Lexical(_, _)
Lexical(x, y) ==
  CASE x = <<>> /\ y = <<>> -> 0
    [] x = <<>> -> -1
    [] y = <<>> -> 1
    [] Head(x) < Head(y) -> -1
    [] Head(x) > Head(y) -> 1
    [] OTHER -> Lexical(Tail(x), Tail(y))

(* compare_admission: by score, then by what is asked of the subject.      *)
Ordering(x, y) ==
  CASE x.score # y.score -> IF x.score < y.score THEN -1 ELSE 1
    [] x.text # y.text -> Lexical(x.text, y.text)
    [] Len(x.ranges) # Len(y.ranges) -> IF Len(x.ranges) < Len(y.ranges) THEN -1 ELSE 1
    [] OTHER -> Lexical(FlattenSeq(x.ranges), FlattenSeq(y.ranges))

(* What a positive assertion asks for may lie before the match.            *)
Asserted(found) == IF found = <<>> THEN <<>> ELSE <<[found[1] EXCEPT !.asserted = TRUE]>>

(* Both arms of an alternative ask for the same thing.                     *)
OfBothArms(x, y) ==
  IF x # <<>> /\ y # <<>> /\ Ordering(x[1], y[1]) = 0
    THEN <<[x[1] EXCEPT !.asserted = @ \/ y[1].asserted]>> ELSE <<>>

(* Of two necessary conditions, the better; of equal runs the later one.   *)
Better(x, y) ==
  LET later == IF x[1].text # <<>> /\ y[1].text # <<>> THEN x[1].score >= y[1].score
               ELSE Ordering(x[1], y[1]) > 0
  IN IF x = <<>> THEN y ELSE IF y = <<>> THEN x ELSE IF later THEN y ELSE x

(* Prepared::admission: what every match of the code of a node contains.   *)
RECURSIVE Conditions(_, _, _, _), ArmConditions(_, _, _, _)

(* Every arm but the last is behind a branch, as EmitArms lays them out.   *)
ArmConditions(arms, pc, reverse, code) ==
  LET of == [k \in DOMAIN arms |->
               Conditions(arms[k],
                 pc + FoldSeq(LAMBDA arm, sum : sum + Size(arm) + 2, 0, SubSeq(arms, 1, k - 1))
                    + (IF k < Len(arms) THEN 1 ELSE 0), reverse, code)]
  IN FoldLeft(OfBothArms, of[1], Tail(of))

Conditions(n, pc, reverse, code) ==
  CASE n.kind = "CHAR" -> RunCondition(code, pc, reverse)
    [] n.kind = "CLASS" /\ ~n.b /\ ClassSize(n.a) <= 256 ->
         Condition(ADMISSION_MAX + ClassSize(n.a), <<>>, n.a, pc, reverse)
    [] n.kind = "WRAP" -> Conditions(n.child, pc, reverse, code)
    [] n.kind = "GROUP" -> Conditions(n.child, pc + 1, reverse, code)
    [] n.kind = "REPEAT" /\ n.min > 0 -> Conditions(n.child, pc + 3, reverse, code)
    [] n.kind = "ASSERT" /\ ~n.negative -> Asserted(Conditions(n.child, pc + 1, n.behind, code))
    [] n.kind = "SEQ" ->
         LET split == pc + Size(IF reverse THEN n.right ELSE n.left) IN
           Better(Conditions(n.left, IF reverse THEN split ELSE pc, reverse, code),
                  Conditions(n.right, IF reverse THEN pc ELSE split, reverse, code))
    [] n.kind = "ALT" -> ArmConditions(Spine(n), pc, reverse, code)
    [] OTHER -> <<>>

------------------------------------------------------------------------------
(* A program with the claims above.  `required` is the condition a search  *)
(* checks, `forward` whether every match holds it at or after its start:   *)
(* a run that no assertion asks for.  Only a program that repeats          *)
(* something is given a condition.                                         *)
Claiming(program, ast, runs, required) ==
  program @@
  [first |-> Claim(First(ast)), runs |-> runs, pairs |-> Pairs(runs), required |-> required,
   leading_pc |-> LeadingPc(program.code, 1), entry |-> Entered(program.code, LeadingPc(program.code, 1)),
   forward |-> required # <<>> /\ required[1].text # <<>> /\ ~required[1].asserted]

Searched(pattern, captures, sticky) ==
  LET program == Program(pattern, captures, sticky)
      ast == Parsed(pattern)
      required == IF program.repeats = 0 THEN <<>> ELSE Conditions(ast, 2, FALSE, program.code)
  IN Claiming(program, ast, Leading(program.code), required)
==============================================================================
