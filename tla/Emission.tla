------------------------------ MODULE Emission ------------------------------
(***************************************************************************)
(* What the compiler makes of a parsed pattern: the layout of its control  *)
(* instructions (compiler/prepared.rs), the merge of nested repeats        *)
(* (compiler/repetition.rs) and the claims about a program it derives for  *)
(* the search (program.rs, compiler/candidate.rs).  Characters are UTF-16  *)
(* units below 128 of a pattern without the u, v and i flags.              *)
(*                                                                         *)
(* The operators are recursive over the syntax tree; the arena the source  *)
(* walks backwards, and the limits of its scans (32 instructions, 8 paths, *)
(* 64 entry instructions), are not reached by the patterns of the runs.    *)
(* Addresses are one above the source's.                                   *)
(***************************************************************************)
EXTENDS Integers, Sequences, FiniteSets, SequencesExt

------------------------------------------------------------------------------
(* Syntax trees (Parser::leaf, join, atom), before quantifiers are merged. *)
Leaf(kind, a, b) == [kind |-> kind, a |-> a, b |-> b]
Join(kind, left, right) == [kind |-> kind, left |-> left, right |-> right]
Wrap(child) == [kind |-> "WRAP", child |-> child]
Group(index, child) == [kind |-> "GROUP", index |-> index, child |-> child]
Look(negative, behind, child) ==
  [kind |-> "ASSERT", negative |-> negative, behind |-> behind, child |-> child]
Repeat(child, min, max, infinite, lazy) ==
  [kind |-> "REPEAT", child |-> child, min |-> min, max |-> max,
   infinite |-> infinite, lazy |-> lazy]

Consuming == {"CHAR", "ANY", "ANY_S", "CLASS"}
Single == Consuming \cup {"START", "START_M", "END", "END_M", "WORD", "BACKREF", "NAMED"}

RECURSIVE Unwrapped(_)
Unwrapped(n) == IF n.kind = "WRAP" THEN Unwrapped(n.child) ELSE n

(* The wrappers stay in the tree around what replaces their contents.      *)
RECURSIVE Rewrapped(_, _)
Rewrapped(n, inside) ==
  IF n.kind = "WRAP" THEN Wrap(Rewrapped(n.child, inside)) ELSE inside

(* Fault: the bounds of a nested repeat are merged whatever its minimum.   *)
InnerAny(n) ==
  CASE n.kind = "REPEAT" /\ ~n.lazy -> <<n>>
    [] n.kind = "ALT" /\ Unwrapped(n.right).kind = "EMPTY" ->
         <<Repeat(n.left, 0, 1, FALSE, FALSE)>>
    [] OTHER -> <<>>

(* A greedy repeat whose minimum is at most one, or an optional arm, as    *)
(* the repeat it is when it is repeated greedily; <<>> when it is neither. *)
Inner(n) ==
  CASE n.kind = "REPEAT" /\ ~n.lazy /\ n.min <= 1 -> <<n>>
    [] n.kind = "ALT" /\ Unwrapped(n.right).kind = "EMPTY" ->
         <<Repeat(n.left, 0, 1, FALSE, FALSE)>>
    [] OTHER -> <<>>

(* Parser::merge_repetition: bounds multiply, unboundedness is inherited   *)
(* unless one of the two repeats nothing at all.                           *)
Merged(outer, inner) ==
  LET empty == (~outer.infinite /\ outer.max = 0) \/ (~inner.infinite /\ inner.max = 0)
      infinite == ~empty /\ (outer.infinite \/ inner.infinite)
  IN Repeat(inner.child, outer.min * inner.min,
            IF empty \/ infinite THEN 0 ELSE outer.max * inner.max, infinite, FALSE)

Quantified(child, min, max, infinite, lazy) ==
  LET outer == Repeat(child, min, max, infinite, lazy)
      inner == Inner(Unwrapped(child))
  IN IF ~lazy /\ inner # <<>> /\ Unwrapped(inner[1].child).kind \in Consuming
       THEN Rewrapped(child, Merged(outer, inner[1]))
       ELSE outer

(* What the parser makes of a pattern, each quantifier as it is read.      *)
RECURSIVE Parsed(_)
Parsed(n) ==
  CASE n.kind = "REPEAT" -> Quantified(Parsed(n.child), n.min, n.max, n.infinite, n.lazy)
    [] n.kind \in {"WRAP", "GROUP", "ASSERT"} -> [n EXCEPT !.child = Parsed(@)]
    [] n.kind \in {"SEQ", "ALT"} -> [n EXCEPT !.left = Parsed(@), !.right = Parsed(@)]
    [] OTHER -> n

------------------------------------------------------------------------------
RECURSIVE Size(_), Opens(_), Repeats(_)

(* Node::len, the instructions a node takes.                               *)
Size(n) ==
  CASE n.kind = "EMPTY" -> 0
    [] n.kind \in Single -> 1
    [] n.kind = "WRAP" -> Size(n.child)
    [] n.kind = "SEQ" -> Size(n.left) + Size(n.right)
    [] n.kind = "ALT" -> Size(n.left) + Size(n.right) + 2
    [] n.kind \in {"GROUP", "ASSERT"} -> Size(n.child) + 2
    [] n.kind = "REPEAT" -> Size(n.child) + 4

(* Node::first to Node::end: the captures opened inside a node.            *)
Opens(n) ==
  CASE n.kind \in {"WRAP", "ASSERT", "REPEAT"} -> Opens(n.child)
    [] n.kind = "GROUP" -> {n.index} \cup Opens(n.child)
    [] n.kind \in {"SEQ", "ALT"} -> Opens(n.left) \cup Opens(n.right)
    [] OTHER -> {}

(* Repeat records a node takes; they only name register pairs.             *)
Repeats(n) ==
  CASE n.kind \in {"WRAP", "ASSERT", "GROUP"} -> Repeats(n.child)
    [] n.kind = "REPEAT" -> 1 + Repeats(n.child)
    [] n.kind \in {"SEQ", "ALT"} -> Repeats(n.left) + Repeats(n.right)
    [] OTHER -> 0

(* `a|b|c` parses as `(a|b)|c`: the alternatives of the left spine.        *)
RECURSIVE Spine(_)
Spine(n) == IF n.kind = "ALT" THEN Append(Spine(n.left), n.right) ELSE <<n>>

Instr(op, a, b) == [op |-> op, a |-> a, b |-> b]

(* A repeat record, with the pair of registers that is its own.            *)
RepeatRecord(n, pc, id) ==
  [min |-> n.min, max |-> n.max, infinite |-> n.infinite, lazy |-> n.lazy,
   body |-> pc + 2, exit |-> pc + Size(n), clear |-> Opens(n.child), id |-> id]

(* The entry of a repeat of one consuming character is rewritten.          *)
EntryOf(n) ==
  IF Size(n.child) = 1 /\ Opens(n.child) = {} /\ Unwrapped(n.child).kind \in Consuming
    THEN "ATOM_REPEAT" ELSE "REPEAT_INIT"

RECURSIVE Emit(_, _, _, _), EmitArms(_, _, _, _, _)

(* Prepared::emit_into: each alternative but the last behind a SPLIT.      *)
EmitArms(arms, pc, end, reverse, id) ==
  IF Len(arms) = 1 THEN Emit(arms[1], pc, reverse, id)
  ELSE LET next == pc + Size(arms[1]) + 2 IN
         <<Instr("SPLIT", pc + 1, next)>>
         \o Emit(arms[1], pc + 1, reverse, id)
         \o <<Instr("JUMP", end, 0)>>
         \o EmitArms(Tail(arms), next, end, reverse, id + Repeats(arms[1]))

(* Fault: a group read backwards still writes its start first.             *)
SaveForward(index, reverse) == <<2 * index, 2 * index + 1>>

(* The slots a group writes as it is entered and left.                     *)
SaveSlots(index, reverse) ==
  IF reverse THEN <<2 * index + 1, 2 * index>> ELSE <<2 * index, 2 * index + 1>>

Emit(n, pc, reverse, id) ==
  CASE n.kind = "EMPTY" -> <<>>
    [] n.kind \in Single -> <<Instr(n.kind, n.a, n.b)>>
    [] n.kind = "WRAP" -> Emit(n.child, pc, reverse, id)
    [] n.kind = "SEQ" ->
         LET first == IF reverse THEN n.right ELSE n.left
             second == IF reverse THEN n.left ELSE n.right
         IN Emit(first, pc, reverse, id)
            \o Emit(second, pc + Size(first), reverse, id + Repeats(first))
    [] n.kind = "ALT" -> EmitArms(Spine(n), pc, pc + Size(n), reverse, id)
    [] n.kind = "GROUP" ->
         LET slots == SaveSlots(n.index, reverse) IN
           <<Instr("SAVE", slots[1], 0)>> \o Emit(n.child, pc + 1, reverse, id)
           \o <<Instr("SAVE", slots[2], 0)>>
    [] n.kind = "ASSERT" ->
         <<Instr("ASSERT", pc + Size(n), [negative |-> n.negative, behind |-> n.behind])>>
         \o Emit(n.child, pc + 1, n.behind, id) \o <<Instr("ASSERT_END", 0, 0)>>
    [] n.kind = "REPEAT" ->
         LET r == RepeatRecord(n, pc, id) IN
           <<Instr(EntryOf(n), r, 0), Instr("REPEAT_CHOICE", r, 0), Instr("REPEAT_BODY", r, 0)>>
           \o Emit(n.child, pc + 3, reverse, id + 1) \o <<Instr("REPEAT_NEXT", r, 0)>>

------------------------------------------------------------------------------
(* first_bucket and the mask of every character.                           *)
Bucket(c) == (c % 32) % 24
AllFirst == 0 .. 31

(* Fault: an arm that may consume nothing is taken to need its next char.  *)
PassedOverToo == {"SAVE", "START", "START_M", "END", "END_M", "WORD", "BACKREF"}

(* Instructions that consume nothing and are looked past.                  *)
PassedOver == {"SAVE", "START", "START_M", "END", "END_M", "WORD"}

(* derive_first_mask: the buckets of the first character any successful    *)
(* path from pc consumes, everything where a path leaves what is followed. *)
RECURSIVE FirstMask(_, _)
FirstMask(code, pc) ==
  LET i == code[pc] IN
    CASE i.op = "SPLIT" -> FirstMask(code, i.a) \cup FirstMask(code, i.b)
      [] i.op \in PassedOver -> FirstMask(code, pc + 1)
      [] i.op = "JUMP" -> FirstMask(code, i.a)
      [] i.op = "CHAR" -> {Bucket(i.a)}
      [] i.op = "CLASS" /\ ~i.b ->
           UNION {{Bucket(c) : c \in i.a[k][1] .. i.a[k][2]} : k \in DOMAIN i.a}
      [] OTHER -> AllFirst

(* A SPLIT whose first arm has a known first set becomes a BRANCH.         *)
Branched(code) ==
  [pc \in DOMAIN code |->
     IF code[pc].op = "SPLIT" /\ FirstMask(code, pc + 1) # AllFirst
       THEN Instr("BRANCH", FirstMask(code, pc + 1), code[pc].b)
       ELSE code[pc]]

(* leading_pc: the first instruction after the entry SAVEs.                *)
RECURSIVE LeadingPc(_, _)
LeadingPc(code, pc) == IF code[pc].op = "SAVE" THEN LeadingPc(code, pc + 1) ELSE pc

(* derive_start_anchored: every path from the entry reaches `^` first.     *)
RECURSIVE AnchoredFrom(_, _)
AnchoredFrom(code, pc) ==
  CASE code[pc].op = "SAVE" -> AnchoredFrom(code, pc + 1)
    [] code[pc].op = "START" -> TRUE
    [] code[pc].op = "SPLIT" -> AnchoredFrom(code, code[pc].a) /\ AnchoredFrom(code, code[pc].b)
    [] code[pc].op = "BRANCH" -> AnchoredFrom(code, pc + 1) /\ AnchoredFrom(code, code[pc].b)
    [] OTHER -> FALSE

(* Fault: what follows the run may ask what was captured in it.            *)
RunSkipAnyway(code) ==
  LET entry == LeadingPc(code, 1) IN
    IF code[entry].op = "ATOM_REPEAT" /\ code[entry].a.infinite THEN entry ELSE 0

(* derive_run_skip: the leading unbounded repeat of one character, of a    *)
(* program without backreferences; zero is no claim.                       *)
RunSkip(code) ==
  LET entry == LeadingPc(code, 1) IN
    IF /\ code[entry].op = "ATOM_REPEAT"
       /\ code[entry].a.infinite
       /\ \A pc \in DOMAIN code : code[pc].op \notin {"BACKREF", "NAMED"}
      THEN entry ELSE 0

------------------------------------------------------------------------------
(* compiler/candidate.rs: ranges of ASCII characters a match begins and    *)
(* ends with.  An empty range has its ends crossed, as First::EMPTY.       *)
RangeOf(members, nullable) ==
  LET ascii == members \cap 0..127
  IN [lo |-> IF ascii = {} THEN 128 ELSE Min(ascii),
      hi |-> IF ascii = {} THEN 0 ELSE Max(ascii), nullable |-> nullable]

Either(x, y) == [lo |-> Min({x.lo, y.lo}), hi |-> Max({x.hi, y.hi}),
                 nullable |-> x.nullable \/ y.nullable]

ClassMembers(ranges, negated) ==
  LET inside == UNION {ranges[k][1] .. ranges[k][2] : k \in DOMAIN ranges}
  IN IF negated THEN 0 .. 127 \ inside ELSE inside

RECURSIVE First(_), LastRange(_), Consumes(_), EndAnchored(_), MaxUnits(_)

First(n) ==
  CASE n.kind = "CHAR" -> RangeOf({n.a}, FALSE)
    [] n.kind \in {"ANY", "ANY_S"} -> RangeOf(0 .. 127, FALSE)
    [] n.kind = "CLASS" -> RangeOf(ClassMembers(n.a, n.b), FALSE)
    [] n.kind \in {"GROUP", "WRAP"} -> First(n.child)
    [] n.kind = "REPEAT" -> [First(n.child) EXCEPT !.nullable = @ \/ n.min = 0]
    [] n.kind = "ALT" -> Either(First(n.left), First(n.right))
    [] n.kind = "SEQ" ->
         IF First(n.left).nullable
           THEN [Either(First(n.left), First(n.right)) EXCEPT !.nullable = First(n.right).nullable]
           ELSE First(n.left)
    [] n.kind \in {"BACKREF", "NAMED"} -> RangeOf(0 .. 127, TRUE)
    [] OTHER -> RangeOf({}, TRUE)

(* Fault: only the last item is asked what a match may end with.           *)
LastRangeStrict(n) ==
  CASE n.kind \in {"GROUP", "WRAP", "REPEAT"} -> LastRange(n.child)
    [] n.kind = "ALT" -> Either(LastRange(n.left), LastRange(n.right))
    [] n.kind = "SEQ" -> LastRange(n.right)
    [] OTHER -> First(n)

LastRange(n) ==
  CASE n.kind \in {"GROUP", "WRAP", "REPEAT"} -> LastRange(n.child)
    [] n.kind = "ALT" -> Either(LastRange(n.left), LastRange(n.right))
    [] n.kind = "SEQ" ->
         IF First(n.right).nullable THEN Either(LastRange(n.left), LastRange(n.right))
                                    ELSE LastRange(n.right)
    [] OTHER -> First(n)

Consumes(n) ==
  CASE n.kind \in {"GROUP", "WRAP", "REPEAT"} -> Consumes(n.child)
    [] n.kind \in {"SEQ", "ALT"} -> Consumes(n.left) \/ Consumes(n.right)
    [] OTHER -> n.kind \in Consuming \cup {"BACKREF", "NAMED"}

(* Fault: an end assertion that may be passed over is trusted.             *)
EndAnchoredPassed(n) ==
  CASE n.kind \in {"GROUP", "WRAP", "REPEAT"} -> EndAnchored(n.child)
    [] n.kind = "ALT" -> EndAnchored(n.left) /\ EndAnchored(n.right)
    [] n.kind = "SEQ" -> EndAnchored(n.right) \/ (EndAnchored(n.left) /\ ~Consumes(n.right))
    [] OTHER -> n.kind = "END"

(* Whether every match ends where the subject does.                        *)
EndAnchored(n) ==
  CASE n.kind \in {"GROUP", "WRAP"} -> EndAnchored(n.child)
    [] n.kind = "REPEAT" -> EndAnchored(n.child) /\ n.min # 0
    [] n.kind = "ALT" -> EndAnchored(n.left) /\ EndAnchored(n.right)
    [] n.kind = "SEQ" -> EndAnchored(n.right) \/ (EndAnchored(n.left) /\ ~Consumes(n.right))
    [] OTHER -> n.kind = "END"

(* The longest match in UTF-16 units; Unbounded for a repeat or backref.   *)
Unbounded == 1000
MaxUnits(n) ==
  CASE n.kind = "CHAR" -> 1
    [] n.kind \in Consuming \ {"CHAR"} -> 2
    [] n.kind \in {"GROUP", "WRAP"} -> MaxUnits(n.child)
    [] n.kind = "SEQ" -> Min({MaxUnits(n.left) + MaxUnits(n.right), Unbounded})
    [] n.kind = "ALT" -> Max({MaxUnits(n.left), MaxUnits(n.right)})
    [] n.kind \in {"REPEAT", "BACKREF", "NAMED"} -> Unbounded
    [] OTHER -> 0

(* range_descriptor: nothing is claimed for a match that may be empty or   *)
(* may hold anything there.                                                *)
Claim(range) == [range EXCEPT !.nullable = @ \/ (range.lo = 0 /\ range.hi = 127)]

------------------------------------------------------------------------------
(* Prepared::emit_into and the header words a search reads: `last` and     *)
(* `bound` are word 8, `anchored` and `runSkip` flags of words 7 and 9.    *)
Program(pattern, captures, sticky) ==
  LET ast == Parsed(pattern)
      code == <<Instr("SAVE", 0, 0)>> \o Emit(ast, 2, FALSE, 0)
              \o <<Instr("SAVE", 1, 0), Instr("MATCH", 0, 0)>>
      final == Branched(code)
      nothing == RangeOf({}, TRUE)
  IN [pattern |-> pattern, code |-> final, captures |-> captures, repeats |-> Repeats(ast),
      sticky |-> sticky, anchored |-> AnchoredFrom(final, 1), runSkip |-> RunSkip(final),
      last |-> IF EndAnchored(ast)
                 THEN Claim([LastRange(ast) EXCEPT !.nullable = First(ast).nullable])
                 ELSE nothing,
      bound |-> IF EndAnchored(ast) THEN MaxUnits(ast) ELSE Unbounded]
==============================================================================
