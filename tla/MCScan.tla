-------------------------------- MODULE MCScan --------------------------------
(***************************************************************************)
(* Searches for starts in small subjects, with chunks so small that every  *)
(* scan takes several, for programs with each kind of claim.               *)
(***************************************************************************)
EXTENDS Scan

CONSTANT Longest

S == INSTANCE Starts
E == INSTANCE Emission
M == INSTANCE Ecma

a == E!Leaf("CHAR", 97, 0)
b == E!Leaf("CHAR", 98, 0)
y == E!Leaf("CHAR", 121, 0)
accented == E!Leaf("CHAR", 233, 0)
class_ab == E!Leaf("CLASS", <<<<97, 97>>, <<98, 98>>>>, FALSE)
class_by == E!Leaf("CLASS", <<<<98, 98>>, <<121, 121>>>>, FALSE)
ay == E!Leaf("CLASS", <<<<97, 98>>>>, FALSE)
beyond == E!Leaf("CLASS", <<<<233, 233>>, <<8232, 8232>>>>, FALSE)
any == E!Leaf("ANY", 0, 0)
bol == E!Leaf("START", 0, 0)
eol == E!Leaf("END", 0, 0)

Cat(l, r) == E!Join("SEQ", l, r)
Cat3(l, n, r) == Cat(Cat(l, n), r)
Or(l, r) == E!Join("ALT", l, r)
W(n) == E!Wrap(n)
Star(n) == E!Repeat(n, 0, 0, TRUE, FALSE)
Opt(n) == E!Repeat(n, 0, 1, FALSE, FALSE)
Preceded(n) == E!Look(FALSE, TRUE, n)
Followed(n) == E!Look(FALSE, FALSE, n)

Units == {Text(bytes).units : bytes \in Texts}

Pattern(n) == [pattern |-> n, sticky |-> FALSE]
Sticky(n) == [pattern |-> n, sticky |-> TRUE]

(* Programs, with the positions they match at in each subject.             *)
Matches(ast, units) == {p \in 0..Len(units) : M!Answer(ast, 1, TRUE, units, p) # <<>>}
Compiled(jobs) ==
  [k \in DOMAIN jobs |->
     [claims |-> S!Searched(jobs[k].pattern, 1, jobs[k].sticky),
      matches |-> [units \in Units |-> Matches(S!Parsed(jobs[k].pattern), units)]]]

(* A run, alternatives, a class, a condition ahead of or behind the match, *)
(* or anywhere after a start that may be any, ends and beginnings, and     *)
(* characters beyond ASCII.  What repeats nothing has no condition.        *)
Various == Compiled(
  << Pattern(Cat3(a, b, Star(y))),  \* aby*
     Pattern(Cat(Cat3(a, a, b), Star(y))),  \* aaby*
     Pattern(Cat3(Star(y), a, b)),  \* y*ab
     Pattern(Cat(a, Cat(Star(y), b))),  \* ay*b
     Pattern(W(Or(Cat(a, b), Cat(b, y)))),  \* ab|by
     Pattern(W(Or(Cat(a, Cat(b, b)), Cat(a, y)))),  \* abb|ay
     Pattern(Cat3(Preceded(Cat(a, b)), class_by, Opt(y))),  \* (?<=ab)[by]y?
     Pattern(Cat3(class_by, Opt(a), Followed(Cat(b, y)))),  \* [by]a?(?=by)
     Pattern(Cat3(Opt(any), a, b)),  \* .?ab
     Pattern(Cat(Opt(any), class_by)),  \* .?[by]
     Pattern(Cat(W(Or(a, b)), Cat(b, eol))),  \* (?:a|b)b$
     Pattern(Cat(Opt(any), ay)),  \* .?[a-b]
     Pattern(Cat(bol, Cat(Opt(a), b))),  \* ^a?b
     Sticky(Cat3(class_ab, b, Star(y))),  \* [ab]by*, sticky
     Sticky(Cat(class_ab, Cat(b, eol))),  \* [ab]b$, sticky
     Pattern(Cat(beyond, Opt(y))),
     Pattern(Cat3(class_ab, accented, Opt(y))),  \* [ab] then a character beyond ASCII
     Pattern(Cat(accented, Opt(any))) >>)

(* Programs whose comparisons, or whose condition, come up again and again. *)
Repeated ==
  Compiled(<< Pattern(Cat(Cat3(a, a, b), Star(y))), Pattern(Cat3(W(Or(Cat(a, a), y)), b, Star(y))),
              Pattern(Cat(a, Cat(Star(y), b))) >>)

Sequences == {<<97>>, <<98>>, <<121>>}
Strings == {FlattenSeq(x) : x \in UNION {[1..n -> Sequences] : n \in 0..Longest}}
pair == <<240, 144, 128, 128>>
Mixed == {pair \o <<97, 98>> \o <<195, 169>>, <<121, 195, 169, 98, 97, 98, 121>>, <<97>> \o pair \o pair \o <<98, 98>>,
          <<121, 121, 121, 121, 98>> \o <<195, 169>>}
Longer == {<<97, 98, 121, 97, 98, 97, 98, 121>>, <<121, 121, 97, 121, 97, 97, 98, 98, 121>>, <<97, 97, 97, 98, 121>>,
           <<97, 98, 98, 121, 121>>, <<121, 97, 97, 96, 98, 97, 99, 98, 97, 98>>}
(* A character beside one that begins a pair, and differs from it in one  *)
(* bit, before one that ends the pair.                                     *)
Neighbours == {<<121, 97, 96, 97, 97, 98>>, <<121, 97, 97, 96, 97, 98, 97, 97, 98>>}
(* A place marked by mistake, so near the end that the run does not fit.   *)
NearTheEnd == {<<98, 97, 96, 97>>, <<121, 97, 97, 98, 97, 96, 97>>, <<121, 121, 97, 97, 98, 97, 96, 97>>}
Subjects == Strings \cup Mixed \cup Longer
Repeats == {<<97, 97, 97, 97, 97, 97, 97, 97, 97, 98>>, <<97, 98, 97, 98, 97, 98, 97, 98>>}
------------------------------------------------------------------------------
(* A search in one call, with a quantum and a budget that never run out.   *)
Unlimited == 10000
RECURSIVE Uninterrupted(_)
Uninterrupted(v) == IF Done(v) THEN v ELSE Uninterrupted(Stepped(v, Unlimited))

(* A pause changes neither the answer nor, but for comparisons at places   *)
(* marked by mistake, the work: chunks, rounds and seeks charge what an    *)
(* uninterrupted search does, and the budget runs out exactly when that    *)
(* one's would.  (Of NearTheEnd it is not true: where the run does not fit *)
(* at a place marked by mistake the scan ends, and the rest is not charged.)*)
WorkIsExact ==
  LET As(same, work) ==
        IF s.phase.is = "WorkLimit" THEN work > job.budget
        ELSE s.phase = same.phase /\ s.used = work /\ s.start = same.start
      Came(same) == As(same, same.used - same.mistaken + s.mistaken)
  IN Done(s) => Came(Uninterrupted(Begin(Unlimited)))

(* What candidate_step says of its words (executor/candidate.rs:230): they *)
(* do not change the work across different quanta.                         *)
LanesChangeNoWork ==
  Done(s) /\ s.phase.is # "WorkLimit" => s.used = Uninterrupted(Begin(Unlimited)).used
================================================================================
