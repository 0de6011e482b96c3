-------------------------------- MODULE MCVm --------------------------------
(***************************************************************************)
(* The evaluator on compiled patterns, against the meaning of the pattern. *)
(***************************************************************************)
EXTENDS Vm

E == INSTANCE Emission
M == INSTANCE Ecma

(* The pattern syntax, with captures numbered as they open.                *)
a == E!Leaf("CHAR", 97, 0)
b == E!Leaf("CHAR", 98, 0)
y == E!Leaf("CHAR", 121, 0)
ab == E!Leaf("CLASS", <<<<97, 97>>, <<98, 98>>>>, FALSE)
notA == E!Leaf("CLASS", <<<<97, 97>>>>, TRUE)
any == E!Leaf("ANY", 0, 0)
none == E!Leaf("EMPTY", 0, 0)
bol == E!Leaf("START", 0, 0)
eol == E!Leaf("END", 0, 0)
Ref(k) == E!Leaf("BACKREF", k, 0)
Name(groups) == E!Leaf("NAMED", groups, 0)
Word_(negated) == E!Leaf("WORD", negated, 0)

Cat(l, r) == E!Join("SEQ", l, r)
Or(l, r) == E!Join("ALT", l, r)
Cat3(p, q, r) == Cat(Cat(p, q), r)
Or3(p, q, r) == Or(Or(p, q), r)
G(k, n) == E!Group(k, n)
W(n) == E!Wrap(n)
Ahead(n) == E!Look(FALSE, FALSE, n)
NotAhead(n) == E!Look(TRUE, FALSE, n)
Behind(n) == E!Look(FALSE, TRUE, n)
NotBehind(n) == E!Look(TRUE, TRUE, n)
Star(n) == E!Repeat(n, 0, 0, TRUE, FALSE)
Plus(n) == E!Repeat(n, 1, 0, TRUE, FALSE)
Opt(n) == E!Repeat(n, 0, 1, FALSE, FALSE)
Times(n, lo, hi) == E!Repeat(n, lo, hi, FALSE, FALSE)
LazyStar(n) == E!Repeat(n, 0, 0, TRUE, TRUE)
LazyPlus(n) == E!Repeat(n, 1, 0, TRUE, TRUE)
LazyTimes(n, lo, hi) == E!Repeat(n, lo, hi, FALSE, TRUE)

Compile(pattern, captures) == E!Program(pattern, captures, FALSE)
Sticky(pattern, captures) == E!Program(pattern, captures, TRUE)

(* Patterns whose work no pause and no request changes.                    *)
Steady ==
  << Compile(Cat(Star(G(1, Star(a))), b), 2),  \* (a*)*b
     Compile(Star(W(Or(G(1, a), b))), 2),  \* (?:(a)|b)*
     Compile(Cat3(Ahead(G(1, Plus(a))), Star(a), Cat(b, Ref(1))), 2),  \* (?=(a+))a*b\1
     Compile(Cat3(NotAhead(Cat(G(1, a), b)), ab, Ref(1)), 2),  \* (?!(a)b)[ab]\1
     Compile(Cat(Behind(Cat(G(1, a), G(2, Opt(b)))), y), 3),  \* (?<=(a)(b?))y
     Compile(Star(G(1, Cat3(Opt(G(2, Plus(a))), Opt(G(3, b)), G(4, y)))), 5),
     Compile(Cat(LazyStar(G(1, LazyStar(a))), y), 2),  \* (a*?)*?y
     Compile(Cat(W(Or(G(1, a), G(2, b))), Name(<<1, 2>>)), 3),  \* (?:(?<n>a)|(?<n>b))\k<n>
     Compile(Times(W(Opt(a)), 2, 2), 1),  \* (?:a?){2}
     Compile(Cat(Times(W(Cat(Times(a, 1, 2), Opt(b))), 2, 2), y), 1),  \* (?:a{1,2}b?){2}y
     Compile(Cat(W(Or(Cat(a, b), a)), W(Or(y, Cat(b, y)))), 1),  \* (?:ab|a)(?:y|by)
     Compile(Cat(LazyPlus(ab), G(1, y)), 2),  \* [ab]+?(y)
     Compile(Cat(Star(ab), Cat(Behind(Star(a)), eol)), 1),  \* [ab]*(?<=a*)$
     Compile(Cat(W(Or(Cat(bol, a), bol)), b), 1),  \* (?:^a|^)b
     Compile(Cat(Star(notA), a), 1),  \* [^a]*a
     Compile(Cat3(W(Or(a, Cat(a, b))), Opt(y), eol), 1),  \* (?:a|ab)y?$
     Compile(Cat(NotBehind(a), Cat(ab, Word_(FALSE))), 1),  \* (?<!a)[ab]\b
     Compile(Plus(W(Or(none, G(1, ab)))), 2),  \* (?:|([ab]))+
     Compile(Cat(Star(W(Or(a, none))), b), 1),  \* (?:a|)*b
     Compile(Times(G(1, a), 2, 2), 2),  \* (a){2}
     Compile(Cat(G(1, b), W(Or(Cat(Ref(1), a), y))), 2),  \* (b)(?:\1a|y)
     Compile(Cat(LazyStar(a), Cat(Star(b), y)), 1),  \* a*?b*y
     Compile(Cat(Star(ab), Cat(Times(b, 1, 2), y)), 1),  \* [ab]*b{1,2}y
     Compile(Times(W(Times(a, 2, 2)), 0, 2), 1),  \* (?:a{2}){0,2}
     Sticky(Cat(Plus(any), G(1, b)), 2) >>  \* .+(b), sticky

(* Patterns with chains of alternatives told apart by their first          *)
(* character, and with lazy repeats of one character that have a maximum.  *)
Alternatives ==
  << Compile(Cat(W(Or(Or3(a, b, Cat(y, a)), y)), b), 1),  \* (?:a|b|ya|y)b
     Compile(Cat(Star(G(1, Or3(Cat(a, b), a, b))), y), 2),  \* (ab|a|b)*y
     Compile(Cat(Behind(W(Or3(Cat(a, b), b, y))), G(1, any)), 2),  \* (?<=(?:ab|b|y))(.)
     Compile(Cat(LazyStar(W(Or3(a, b, none))), y), 1),  \* (?:a|b|)*?y
     Compile(Cat(LazyTimes(ab, 0, 2), y), 1),  \* [ab]{0,2}?y
     Compile(Cat(G(1, LazyTimes(a, 0, 2)), Cat(W(Or3(b, y, Ref(1))), eol)), 2),
     Compile(Cat(Plus(G(1, LazyTimes(a, 1, 2))), Opt(b)), 2),  \* (a{1,2}?)+b?
     Compile(Cat(Behind(Cat(LazyTimes(ab, 0, 2), y)), any), 1) >>  \* (?<=[ab]{0,2}?y).

(* Patterns that look at the ends of the text, of lines and of words.      *)
anyS == E!Leaf("ANY_S", 0, 0)
nl == E!Leaf("CHAR", 10, 0)
bolM == E!Leaf("START_M", 0, 0)
eolM == E!Leaf("END_M", 0, 0)
Lines ==
  << Compile(Cat(W(Or(Cat(bolM, a), nl)), eolM), 1),  \* (?:^a|\n)$, with m
     Compile(Cat(bol, Cat(a, Cat(Star(any), G(1, anyS)))), 2),  \* ^a.*([^])
     Compile(Cat(W(Or(bol, Cat(bol, a))), Cat(any, eol)), 1),  \* (?:^|^a).$
     Compile(Cat(LazyStar(anyS), Cat(eolM, G(1, Opt(nl)))), 2),  \* [^]*?$(\n?), with m
     Compile(Cat(W(Or(Cat(a, a), a)), eol), 1),  \* (?:aa|a)$
     Compile(Cat(a, Opt(Cat(a, eol))), 1),  \* a(?:a$)?
     Compile(Cat(G(1, Opt(a)), Cat(eol, Opt(nl))), 2),  \* (a?)$\n?
     Compile(Cat(G(1, Star(a)), Cat(nl, Ref(1))), 2),  \* (a*)\n\1
     Compile(Cat(Behind(Cat(bolM, G(1, Plus(any)))), Cat(Word_(TRUE), any)), 2),  \* (?<=^(.+))\B.
     Compile(Cat(Ahead(Cat(a, eolM)), Cat(Plus(anyS), Cat(Word_(FALSE), eol))), 1),
     Compile(Cat(Plus(Cat(a, eolM)), bolM), 1) >>  \* (?:a$)+^, with m

------------------------------------------------------------------------------
Texts(characters, longest) == UNION {[1 .. n -> characters] : n \in 0 .. longest}
abys == Texts({97, 98, 121}, 3)

Asked(programs, subjects, froms, booleans, spares) ==
  [p \in DOMAIN programs |-> [program |-> programs[p], subjects |-> subjects, froms |-> froms,
                              booleans |-> booleans, spares |-> spares]]

(* The work of a second search: exactly what the first took and one unit   *)
(* less, where no pause changes it, and some to spare where one may.       *)
Everything ==
  Asked(Steady, abys, {0}, {FALSE}, {-1, 0})
  \o Asked(Steady, Texts({97, 98}, 2), {1, 2}, {FALSE}, {-1, 0})
  \o Asked(Alternatives, abys, {0, 1}, BOOLEAN, {50})
  \o Asked(Lines, Texts({10, 97}, 4), {0, 2}, BOOLEAN, {0})

(* `(?:a|b|ya|y)b`, whose first instruction but one heads a chain.         *)
Chain == Asked(<<Alternatives[1]>>, abys, {0, 1}, {FALSE}, {0})

(* `a{0,2}?b`                                                              *)
LazyPair == Asked(<<Compile(Cat(LazyTimes(a, 0, 2), b), 1)>>, abys, {0, 1}, {FALSE}, {0})

(* The pattern's meaning, at the job's start.                              *)
Right == M!Answer(P.pattern, P.captures, P.sticky, Text, job.from)

(* A search given the work it needs answers what the pattern means: the    *)
(* leftmost start and, there, the first alternative in backtracking order, *)
(* with every capture, whatever scans, skips and rewrites led there.       *)
AnswersRight ==
  Done /\ first = <<>> =>
    /\ vm.phase.is = IF Right = <<>> THEN "NoMatch" ELSE "Matched"
    /\ vm.phase.is = "Matched" /\ ~job.boolean => Spans = Right

(* Pauses and capacity requests change neither the answer nor the work: a  *)
(* search with exactly the work an unpaused one took gives its answer with *)
(* nothing left, and with less runs out, wherever it paused.  Where a      *)
(* pause may change the work, some to spare still gives the answer.        *)
WorkIsExact ==
  Done /\ first # <<>> =>
    IF spare < 0 THEN vm.phase.is = "WorkLimit"
    ELSE Outcome = first[1] /\ (spare = 0 => vm.budget = 0)

(* The most one step may spend: a character of a class costs its ranges    *)
(* too, and an endpoint given up its probe.                                *)
LargestStep == Max({2} \cup {Cost(P.code[pc]) : pc \in DOMAIN P.code})

(* The quantum is a target an advance misses by less than one step: it     *)
(* goes on only while there is quantum left, and no skip, scan or chain of *)
(* alternatives walks on beyond it (docs/resumption.md).                   *)
Prompt == vm.window > -LargestStep

(* A search that keeps being advanced and supplied decides.                *)
Decides == <>[](Done /\ first # <<>>)
==============================================================================
