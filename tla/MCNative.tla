------------------------------ MODULE MCNative ------------------------------
(***************************************************************************)
(* Generated searches of small subjects, against the meaning of the        *)
(* pattern.                                                                *)
(***************************************************************************)
EXTENDS Native

CONSTANT Plenty     (* More backward branches than any search takes.       *)

M == INSTANCE Ecma

a == E!Leaf("CHAR", 97, 0)
b == E!Leaf("CHAR", 98, 0)
y == E!Leaf("CHAR", 121, 0)
ab == E!Leaf("CLASS", <<<<97, 98>>>>, FALSE)
ay == E!Leaf("CLASS", <<<<97, 97>>, <<121, 121>>>>, FALSE)
notA == E!Leaf("CLASS", <<<<97, 97>>>>, TRUE)
notAy == E!Leaf("CLASS", <<<<97, 97>>, <<121, 121>>>>, TRUE)
any == E!Leaf("ANY", 0, 0)
anyS == E!Leaf("ANY_S", 0, 0)
bol == E!Leaf("START", 0, 0)
eol == E!Leaf("END", 0, 0)

Cat(l, r) == E!Join("SEQ", l, r)
Cat3(p, q, r) == Cat(Cat(p, q), r)
G(k, n) == E!Group(k, n)
Behind_(n) == E!Look(FALSE, TRUE, n)
NotBehind(n) == E!Look(TRUE, TRUE, n)
Star(n) == E!Repeat(n, 0, 0, TRUE, FALSE)
Plus(n) == E!Repeat(n, 1, 0, TRUE, FALSE)
Opt(n) == E!Repeat(n, 0, 1, FALSE, FALSE)
Times(n, lo, hi) == E!Repeat(n, lo, hi, FALSE, FALSE)
LazyStar(n) == E!Repeat(n, 0, 0, TRUE, TRUE)

Texts(characters, longest) == UNION {[1 .. n -> characters] : n \in 0 .. longest}

Call(pattern, captures, subjects) ==
  [program |-> E!Program(pattern, captures, FALSE), subjects |-> subjects,
   froms |-> {0, 1, 5}, budgets |-> {0, 2, Plenty}]

abys == Texts({97, 98, 121}, 4)
lines == Texts({10, 97}, 4)
longer == Texts({97, 98}, 6)
Called ==
  << Call(Cat(Star(a), b), 1, abys),  \* a*b
     Call(Cat3(G(1, Star(ab)), G(2, Star(a)), b), 3, abys),  \* ([ab]*)(a*)b
     Call(Cat3(Plus(ay), Times(a, 1, 2), b), 1, abys),  \* [ay]+a{1,2}b
     Call(Cat3(a, b, Opt(y)), 1, abys),  \* aby?
     Call(Cat3(a, Plus(notAy), y), 1, abys),  \* a[^ay]+y
     Call(Cat3(Star(notA), notAy, ay), 1, abys),  \* [^a]*[^ay][ay]
     Call(Cat(Plus(b), G(1, Star(anyS))), 2, longer),  \* b+([^]*)
     Call(Cat3(a, a, b), 1, longer),  \* aab
     Call(Cat3(bol, Star(a), b), 1, abys),  \* ^a*b
     Call(Cat3(Plus(any), bol, Opt(a)), 1, lines),  \* .+^a?
     Call(Cat3(Opt(any), bol, a), 1, lines),  \* .?^a
     Call(Cat(any, eol), 1, lines),  \* .$
     Call(Cat3(a, ab, eol), 1, abys),  \* a[ab]$
     Call(Cat(G(1, Star(a)), eol), 2, abys),  \* (a*)$
     Call(Cat(Behind_(Cat(a, b)), y), 1, abys),  \* (?<=ab)y
     Call(Cat3(Star(ab), NotBehind(Cat(a, b)), Opt(y)), 1, abys),  \* [ab]*(?<!ab)y?
     Call(Cat3(Star(ab), Behind_(a), b), 1, abys),  \* [ab]*(?<=a)b
     Call(Cat3(NotBehind(a), b, Star(ab)), 1, abys),  \* (?<!a)b[ab]*
     Call(Cat(Times(a, 0, 4), b), 1, abys),  \* a{0,4}b, past Reach
     Call(Cat(LazyStar(ab), Opt(b)), 1, abys) >>  \* [ab]*?b?, lazy

------------------------------------------------------------------------------
Right == M!Answer(E!Parsed(job.program.pattern), job.program.captures, FALSE, job.subject, job.from)
Spans == [k \in 1 .. job.program.captures |-> <<registers[2 * k - 2], registers[2 * k - 1]>>]

(* A search that answers gives the match of the pattern, its captures in   *)
(* the registers, or none where there is none; it gives the search back    *)
(* only when every backward branch it was allowed has been taken.          *)
AnswersRight ==
  answer # Unanswered =>
    CASE answer = NO_MATCH -> Right = <<>>
      [] answer = EXHAUSTED -> job.budget # Plenty /\ slots["BUDGET"] = 0
      [] OTHER -> Right # <<>> /\ answer = Right[1][1] /\ Spans = Right
==============================================================================
