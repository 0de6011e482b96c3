-------------------------------- MODULE MCDfa --------------------------------
(***************************************************************************)
(* The lazy automaton's searches of small subjects, through storage so     *)
(* small that it fills, against the meaning of the pattern.                *)
(***************************************************************************)
EXTENDS Dfa, TLC

S == INSTANCE Starts
M == INSTANCE Ecma

a == S!Leaf("CHAR", 97, 0)
b == S!Leaf("CHAR", 98, 0)
y == S!Leaf("CHAR", 121, 0)
ab == S!Leaf("CLASS", <<<<97, 97>>, <<98, 98>>>>, FALSE)
notA == S!Leaf("CLASS", <<<<97, 97>>>>, TRUE)
accented == S!Leaf("CLASS", <<<<233, 233>>, <<8232, 8232>>>>, FALSE)
any == S!Leaf("ANY", 0, 0)
bol == S!Leaf("START", 0, 0)
bolM == S!Leaf("START_M", 0, 0)
eolM == S!Leaf("END_M", 0, 0)
eol == S!Leaf("END", 0, 0)
boundary == S!Leaf("WORD", FALSE, 0)
high == S!Leaf("CHAR", 55357, 0)
low == S!Leaf("CHAR", 56832, 0)
none == S!Leaf("EMPTY", 0, 0)

Cat(l, r) == S!Join("SEQ", l, r)
Cat3(l, n, r) == Cat(Cat(l, n), r)
Or(l, r) == S!Join("ALT", l, r)
W(n) == S!Wrap(n)
G(k, n) == S!Group(k, n)
Star(n) == S!Repeat(n, 0, 0, TRUE, FALSE)
Plus(n) == S!Repeat(n, 1, 0, TRUE, FALSE)
LazyStar(n) == S!Repeat(n, 0, 0, TRUE, TRUE)
Opt(n) == S!Repeat(n, 0, 1, FALSE, FALSE)
Times(n, lo, hi) == S!Repeat(n, lo, hi, FALSE, FALSE)

Pattern(n, captures) == [pattern |-> n, captures |-> captures, sticky |-> FALSE]
Sticky(n, captures) == [pattern |-> n, captures |-> captures, sticky |-> TRUE]

(* Patterns whose captures, counts, contexts and priorities matter.        *)
Captured ==
  << Pattern(Cat3(G(1, Star(a)), Opt(G(2, b)), y), 3),  \* (a*)(b)?y
     Pattern(Star(Cat(G(1, a), Opt(G(2, b)))), 3),  \* (?:(a)(b)?)*
     Pattern(Cat(Star(G(1, ab)), b), 2),  \* ([ab])*b
     Sticky(Cat(W(Or(a, Cat(a, b))), Opt(G(1, y))), 2),  \* (?:a|ab)(y)?
     Pattern(Times(W(Cat(a, Opt(b))), 2, 3), 1),  \* (?:ab?){2,3}
     Pattern(Cat3(bolM, LazyStar(ab), Cat(boundary, any)), 1),  \* ^[ab]*?\b.
     Pattern(Plus(W(Or(none, G(1, ab)))), 2)  \* (?:|([ab]))+
  >>

Short == UNION {[1 .. n -> {97, 98, 121}] : n \in 0 .. 2}
Few == Short \cup {<<97, 97, 98>>, <<97, 98, 121>>, <<98, 97, 98>>, <<97, 97, 97, 121>>}

(* Long enough to fill the cache again and again, and to thrash.           *)
Filling ==
  << Pattern(Cat3(Star(ab), a, Cat(any, any)), 1),  \* [ab]*a..
     Pattern(Cat(G(1, Plus(a)), G(2, b)), 3),  \* (a+)(b)
     Pattern(Cat(boundary, Cat(Star(a), eolM)), 1) >>  \* \ba*$
LongTexts ==
  {<<97, 98, 97, 98, 98, 97, 97, 98>>, <<97, 97, 97, 97, 97, 98>>, <<98, 10, 97, 97, 10, 98>>, <<121>>}

(* Steady searches: pairs and first characters to skip to, over storage    *)
(* with and without characters beyond ASCII.                               *)
Skipping ==
  << Pattern(W(Or(Cat(a, b), Cat(a, y))), 1),  \* ab|ay
     Pattern(Plus(ab), 1),  \* [ab]+
     Pattern(accented, 1),  \* a class beyond ASCII
     Pattern(Cat(notA, b), 1),  \* [^a]b
     Pattern(W(Or(Cat(b, y), accented)), 1),
     Pattern(Cat(high, Opt(low)), 1) >>
Mixed ==
  {<<98, 121, 97, 98, 98>>, <<121, 233, 97, 121>>, <<233, 233, 121, 233, 98>>,
   <<121, 121, 55357, 56832, 97>>, <<55357, 56832>>, <<8232, 98, 97>>, <<121, 121, 121>>,
   <<300, 301, 302, 303, 304, 97, 98>>}

For(host, patterns) == [k \in DOMAIN patterns |-> patterns[k] @@ [host |-> host]]
Compiled(jobs) ==
  [k \in DOMAIN jobs |->
     S!Searched(jobs[k].pattern, jobs[k].captures, jobs[k].sticky) @@ [host |-> jobs[k].host]]
Everything == Compiled(For(1, Captured) \o For(2, Filling) \o For(3, Skipping))
Host_(subjects, budgets, rooms) == [subjects |-> subjects, budgets |-> budgets, rooms |-> rooms]
ThreeHosts == <<Host_(Few, {60}, {40, 200}), Host_(LongTexts, {5, 12, 80}, {24, 40, 60}),
                Host_(Mixed, {80}, {200})>>

(* The answer is the reference's: the span of the first match of `find`,   *)
(* the groups of the match at the start of `captures`, or that there is    *)
(* one; and what is declined is declined for a reason that holds.          *)
AnswersRight ==
  LET q == answer
      expected == M!Answer(S!Parsed(program.pattern), program.captures,
                           program.sticky \/ q.op = "captures", q.text, q.from)
  IN answer.kind # "none yet" =>
       CASE q.kind = "Match" ->
              /\ expected # <<>>
              /\ q.op = "captures" => q.groups = expected
              /\ q.op = "find" => q.groups = <<expected[1]>>
         [] q.kind = "NoMatch" -> q.from > Len(q.text) \/ expected = <<>>
         [] q.kind = "Captures" -> q.op = "captures" /\ (cache.noCaptures \/ ~Ascii(q.text))
         [] q.kind = "Disabled" -> cache.disabled
         [] q.kind \in {"WorkLimit", "Capacity"} -> TRUE
         [] OTHER -> FALSE
==============================================================================
