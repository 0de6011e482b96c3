------------------------------- MODULE MCParser -------------------------------
(***************************************************************************)
(* A host writes a pattern piece by piece and compiles what it has so far. *)
(* Every text of a few pieces is read, in each mode; the pieces are chosen *)
(* so that the rules that decide between two readings of a text meet.      *)
(***************************************************************************)
EXTENDS Parser

CONSTANTS
  Kits,            \* the pieces texts are made of, each with the modes and the work it is read with
  Written,         \* longer texts, read as they are
  Plenty,          \* work units that always suffice
  UnitsOfWork      \* units of work a character of a text without names costs at most

Points == {0, 1, 8, 9, 32, 40, 45, 48, 49, 56, 65, 66, 67, 68, 75, 83, 92, 93, 94, 95, 97, 98, 99, 100, 107, 115,
           123, 125, 383, 8490, 55357, 56832, 128512, 65535}
G == INSTANCE Grammar WITH Sample <- Points
E == INSTANCE Emission

NoSequences == << >>       \* no class of the v flag is read here

VARIABLES
  kit, count,     \* the pieces the text is made of, and how many have been added
  text, mode, budget,
  done            \* the parser that has read it, and one that had plenty of work
vars == <<kit, count, text, mode, budget, done>>

NotYet == <<>>

Init ==
  /\ count = 0 /\ done = NotYet
  /\ \/ \E k \in DOMAIN Kits : kit = Kits[k] /\ text = Kits[k].begins
     \/ \E w \in DOMAIN Written :
          kit = Written[w] /\ text = Written[w].begins
  /\ mode \in kit.modes /\ budget \in kit.budgets

Write ==
  /\ count < kit.most
  /\ \E piece \in kit.pieces : text' = text \o piece
  /\ count' = count + 1
  /\ done' = NotYet
  /\ UNCHANGED <<kit, mode, budget>>

Compile ==
  /\ done = NotYet
  /\ done' = [k \in 1 .. 2 |-> Prepare(text, mode, FALSE, IF k = 1 THEN budget ELSE Plenty)]
  /\ UNCHANGED <<kit, count, text, mode, budget>>

Next == Write \/ Compile
Spec == Init /\ [][Next]_vars

------------------------------------------------------------------------------
(* The tree the nodes of a finished parser hold.  A class is what it       *)
(* matches among the points, folded or not.                                *)
InClass(p, n, c) ==
  \E k \in n.a + 1 .. n.a + n.b :
    \E d \in (IF "i" \in n.flags THEN Equivalents(c, "u" \in n.flags) ELSE {c}) :
      p.ranges[k][1] <= d /\ d <= p.ranges[k][2]

(* The groups a name stands for, by the chain of its declarations.         *)
RECURSIVE Chain(_, _)
Chain(p, declaration) ==
  IF declaration = 0 THEN <<>>
  ELSE <<p.nodes[declaration].b>> \o Chain(p, p.nodes[declaration].flags)
Captures(p, name) ==
  LET meta == CHOOSE i \in DOMAIN p.nodes : p.nodes[i].kind = "NAME_META" /\ p.nodes[i].c = name
  IN Chain(p, p.nodes[meta].flags)

RECURSIVE TreeOf(_, _)
TreeOf(p, id) ==
  LET n == p.nodes[id]
      folds == "i" \in n.flags
      with(kind, flag) == IF flag \in n.flags THEN kind \o "_" \o (IF flag = "s" THEN "S" ELSE "M") ELSE kind
  IN CASE n.kind \in {"SEQ", "ALT"} -> E!Join(n.kind, TreeOf(p, n.a), TreeOf(p, n.b))
       [] n.kind = "WRAP" -> E!Wrap(TreeOf(p, n.a))
       [] n.kind = "GROUP" -> E!Group(n.b, TreeOf(p, n.a))
       [] n.kind = "ASSERT" -> E!Look("negative" \in n.flags, "behind" \in n.flags, TreeOf(p, n.a))
       [] n.kind = "REPEAT" ->
            E!Repeat(TreeOf(p, n.a), n.b, n.c, "infinite" \in n.flags, "lazy" \in n.flags)
       [] n.kind = "CHAR" -> E!Leaf("CHAR", n.a, folds)
       [] n.kind = "CLASS" ->
            E!Leaf("CLASS", {c \in Points : InClass(p, n, c)}, "negated" \in n.flags)
       [] n.kind = "BACKREF" -> E!Leaf("BACKREF", n.a, folds)
       [] n.kind = "NAMED_BACKREF" -> E!Leaf("NAMED", Captures(p, n.a), folds)
       [] n.kind = "ANY" -> E!Leaf(with("ANY", "s"), 0, 0)
       [] n.kind \in {"START", "END"} -> E!Leaf(with(n.kind, "m"), 0, 0)
       [] n.kind = "WORD" -> E!Leaf("WORD", n.a, 0)
       [] n.kind = "EMPTY" -> E!Leaf("EMPTY", 0, 0)

Decided == done # NotYet /\ done[1].error \in {"", "Syntax"}
Accepted == done # NotYet /\ done[1].error = ""

RECURSIVE Same(_, _)
Same(x, y) ==
  /\ x.kind = y.kind
  /\ CASE x.kind \in {"SEQ", "ALT"} -> Same(x.left, y.left) /\ Same(x.right, y.right)
       [] x.kind \in {"WRAP", "GROUP", "ASSERT", "REPEAT"} ->
            Same(x.child, y.child) /\ [x EXCEPT !.child = 0] = [y EXCEPT !.child = 0]
       [] OTHER -> x = y

(* The parser reads a text as the grammar does, or refuses it when the     *)
(* grammar does: its scan for groups and names, its marks that go back and *)
(* its early decisions (compiler.rs, escapes.rs, names.rs) change nothing. *)
Agrees(trees) ==
  IF Accepted THEN trees # {} /\ \A t \in trees : Same(E!Parsed(t), TreeOf(done[1], done[1].node))
  ELSE trees = {}
AnswersRight == Decided => Agrees(G!Trees(text, "u" \in mode, mode))

(* The length a node is given as it is read is the number of instructions  *)
(* it will be emitted as, which every address in the program rests on      *)
(* (compiler.rs, Node::len).                                               *)
SizeIsExact ==
  Accepted =>
    LET p == done[1] IN
      p.nodes[p.node].len = Len(E!Emit(TreeOf(p, p.node), 2, FALSE, 0))

(* A class that says its table is sorted has one a program is accepted     *)
(* with: characters alone, ascending, and never touching (program.rs,      *)
(* from_words).                                                            *)
SortedIsAscending ==
  Accepted =>
    \A i \in DOMAIN done[1].nodes :
      LET n == done[1].nodes[i] IN
      n.kind = "CLASS" /\ "sorted" \in n.flags =>
        LET table == SubSeq(done[1].ranges, n.a + 1, n.a + n.b) IN
          /\ table # <<>> /\ \A r \in ToSet(table) : ~IsProperty(r) /\ r[1] <= r[2]
          /\ \A k \in 2 .. Len(table) : table[k - 1][2] + 1 < table[k][1]

(* What is emitted from the nodes is a program that is accepted.           *)
ProgramIsAccepted == SizeIsExact /\ SortedIsAscending

(* Without names, whose comparison is quadratic (names.md), every          *)
(* character costs a bounded number of units of work: what is read again   *)
(* is read again once, and the whole pattern is scanned once for its       *)
(* groups (compiler.rs, scan_groups).                                      *)
WorkIsLinear ==
  Accepted /\ done[1].newest = 0 => budget - done[1].left <= UnitsOfWork * (Len(text) + 1)

(* A budget that suffices gives what a larger one gives, for the same work. *)
WorkIsExact ==
  done # NotYet /\ done[1].error # "WorkLimit" =>
    /\ [done[1] EXCEPT !.left = done[2].left] = done[2]
    /\ budget - done[1].left = Plenty - done[2].left

------------------------------------------------------------------------------
(* Pieces of texts.                                                        *)
One(c) == <<c>>
Colon == <<40, 63, 58>>                     \* (?:
Ahead_ == <<40, 63, 61>>                    \* (?=
Behind == <<40, 63, 60, 33>>                \* (?<!
NameA == <<40, 63, 60, 97, 62>>             \* (?<a>
NameB == <<40, 63, 60, 92, 117, 123, 54, 50, 125, 62>>  \* (?<\u{62}>
ReferA == <<92, 107, 60, 97, 62>>           \* \k<a>
Modes == {{}, {"u"}}
Kit(begins, pieces, modes, most) ==
  [begins |-> begins, pieces |-> pieces, modes |-> modes, most |-> most, budgets |-> {Plenty}]
Scant(kit_, most) == [kit_ EXCEPT !.most = most, !.budgets = {3, 7, 10, 14, 20, 27, 35, 50, 90, 200}]
Groups == Kit(<<>>, {<<40>>, <<41>>, Colon, Ahead_, Behind, <<124>>, <<42>>, <<97>>}, Modes, 4)
Bounds_ == Kit(<<97, 123>>, {<<123>>, <<49>>, <<44>>, <<48, 125>>, <<125>>, <<63>>, <<97>>}, Modes, 4)
Nested == Kit(Colon, {<<97, 41>>, Colon, <<41>>, <<63>>, <<123, 50, 125>>, <<124>>, <<91, 97, 93>>}, {{"i"}}, 5)
Escapes == Kit(<<>>, {<<92>>, <<49>>, <<56>>, <<48>>, <<99>>, <<107>>, <<40, 41>>, <<120, 52, 49>>}, Modes, 4)
Octals == Kit(<<92>>, {<<49>>, <<55>>, <<52>>, <<91>>, <<93>>, <<40, 41>>}, {{}}, 4)
Classes == Kit(<<91>>, {<<93>>, <<94>>, <<45>>, <<97>>, <<98>>, <<92, 100>>, <<92>>, <<99>>}, {{}, {"u", "i"}}, 4)
Folded == Kit(<<91>>, {<<93>>, <<45>>, <<75>>, <<115>>, <<383>>, <<92, 87>>, <<49>>, <<107>>}, {{"i"}, {"u", "i"}}, 4)
Names == Kit(NameA, {NameA, NameB, ReferA, <<41>>, <<124>>, <<92, 50>>, Colon}, {{}}, 5)
Modifying == Kit(<<40, 63>>, {<<105>>, <<115>>, <<45>>, <<58>>, <<41>>, <<46>>, <<97>>}, {{}, {"i", "m"}}, 4)
Surrogates == Kit(<<>>, {<<55357>>, <<56832>>, <<92, 117, 68, 56, 51, 68>>, <<92, 117, 68, 69, 48, 48>>,
                         <<91>>, <<93>>, <<92, 117, 123, 49, 70, 54, 48, 48, 125>>, <<42>>}, Modes, 4)
Varied ==
  <<Groups, Bounds_, Nested, Escapes, Octals, Classes, Folded, Names, Modifying, Surrogates,
    Scant(Names, 2), Scant(Folded, 2), Scant(Nested, 3)>>

Repeated(piece, n) == FlattenSeq([k \in 1 .. n |-> piece])
Text_(t) == Kit(t, {}, {{}}, 0)
Lengthy ==
  << Text_(Repeated(<<92, 57>>, 40)),                        \* \9\9\9 ...
     Text_(Repeated(<<92, 107>>, 40)),
     Text_(Repeated(<<97, 63>>, 20)),
     Text_(Repeated(<<97, 63>>, 36)),                      \* more nodes than there is room for
     Text_(<<91>> \o [k \in 1 .. 40 |-> 200 + 2 * k] \o <<93>>),  \* more ranges
     Text_(NameA \o <<41, 124>> \o NameB \o <<41, 124>> \o NameA \o NameB \o <<41>> \o NameA \o <<41, 41>>),
     Text_(NameA \o <<41, 124>> \o NameA \o <<41, 124>> \o NameA \o <<41>> \o ReferA) >>
==============================================================================
