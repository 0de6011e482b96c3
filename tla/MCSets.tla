-------------------------------- MODULE MCSets --------------------------------
(***************************************************************************)
(* A host writes a class of the v flag piece by piece, until what it has   *)
(* compiles, and matches it against small subjects.                        *)
(***************************************************************************)
EXTENDS Parser

CONSTANTS
  Kits,            \* the pieces classes are made of, each with the modes they are read in
  Written,         \* longer texts, read as they are
  Budgets,         \* work units of a compilation
  Subjects         \* what the classes are matched against

Letter_L == {65, 66, 75}
Emoji == {128512, 127462}
Regional == {127462}
Points == {38, 45, 48, 65, 66, 67, 75, 90, 94, 97, 98, 99, 107, 122, 8490, 127462, 128512}
Sequenced == << [points |-> TRUE, members |-> << <<97, 98, 97>>, <<97, 75>>, <<97, 98>> >>],
                [points |-> FALSE, members |-> << <<97, 98>>, <<98, 98>> >>] >>
G == INSTANCE SetGrammar WITH
       Sample <- Points,
       Properties <- [letter \in {76} |-> Letter_L],
       StringProperties <- [letter \in {75, 78} |->
          IF letter = 75 THEN ToSet(Sequenced[1].members) \cup {<<c>> : c \in Emoji \ Regional}
          ELSE ToSet(Sequenced[2].members)]

VARIABLES kit, count, text, mode, budget, done
vars == <<kit, count, text, mode, budget, done>>
NotYet == <<>>

Init ==
  /\ count = 0 /\ done = NotYet /\ budget \in Budgets
  /\ \/ \E k \in DOMAIN Kits : kit = Kits[k] /\ text = Kits[k].begins
     \/ \E w \in DOMAIN Written : kit = Written[w] /\ text = Written[w].begins
  /\ mode \in kit.modes

Accepted == done # NotYet /\ done[1].error = ""
Rejected == done # NotYet /\ done[1].error = "Syntax"

Write ==
  /\ Rejected /\ count < kit.most
  /\ \E piece \in kit.pieces : text' = text \o piece
  /\ count' = count + 1
  /\ done' = NotYet
  /\ UNCHANGED <<kit, mode, budget>>

Compile ==
  /\ done = NotYet
  /\ \E p \in {Prepare(text, mode, TRUE, budget)} : done' = <<p>>
  /\ UNCHANGED <<kit, count, text, mode, budget>>

Next == Write \/ Compile
Spec == Init /\ [][Next]_vars

------------------------------------------------------------------------------
(* What the nodes of a class match: where a match of each ends, in the     *)
(* order the evaluator tries them.                                         *)
PropertyHas(id, c) == c \in (CASE id = 1 -> Letter_L [] id = 2 -> Emoji [] id = 3 -> Regional)
InRange(range, c, folds) ==
  LET family == IF folds THEN Equivalents(c, TRUE) ELSE {c} IN
    IF ~IsProperty(range) THEN \E d \in family : range[1] <= d /\ d <= range[2]
    ELSE (\E d \in family : PropertyHas(0 - range[1], d)) = (range[2] = 0)
InClass(p, n, c) == \E k \in n.a + 1 .. n.a + n.b : InRange(p.ranges[k], c, "i" \in n.flags)

RECURSIVE Ends(_, _, _, _)
Ends(p, id, subject, at) ==
  LET n == p.nodes[id]
      next == IF at < Len(subject) THEN subject[at + 1] ELSE -1
      passed(c) == IF "i" \in n.flags THEN next \in Equivalents(c, TRUE) ELSE next = c
      found(k) == LET m == Members(n.a[1])[k] IN
                    IF /\ at + Len(m) <= Len(subject)
                       /\ SameText(SubSeq(subject, at + 1, at + Len(m)), m, "i" \in n.flags)
                      THEN <<at + Len(m)>> ELSE <<>>
  IN CASE n.kind = "EMPTY" -> <<at>>
       [] n.kind = "CHAR" -> IF next # -1 /\ passed(n.a) THEN <<at + 1>> ELSE <<>>
       [] n.kind = "CLASS" -> IF next # -1 /\ InClass(p, n, next) THEN <<at + 1>> ELSE <<>>
       [] n.kind = "ALT" -> Ends(p, n.a, subject, at) \o Ends(p, n.b, subject, at)
       [] n.kind = "SEQ" -> LET first == Ends(p, n.a, subject, at) IN
            FlattenSeq([k \in DOMAIN first |-> Ends(p, n.b, subject, first[k])])
       [] n.kind = "ASSERT" ->
            IF (Ends(p, n.a, subject, at) = <<>>) = ("negative" \in n.flags) THEN <<at>> ELSE <<>>
       [] n.kind = "SEQSET" ->
            LET members == SetToSortSeq(WriteFilter([p EXCEPT !.left = 100000], n).result, <)
            IN FlattenSeq([k \in DOMAIN members |-> found(members[k])])

(* A place is tried again only by what it has been left at already.        *)
Distinct(s) == FoldLeft(LAMBDA out, x : IF x \in ToSet(out) THEN out ELSE Append(out, x), <<>>, s)

Children(n) ==
  CASE n.kind \in {"SEQ", "ALT"} -> {n.a, n.b}
    [] n.kind = "ASSERT" -> {n.a}
    [] OTHER -> {}
RECURSIVE Under(_, _)
Under(p, id) == {id} \cup UNION {Under(p, k) : k \in Children(p.nodes[id])}

(* A class is read as the grammar reads it and matches the strings of its  *)
(* set, the longest first, or is refused when the grammar refuses it:      *)
(* characters an operator removes are guarded against, strings and members *)
(* of properties are compared as they are read (compiler/sets.rs).         *)
Agrees(sets) ==
  /\ Rejected => sets = {}
  /\ Accepted =>
       /\ Cardinality(sets) = 1
       /\ \A set \in sets : \A subject \in Subjects :
            Distinct(Ends(done[1], done[1].node, subject, 0)) = G!EndsIn([u |-> TRUE], mode, set, subject)
AnswersRight == Agrees(G!SetsOf(text, mode))

(* The instructions a class is given are those its nodes become: what an   *)
(* operator dropped, or a property of strings absorbed, takes none         *)
(* (compiler/sets.rs, materialize).                                        *)
Instructions(n) ==
  CASE n.kind \in {"CHAR", "CLASS", "SEQSET"} -> 1
    [] n.kind \in {"ALT", "ASSERT"} -> 2
    [] OTHER -> 0
SizeIsExact ==
  Accepted =>
    LET p == done[1] IN
      p.nodes[p.node].len = FoldSet(LAMBDA i, n : n + Instructions(p.nodes[i]), 0, Under(p, p.node))

(* A class that says its table is sorted has one a program is accepted     *)
(* with (program.rs, from_words): characters alone, ascending, and never   *)
(* touching.                                                               *)
SortedIsAscending ==
  Accepted =>
    \A i \in Under(done[1], done[1].node) :
      LET n == done[1].nodes[i]
          table == SubSeq(done[1].ranges, n.a + 1, n.a + n.b)
      IN n.kind = "CLASS" /\ "sorted" \in n.flags =>
           /\ table # <<>> /\ \A r \in ToSet(table) : ~IsProperty(r) /\ r[1] <= r[2]
           /\ \A k \in 2 .. Len(table) : table[k - 1][2] + 1 < table[k][1]

------------------------------------------------------------------------------
(* Pieces of classes.                                                      *)
Minus == <<45, 45>>
And == <<38, 38>>
Strings_ab == <<92, 113, 123, 97, 98, 125>>                \* \q{ab}
Strings_a_ == <<92, 113, 123, 97, 124, 125>>               \* \q{a|}
Strings_Many == <<92, 113, 123, 97, 98, 97, 124, 97, 66, 124, 97, 125>>  \* \q{aba|aB|a}
Property_K == <<92, 112, 123, 75, 125>>                    \* \p{K}
Property_N == <<92, 112, 123, 78, 125>>
Property_L == <<92, 112, 123, 76, 125>>
NotProperty_L == <<92, 80, 123, 76, 125>>
Nested_bb == <<91, 92, 113, 123, 98, 98, 124, 98, 125, 93>>  \* [\q{bb|b}]
Nested_a == <<91, 97, 93>>                                 \* [a]
Range_ac == <<97, 45, 99>>                                 \* a-c
V == {"u"}
Folded == {"u", "i"}
Kit(begins, pieces, modes, most) == [begins |-> begins, pieces |-> pieces, modes |-> modes, most |-> most]

Marks == Kit(<<91>>, {<<91>>, <<93>>, <<94>>, <<45>>, <<33>>, <<97>>, <<92>>}, {V}, 5)
Sets == Kit(<<91>>, {<<93>>, Nested_a, Strings_ab, Strings_a_, Nested_bb, Minus, And, Range_ac}, {V}, 5)
Drawn == Kit(<<91>>, {<<91>>, <<93>>, Property_K, Property_N, Strings_Many, Minus, And}, {V}, 6)
FoldedSets == Kit(<<91>>, {<<93>>, <<91, 75, 93>>, Strings_Many, <<91, 94, 8490, 93>>, Property_K, Minus, And}, {Folded}, 5)
Complements == Kit(<<91, 94>>, {<<93>>, <<98>>, <<91, 94>>, Minus, Property_L, NotProperty_L}, {V}, 5)
None == <<>>
Varied == <<Marks, Sets, Drawn, FoldedSets, Complements>>
(* Two members of one class, of which the first is the same in every case. *)
FoldedUnion == << Kit(<<91, 48>> \o Property_L \o <<93>>, {}, {Folded}, 0) >>    \* [0\p{L}]
(* A third `&` after an intersection of two.                               *)
ThreeAnds == << Kit(<<91, 97>> \o And \o <<38, 93>>, {}, {V}, 0) >>               \* [a&&&]
(* Many characters, which are put in order, and then one before them.      *)
Listed_ == FlattenSeq([k \in 1 .. 16 |-> <<200 + 2 * k, 124>>])
ManyThenOne == << Kit(<<91, 92, 113, 123>> \o Listed_ \o <<65, 125, 48, 93>>, {}, {V}, 0) >>
Outside == << Kit(Property_K, {}, {V, Folded}, 0), Kit(Property_N, {}, {V}, 0), Kit(NotProperty_L, {}, {V, Folded}, 0) >>

Alphabet == {65, 97, 98, 75, 8490, 128512}
Small == UNION {[1 .. n -> Alphabet] : n \in 0 .. 1} \cup
         {<<97, 98>>, <<97, 66>>, <<98, 98>>, <<97, 75>>, <<97, 8490>>, <<97, 98, 97>>, <<97, 98, 98>>, <<65, 66, 65>>,
          <<127462>>, <<67>>, <<45>>, <<38>>, <<94>>}
==============================================================================
