------------------------------- MODULE ClassSets -------------------------------
(***************************************************************************)
(* Classes of the v flag (compiler/sets.rs, sequences.rs): unions,         *)
(* intersections and subtractions of sets of characters and of strings,    *)
(* put together while the text is read out of the nodes the engine has.    *)
(*                                                                         *)
(* A set is in the `result` of the parser that has read it: the node of    *)
(* its characters, the list of its strings (linked by field c), the list   *)
(* of the properties of strings it draws from (linked by field start), and *)
(* whether the empty string is a member and strings may be.                *)
(***************************************************************************)
EXTENDS Escapes

CONSTANT SequenceSets      \* the generated properties of strings: of each, whether it has
                           \* members of one character, and the others, longest first

NoSet == [chars |-> 0, head |-> 0, tail |-> 0, tables |-> 0, last |-> 0, empty |-> FALSE,
          strings |-> FALSE, ranged |-> FALSE]
Gives(p, set) == [p EXCEPT !.result = set]

ClassSyntax == {40, 41, 91, 93, 123, 125, 47, 45, 92, 124}
DoublePunctuation == {38, 33, 35, 36, 37, 42, 43, 44, 46, 58, 59, 60, 61, 62, 63, 64, 94, 96, 126}
ReservedPunctuation == {38, 45, 33, 35, 37, 44, 58, 59, 60, 61, 62, 64, 96, 126}
Folds(p) == "i" \in p.flags
Doubled(p, c) == Sees(p, c) /\ UnitAt(p, p.at + 1) = c

(* The nodes of a list, by the field that links them.                      *)
RECURSIVE Listed(_, _, _)
Listed(p, head, byStart) ==
  IF head = 0 THEN <<>>
  ELSE <<head>> \o Listed(p, IF byStart THEN p.nodes[head].start ELSE p.nodes[head].c, byStart)
Strings(p, head) == Listed(p, head, FALSE)
Tables(p, head) == Listed(p, head, TRUE)

------------------------------------------------------------------------------
(* Properties of strings: members by their place, groups of one length by  *)
(* a number that begins at zero, longest first.                            *)
EveryGroup == -1
Members(set) == SequenceSets[set].members
Lengths(set) == {Len(m) : m \in ToSet(Members(set))}
GroupCount(set) == Cardinality(Lengths(set))
LengthOf(set, group) ==
  LET g == IF group = EveryGroup THEN 0 ELSE group
  IN CHOOSE n \in Lengths(set) : Cardinality({m \in Lengths(set) : m > n}) = g
Longest == CHOOSE n \in UNION {Lengths(s) : s \in DOMAIN SequenceSets} :
             \A s \in DOMAIN SequenceSets : \A m \in Lengths(s) : m <= n
InGroup(set, group) ==
  {k \in DOMAIN Members(set) : group = EveryGroup \/ Len(Members(set)[k]) = LengthOf(set, group)}

SameText(left, right, fold) ==
  /\ Len(left) = Len(right)
  /\ \A k \in DOMAIN left : left[k] = right[k] \/ (fold /\ left[k] \in Equivalents(right[k], TRUE))
Holds(set, group, points, fold) ==
  \E k \in InGroup(set, group) : SameText(Members(set)[k], points, fold)

Spelled(p, string) == [k \in 1 .. p.nodes[string].b |-> p.nodes[p.nodes[string].a + k - 1].a]

RECURSIVE SourceHas(_, _, _, _), Lists(_, _, _), Draws(_, _, _), Passes(_, _, _)

(* source_has: `value` is 1 when the strings listed, or those drawn from   *)
(* properties, have this text.                                             *)
Lists(p, string, points) ==
  LET q == Step(p) IN
    IF string = 0 \/ Failed(q) THEN [(IF string = 0 THEN p ELSE q) EXCEPT !.value = 0]
    ELSE IF SameText(Spelled(p, string), points, Folds(p)) THEN [q EXCEPT !.value = 1]
    ELSE Lists(q, p.nodes[string].c, points)
Draws(p, table, points) ==
  LET q == Step(p)
      n == p.nodes[table]
      passed == IF Holds(n.a[1], n.a[2], points, Folds(p)) THEN Passes(q, n.c, points)
                ELSE [q EXCEPT !.value = 0]
  IN IF table = 0 \/ Failed(q) THEN [(IF table = 0 THEN p ELSE q) EXCEPT !.value = 0]
     ELSE IF passed.value = 1 THEN passed ELSE Draws(passed, n.start, points)
SourceHas(p, strings, tables, points) ==
  LET listed == Lists(p, strings, points) IN
    IF listed.value = 1 THEN listed ELSE Draws(listed, tables, points)

(* Fault: only the last operator is asked.                                 *)
PassesOnce(p, filter, points) ==
  LET n == p.nodes[filter]
      q == SourceHas(Step(p), n.b, n.flags, points)
  IN IF filter = 0 \/ Failed(p) THEN [p EXCEPT !.value = 1]
     ELSE [q EXCEPT !.value = IF (q.value = 1) = (n.a = 1) THEN 1 ELSE 0]

(* passes: whether a member survives every operator on its group.          *)
Passes(p, filter, points) ==
  LET n == p.nodes[filter]
      q == SourceHas(Step(p), n.b, n.flags, points)
  IN IF filter = 0 \/ Failed(p) THEN [p EXCEPT !.value = 1]
     ELSE IF Failed(q) \/ (q.value = 1) # (n.a = 1) THEN [q EXCEPT !.value = 0]
     ELSE Passes(q, n.c, points)

(* Prepared::write_filter: the members an instruction may try, in `result`. *)
WriteFilter(p, node) ==
  LET asked(q, k) == Passes(Step(q), node.c, Members(node.a[1])[k])
      order == SetToSortSeq(InGroup(node.a[1], node.a[2]), <)
      each(q, k) == [asked(q, k) EXCEPT !.result = IF asked(q, k).value = 1 THEN q.result \cup {k} ELSE q.result]
  IN IF node.b = 0 THEN [p EXCEPT !.result = InGroup(node.a[1], node.a[2])]
     ELSE [FoldLeft(each, [p EXCEPT !.result = {}, !.flags = node.flags], order) EXCEPT !.flags = p.flags]

------------------------------------------------------------------------------
(* class_set_lookahead: an assertion about the character that follows.     *)
Lookahead(p, child, negative) ==
  IF Failed(p) THEN p
  ELSE Add(p, [Blank EXCEPT !.kind = "ASSERT", !.a = child,
               !.flags = IF negative THEN {"negative"} ELSE {},
               !.first = p.nodes[child].first, !.end = p.nodes[child].end,
               !.len = p.nodes[child].len + 2])

MatchesNothing(p, node) == p.nodes[node].kind = "CLASS" /\ p.nodes[node].b = 0

(* union_of: two classes whose ranges are next to each other are one.      *)
UnionOf(p, left, right) ==
  LET a == p.nodes[left]  b == p.nodes[right]
      adjacent == /\ a.kind = "CLASS" /\ b.kind = "CLASS"
                  /\ "negated" \notin a.flags \cup b.flags
                  /\ a.a + a.b = b.a
                  /\ right = Len(p.nodes)
  IN IF Failed(p) THEN p
     ELSE IF adjacent
       THEN [p EXCEPT !.nodes = [Front(@) EXCEPT ![left].b = a.b + b.b], !.node = left]
     ELSE Join(p, "ALT", left, right)

(* What an operator leaves of characters: `node` is not B here, then A; or *)
(* A here, then B.                                                         *)
WithoutChars(p, left, right) ==
  LET absent == Lookahead(p, right, TRUE) IN
    IF Failed(p) THEN p
    ELSE IF MatchesNothing(p, right) THEN [p EXCEPT !.node = left]
    ELSE Join(absent, "SEQ", absent.node, left)
CommonChars(p, left, right) ==
  LET present == Lookahead(p, left, FALSE) IN
    IF Failed(p) THEN p
    ELSE IF MatchesNothing(p, left) /\ MatchesNothing(p, right) THEN [p EXCEPT !.node = left]
    ELSE Join(present, "SEQ", present.node, right)

(* union_sets: lists are joined end to end.                                *)
UnionSets(p, left, right) ==
  LET q == UnionOf(p, left.chars, right.chars)
      linked(nodes) ==
        LET byC == IF left.head = 0 \/ right.head = 0 THEN nodes
                   ELSE [nodes EXCEPT ![left.tail].c = right.head]
        IN IF left.tables = 0 \/ right.tables = 0 THEN byC
           ELSE [byC EXCEPT ![left.last].start = right.tables]
  IN IF Failed(q) THEN q
     ELSE Gives([q EXCEPT !.nodes = linked(@)],
            [chars |-> q.node, ranged |-> FALSE,
             head |-> IF left.head = 0 THEN right.head ELSE left.head,
             tail |-> IF right.head = 0 THEN left.tail ELSE right.tail,
             tables |-> IF left.tables = 0 THEN right.tables ELSE left.tables,
             last |-> IF right.tables = 0 THEN left.last ELSE right.last,
             empty |-> left.empty \/ right.empty, strings |-> left.strings \/ right.strings])

------------------------------------------------------------------------------
(* same_string and contains_string.                                        *)
EqualStrings(p, left, right) ==
  LET x == Spelled(p, left)  y == Spelled(p, right)
      differ == Earliest({k \in DOMAIN x : ~SameText(<<x[k]>>, <<y[k]>>, Folds(p))})
  IN IF Len(x) # Len(y) THEN [p EXCEPT !.value = 0]
     ELSE IF differ = 0 THEN [Charge(p, Len(x)) EXCEPT !.value = 1]
     ELSE [Charge(p, differ) EXCEPT !.value = 0]

RECURSIVE Spells(_, _, _), KeepStrings(_, _, _, _, _)
Spells(p, current, string) ==
  LET q == EqualStrings(Step(p), current, string) IN
    IF current = 0 \/ Failed(p) THEN [p EXCEPT !.value = 0]
    ELSE IF q.value = 1 THEN q ELSE Spells(q, p.nodes[current].c, string)
ContainsString(p, set, string) ==
  LET q == Spells(p, set.head, string) IN
    IF q.value = 1 THEN q
    ELSE IF p.nodes[string].b > Longest THEN [q EXCEPT !.value = 0]
    ELSE Draws(q, set.tables, Spelled(p, string))

(* filter_strings: the strings of the left set that the right one has, or  *)
(* has not, relinked in their order.                                       *)
KeepStrings(p, current, right, shared, kept) ==
  IF current = 0 THEN [p EXCEPT !.result = kept]
  ELSE Then(ContainsString(Step(p), right, current), LAMBDA asked :
    LET next == p.nodes[current].c
        cut == [asked EXCEPT !.nodes[current].c = 0]
        linked == IF kept[2] = 0 THEN cut ELSE [cut EXCEPT !.nodes[kept[2]].c = current]
    IN IF (asked.value = 1) # shared THEN KeepStrings(asked, next, right, shared, kept)
       ELSE KeepStrings(linked, next, right, shared,
                        <<IF kept[1] = 0 THEN current ELSE kept[1], current>>))

(* filter_tables: the operator is recorded once for the groups that have   *)
(* had the same operators so far.                                          *)
RECURSIVE FilterTables(_, _, _, _, _, _)
FilterTables(p, current, right, shared, filter, chain) ==
  LET q == Step(p)
      fresh == filter = 0 \/ p.nodes[current].c # chain
      added == IF ~fresh THEN [q EXCEPT !.node = filter]
               ELSE Add(q, [Blank EXCEPT !.kind = "FILTER", !.a = IF shared THEN 1 ELSE 0,
                            !.b = right.head, !.c = p.nodes[current].c, !.flags = right.tables])
  IN IF current = 0 \/ Failed(p) THEN p
     ELSE IF Failed(added) THEN added
     ELSE FilterTables([added EXCEPT !.nodes[current].c = added.node], p.nodes[current].start,
                       right, shared, added.node, IF fresh THEN p.nodes[current].c ELSE chain)

(* keep_as_source: the properties of an operator's right side become no    *)
(* instruction.                                                            *)
KeepAsSource(p, set) ==
  LET list == Tables(p, set.tables)
      q == Charge(p, Len(list))
  IN IF Failed(p) \/ Failed(q) THEN q
     ELSE FoldLeft(LAMBDA r, k : [r EXCEPT !.nodes[k].len = 0], q, list)

------------------------------------------------------------------------------
(* class_set_character: `value` is a character, or End when a class escape *)
(* has added its own members.                                              *)
ClassSetCharacter(p) ==
  LET q == Step(p)
      c == Peek(q)
      slash == Take(q)
      escape == Take(slash)
      class == Builtin(escape, escape.value)
      reserved == c \in DoublePunctuation /\ UnitAt(q, q.at + 1) = c
  IN IF c # 92 THEN IF c \in ClassSyntax \cup {End} \/ reserved THEN Syntax(q) ELSE TakePoint(q)
     ELSE IF Failed(escape) THEN escape
     ELSE IF escape.value \in {End, 113} THEN Syntax(escape)
     ELSE IF escape.value \in ReservedPunctuation THEN escape
     ELSE IF class.value = 1 THEN [class EXCEPT !.value = End]
     ELSE EscapedPoint(escape, escape.value, TRUE)

(* class_set_range: a plain member, in the ranges.                         *)
ClassSetRange(p) ==
  Then(ClassSetCharacter(p), LAMBDA low :
    IF low.value = End THEN Gives(low, NoSet)
    ELSE IF ~Sees(low, 45) \/ Doubled(low, 45) THEN Gives(Range_(low, low.value, low.value), NoSet)
    ELSE Then(Take(low), LAMBDA dash :
      IF Sees(dash, 93) THEN Syntax(dash)
      ELSE Then(ClassSetCharacter(dash), LAMBDA high :
        IF high.value = End \/ low.value > high.value THEN Syntax(high)
        ELSE Gives(Range_(high, low.value, high.value), [NoSet EXCEPT !.ranged = TRUE]))))

(* class_string_disjunction: `\q{ab|c|}`.  The characters of a string are  *)
(* nodes next to each other, the first of them held until there is a       *)
(* second.                                                                 *)
StringsAhead(p) == Sees(p, 92) /\ UnitAt(p, p.at + 1) = 113 /\ UnitAt(p, p.at + 2) = 123

RECURSIVE StringPoints(_, _, _), StringAlternatives(_, _)
StringPoints(p, count, single) ==
  LET q == Step(p) IN
    IF Peek(q) = End THEN Syntax(q)
    ELSE IF Peek(q) \in {124, 125} THEN [q EXCEPT !.value = single, !.result = <<count>>]
    ELSE Then(ClassSetCharacter(q), LAMBDA r :
      LET held == IF count = 1 THEN Leaf(r, "CHAR", single, 0) ELSE r
          added == IF count = 0 THEN r ELSE Leaf(held, "CHAR", r.value, 0)
      IN IF r.value = End THEN Syntax(r)
         ELSE StringPoints(added, count + 1, IF count = 0 THEN r.value ELSE single))

PushString(p, set, count) ==
  LET q == Add(p, [Blank EXCEPT !.kind = "STRING", !.a = Len(p.nodes) - count + 1, !.b = count])
      linked(nodes) == IF set.head = 0 THEN nodes ELSE [nodes EXCEPT ![set.tail].c = q.node]
  IN IF Failed(q) THEN q
     ELSE Gives([q EXCEPT !.nodes = linked(@)],
            [set EXCEPT !.head = IF @ = 0 THEN q.node ELSE @, !.tail = q.node, !.strings = TRUE])

StringAlternatives(p, set) ==
  Then(StringPoints(p, 0, 0), LAMBDA q :
  Then(CASE q.result[1] = 0 -> Gives(q, [set EXCEPT !.empty = TRUE, !.strings = TRUE])
         [] q.result[1] = 1 -> Gives(Range_(q, q.value, q.value), set)
         [] OTHER -> PushString(q, set, q.result[1]), LAMBDA read :
    IF Sees(read, 124) THEN StringAlternatives(Take(read), read.result)
    ELSE IF Sees(read, 125) THEN Gives(Take(read), read.result) ELSE Syntax(read)))

(* sequence_property: the members of one character, and a node for each    *)
(* length of the others.                                                   *)
EmojiPresentation == 2
RegionalIndicator == 3
SequencePoints(p, set) ==
  IF ~SequenceSets[set].points THEN ClassLeaf(p, Len(p.ranges), FALSE)
  ELSE Then(ClassLeaf(Range_(p, 0 - EmojiPresentation, 0), Len(p.ranges), FALSE), LAMBDA all :
       Then(ClassLeaf(Range_(all, 0 - RegionalIndicator, 0), Len(all.ranges), FALSE), LAMBDA regional :
       Then(Lookahead(regional, regional.node, TRUE), LAMBDA absent :
         Join(absent, "SEQ", absent.node, all.node))))
SequenceProperty(p, set) ==
  LET group(q, g) ==
        Then(Add(q, [Blank EXCEPT !.kind = "SEQSET", !.a = <<set, g - 1>>, !.flags = p.flags,
                       !.first = p.captures, !.end = p.captures, !.len = 1]), LAMBDA r :
          IF g = 1 THEN r ELSE [r EXCEPT !.nodes[r.node - 1].start = r.node])
  IN Then(SequencePoints(p, set), LAMBDA chars :
     Then(FoldLeft(group, chars, [g \in 1 .. GroupCount(set) |-> g]), LAMBDA groups :
       Gives([groups EXCEPT !.pending = 0],
             [NoSet EXCEPT !.chars = chars.node, !.tables = chars.node + 1, !.last = groups.node,
                           !.strings = TRUE])))

------------------------------------------------------------------------------
RECURSIVE ClassSetOperand(_), ClassSetUnion(_, _), Operated(_, _, _)

(* class_set_member: one element of a body.                                *)
ClassSetMember(p) ==
  LET q == Step(p) IN
    IF Sees(q, 91)
      THEN Then(ClassSetOperand(Take(q)), LAMBDA nested :
             Gives(nested, [nested.result EXCEPT !.ranged = FALSE]))
      ELSE Then(IF StringsAhead(q) THEN StringAlternatives(Take(Take(Take(q))), NoSet)
                ELSE ClassSetRange(q), LAMBDA member :
             IF member.pending # 0 THEN SequenceProperty(member, member.pending)
             ELSE Then(ClassLeaf(member, Len(p.ranges), FALSE), LAMBDA leaf :
                    Gives(leaf, [member.result EXCEPT !.chars = leaf.node])))

(* class_set_union: members until the closing bracket.                     *)
ClassSetUnion(p, set) ==
  LET q == Step(p) IN
    IF Sees(q, 93) THEN Gives(Take(q), set)
    ELSE IF Peek(q) = End \/ Doubled(q, 45) \/ Doubled(q, 38) THEN Syntax(q)
    ELSE Then(ClassSetMember(q), LAMBDA next :
         Then(UnionSets(next, set, next.result), LAMBDA both : ClassSetUnion(both, both.result)))

(* Fault: what is left of the empty string is not asked.                   *)
AfterKeepingEmpty(set, right, shared, kept, chars) ==
  [set EXCEPT !.chars = chars, !.head = kept[1], !.tail = kept[2],
              !.strings = @ /\ (~shared \/ right.strings)]

(* The set an operator leaves.                                             *)
After(set, right, shared, kept, chars) ==
  [set EXCEPT !.chars = chars, !.head = kept[1], !.tail = kept[2],
              !.empty = @ /\ (right.empty = shared),
              !.strings = @ /\ (~shared \/ right.strings)]

(* class_set_subtraction, class_set_intersection and class_set_close: a    *)
(* chain of one operator.                                                  *)
Operated(p, set, shared) ==
  IF Sees(p, 93) THEN Gives(Take(p), set)
  ELSE IF ~Doubled(p, IF shared THEN 38 ELSE 45) THEN Syntax(p)
  ELSE Then(ClassSetMember(Take(Take(p))), LAMBDA operand :
    LET right == operand.result IN
      IF right.ranged THEN Syntax(operand)
      ELSE Then(KeepStrings(operand, set.head, right, shared, <<0, 0>>), LAMBDA strings :
           Then(KeepAsSource(FilterTables(strings, set.tables, right, shared, 0, 0), right),
                LAMBDA kept :
           Then(IF shared THEN CommonChars(kept, set.chars, right.chars)
                ELSE WithoutChars(kept, set.chars, right.chars), LAMBDA chars :
             Operated(chars, After(set, right, shared, strings.result, chars.node), shared)))))

ClassSetExpression(p) ==
  LET q == Step(p)
      empty == ClassLeaf(Take(q), Len(p.ranges), FALSE)
  IN IF Peek(q) = End \/ Doubled(q, 45) \/ Doubled(q, 38) THEN Syntax(q)
     ELSE IF Sees(q, 93) THEN Gives(empty, [NoSet EXCEPT !.chars = empty.node])
     ELSE Then(ClassSetMember(q), LAMBDA first :
       IF ~Doubled(first, 45) /\ ~Doubled(first, 38) THEN ClassSetUnion(first, first.result)
       ELSE IF first.result.ranged THEN Syntax(first)
       ELSE Operated(first, first.result, Doubled(first, 38)))

(* class_set_operand: a complement is not this, then any character.        *)
ClassSetOperand(p) ==
  Then(ClassSetExpression(Eat(p, 94)), LAMBDA body :
    IF ~Sees(p, 94) THEN body
    ELSE IF body.result.strings THEN Syntax(body)
    ELSE Then(ClassLeaf(Range_(body, 0, 1114111), Len(body.ranges), FALSE), LAMBDA any :
         Then(Lookahead(any, body.result.chars, TRUE), LAMBDA absent :
         Then(Join(absent, "SEQ", absent.node, any.node), LAMBDA node :
           Gives(node, [NoSet EXCEPT !.chars = node.node])))))

------------------------------------------------------------------------------
(* shortest_string and shortest_table: the first of the shortest.          *)
FirstLeast(s, measure(_)) ==
  IF s = <<>> THEN 0
  ELSE s[CHOOSE k \in DOMAIN s : \A l \in DOMAIN s :
           measure(s[k]) < measure(s[l]) \/ (measure(s[k]) = measure(s[l]) /\ k <= l)]
TableLength(p, table) == LengthOf(p.nodes[table].a[1], p.nodes[table].a[2])
ShortestString(p, head) ==
  LET list == Strings(p, head)
  IN [Charge(p, Len(list)) EXCEPT
        !.value = FirstLeast(SelectSeq(list, LAMBDA s : p.nodes[s].kind = "STRING"),
                             LAMBDA s : p.nodes[s].b)]
ShortestTable(p, head) ==
  LET list == Tables(p, head)
  IN [Charge(p, Len(list)) EXCEPT !.value = FirstLeast(list, LAMBDA s : TableLength(p, s))]

(* Fault: the groups stay in the list when one instruction stands for all. *)
WholePropertyLinked(p, set) ==
  LET list == Tables(p, set.tables)
      first == p.nodes[set.tables]
      whole == /\ \A k \in DOMAIN list : p.nodes[list[k]].a = <<first.a[1], k - 1>>
               /\ Len(list) = GroupCount(first.a[1])
  IN IF Failed(p) \/ set.head # 0 \/ set.tables = 0 \/ ~whole THEN p
     ELSE [FoldLeft(LAMBDA r, k : [r EXCEPT !.nodes[k].len = 0], p, Tail(list))
             EXCEPT !.nodes[set.tables].a = <<first.a[1], EveryGroup>>]

(* whole_property: the groups of one property, all there, with the same    *)
(* operators and no other strings between them, are one instruction.       *)
WholeProperty(p, set) ==
  LET list == Tables(p, set.tables)
      first == p.nodes[set.tables]
      differ == {k \in DOMAIN list : \/ p.nodes[list[k]].a # <<first.a[1], k - 1>>
                                     \/ p.nodes[list[k]].c # first.c}
      read == IF differ = {} THEN Len(list) ELSE Earliest(differ)
      whole == differ = {} /\ Len(list) = GroupCount(first.a[1])
      q == Charge(p, IF whole THEN 2 * Len(list) - 1 ELSE read)
      merged == FoldLeft(LAMBDA r, k : [r EXCEPT !.nodes[k].len = 0], q, Tail(list))
  IN IF Failed(p) \/ set.head # 0 \/ set.tables = 0 THEN p
     ELSE IF ~whole \/ Failed(q) THEN q
     ELSE [merged EXCEPT !.nodes[set.tables].a = <<first.a[1], EveryGroup>>, !.nodes[set.tables].start = 0]

(* unlink_table and reserve_filter: a table becomes an alternative; its    *)
(* filter has a bit for each member it tries.                              *)
Unlink(p, head, taken) ==
  LET next == p.nodes[taken].start
      before == SelectSeq(Tables(p, head), LAMBDA k : p.nodes[k].start = taken)
  IN FoldLeft(LAMBDA q, k : [q EXCEPT !.nodes[k].start = next],
              [p EXCEPT !.result = <<IF head = taken THEN next ELSE head>>], before)
ReserveFilter(p, table) ==
  LET n == p.nodes[table]
      words == (Cardinality(InGroup(n.a[1], n.a[2])) + 31) \div 32
  IN IF n.c = 0 \/ n.b # 0 THEN p
     ELSE [p EXCEPT !.filters = @ + words, !.nodes[table].b = p.filters + 1]

(* string_sequence: the characters of a string, which is taken.            *)
StringSequence(p, string) ==
  LET n == p.nodes[string]
      joined == FoldLeft(LAMBDA q, k : Join(q, "SEQ", q.node, n.a + k), [p EXCEPT !.node = n.a],
                         [k \in 1 .. n.b - 1 |-> k])
  IN IF Failed(joined) THEN joined ELSE [joined EXCEPT !.nodes[string].kind = "EMPTY"]

(* materialize: alternatives are put before those that are there, so the   *)
(* shortest is taken first.                                                *)
Before(p, node, rest) == IF rest = 0 THEN [p EXCEPT !.node = node] ELSE Join(p, "ALT", node, rest)

RECURSIVE WithStrings(_, _, _, _)
WithStrings(p, head, tables, rest) ==
  Then(ShortestString(p, head), LAMBDA s :
  Then(ShortestTable(s, tables), LAMBDA t :
    LET string == s.value
        table == t.value
        listed == string # 0 /\ (table = 0 \/ p.nodes[string].b <= TableLength(p, table))
        spelled == StringSequence(t, string)
        unlinked == Unlink(t, tables, table)
    IN IF string = 0 /\ table = 0 THEN [t EXCEPT !.node = rest]
       ELSE Then(IF listed THEN Before(spelled, spelled.node, rest)
                 ELSE Before(ReserveFilter(unlinked, table), table, rest), LAMBDA next :
              WithStrings(next, head, IF listed THEN tables ELSE unlinked.result[1], next.node))))

Materialize(p, set) ==
  LET empty == IF set.empty THEN Add(p, [Blank EXCEPT !.first = p.captures, !.end = p.captures])
               ELSE [p EXCEPT !.node = 0]
      only == ~set.empty /\ set.head = 0 /\ set.tables = 0
      chars == IF MatchesNothing(p, set.chars) /\ ~only THEN empty
               ELSE Before(empty, set.chars, empty.node)
      whole == WholeProperty(chars, set)
  IN IF Failed(p) THEN p
     ELSE IF Failed(whole) THEN whole ELSE WithStrings(whole, set.head, set.tables, whole.node)

(* A class of the v flag, and a property of strings outside a class.       *)
ClassSet(p) == Then(ClassSetOperand(p), LAMBDA q : Materialize(q, q.result))
SequenceClass(p) == Then(SequenceProperty(p, p.pending), LAMBDA q : Materialize(q, q.result))
==============================================================================
