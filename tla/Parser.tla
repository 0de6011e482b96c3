-------------------------------- MODULE Parser --------------------------------
(***************************************************************************)
(* How a pattern's text becomes the nodes a program is emitted from        *)
(* (compiler.rs, compiler/names.rs and compiler/repetition.rs), with every *)
(* unit of work, every limit and the place of every error.  Escapes and    *)
(* classes are modules Escapes and ClassSets.                              *)
(*                                                                         *)
(* An operation's result is in the `node`, `value` or `result` of the      *)
(* parser it leaves.                                                       *)
(***************************************************************************)
EXTENDS ClassSets

CONSTANTS
  DepthLimit,      \* groups nested in one another (128)
  MaxNumber        \* the largest number a decimal may hold (2^32 - 1)

ASSUME ParserLimitsAreNumbers == {DepthLimit, MaxNumber} \subseteq Nat

Identifier(point, first) == point \in Letters \cup {36, 95} \/ (~first /\ point \in Digits)

------------------------------------------------------------------------------
(* Parser::name: the interned name of the characters up to `>`.            *)
NameCharacter(p) ==
  IF ~Sees(p, 92) THEN Character([p EXCEPT !.flags = @ \cup {"u"}])
  ELSE Then(Take(p), LAMBDA q :
         IF ~Sees(q, 117) THEN Syntax(q)
         ELSE EscapedPoint([Take(q) EXCEPT !.flags = @ \cup {"u"}], 117, FALSE))

RECURSIVE NamePoints(_, _)
NamePoints(p, points) ==
  IF Sees(p, 62) THEN [Take(p) EXCEPT !.result = points]
  ELSE Then([NameCharacter(p) EXCEPT !.flags = p.flags], LAMBDA q :
    IF ~Identifier(q.value, points = <<>>) THEN Syntax(q)
    ELSE IF Len(q.ranges) = RangeLimit - q.chars THEN Fail(q, "Ranges")
    ELSE NamePoints([q EXCEPT !.chars = @ + 1], Append(points, q.value)))

(* The comparisons made until names differ, or to the end of them.         *)
Compared(points, other) ==
  LET differ == Earliest({k \in DOMAIN points : points[k] # other[k]})
  IN IF differ = 0 THEN Len(points) ELSE differ

(* Names met before, the newest first; `value` is the one that is equal.   *)
RECURSIVE Interned(_, _, _)
Interned(p, next, points) ==
  IF next = 0 \/ Failed(p) THEN [p EXCEPT !.value = 0]
  ELSE LET old == p.nodes[next]
           same == Len(old.a) = Len(points)
           q == Charge(Step(p), IF same THEN Compared(points, old.a) ELSE 0)
       IN IF old.a = points THEN [q EXCEPT !.value = next] ELSE Interned(q, old.start, points)

NameUnits(points) == FoldLeft(LAMBDA n, c : n + (IF c > 65535 THEN 2 ELSE 1), 0, points)

Name(p) ==
  Then(NamePoints(p, <<>>), LAMBDA q :
    IF q.result = <<>> THEN Syntax(q)
    ELSE Then(Interned(q, q.newest, q.result), LAMBDA found :
      IF found.value # 0 THEN [found EXCEPT !.chars = p.chars]
      ELSE Then(Add(found, [Blank EXCEPT !.kind = "NAME_META", !.a = q.result, !.flags = 0,
                              !.len = NameUnits(q.result), !.start = q.newest]), LAMBDA added :
             [added EXCEPT !.newest = added.node, !.value = added.node])))

(* declare_name: a name's declarations are chained in the order they come. *)
DeclareName(p, name, capture) ==
  Then(Add(p, [Blank EXCEPT !.kind = "NAME_DECL", !.a = name, !.b = capture, !.flags = 0]), LAMBDA q :
    LET previous == p.nodes[name].end
        link(nodes) == IF previous = 0 THEN nodes ELSE [nodes EXCEPT ![previous].flags = q.node]
        fresh == p.nodes[name].first = 0
    IN [q EXCEPT !.names = IF fresh THEN @ + 1 ELSE @,
          !.nodes = [link(@) EXCEPT ![name] =
             [@ EXCEPT !.first = @ + 1, !.end = q.node,
                       !.c = IF fresh THEN q.names ELSE @,
                       !.flags = IF fresh THEN q.node ELSE @]]])

------------------------------------------------------------------------------
(* Parser::decimal and Parser::braces: `result` is empty when the text is  *)
(* no quantifier, with the mark where it was.                              *)
RECURSIVE Decimal(_, _)
Decimal(p, value) ==
  IF Peek(p) \notin Digits THEN [p EXCEPT !.value = value]
  ELSE LET q == Take(p)
           next == (IF value = End THEN 0 ELSE value) * 10 + (Peek(p) - 48)
       IN IF next > MaxNumber THEN Fail(q, "SizeLimit") ELSE Decimal(q, next)

Braces(p) ==
  LET none(q) == [Back(q, p.at) EXCEPT !.result = <<>>] IN
    IF ~Sees(p, 123) THEN none(p)
    ELSE Then(Decimal(Take(p), End), LAMBDA min :
      IF min.value = End THEN none(min)
      ELSE Then(IF Sees(min, 44) THEN Decimal(Take(min), End) ELSE min, LAMBDA max :
        LET infinite == Sees(min, 44) /\ max.value = End IN
          IF ~Sees(max, 125) THEN none(max)
          ELSE IF ~infinite /\ max.value < min.value THEN Syntax(Take(max))
          ELSE [Take(max) EXCEPT
                  !.result = <<min.value, IF infinite THEN 0 ELSE max.value, infinite>>]))

(* merge_repetition: the bounds of a greedy repeat of one character that   *)
(* is repeated again are multiplied; `value` is 1 when they have been.     *)
Atoms == {"CHAR", "CLASS", "ANY"}
RECURSIVE Unwrap(_, _), Resized(_, _, _, _)
Unwrap(p, id) ==
  IF Failed(p) \/ p.nodes[id].kind # "WRAP" THEN [p EXCEPT !.value = id]
  ELSE Unwrap(Step(p), p.nodes[id].a)
(* Fault: the wrappers around a merged repeat keep the size of what they   *)
(* held.                                                                   *)
ResizedNone(p, wrapper, id, len) == p

Resized(p, wrapper, id, len) ==
  IF wrapper = id \/ Failed(p) THEN p
  ELSE Resized([Step(p) EXCEPT !.nodes[wrapper].len = len], p.nodes[wrapper].a, id, len)

Product(bound, min, max, infinite) ==
  LET empty == (~bound[3] /\ bound[2] = 0) \/ (~infinite /\ max = 0)
      any == ~empty /\ (bound[3] \/ infinite)
  IN <<bound[1] * min, IF empty \/ any THEN 0 ELSE bound[2] * max, any>>

MergeRepetition(p, child, bound) ==
  LET outer == Unwrap(p, child)
      id == outer.value
      n == p.nodes[id]
      arm == Unwrap(outer, n.b)
      optional == n.kind = "ALT"
      greedy == n.kind = "REPEAT" /\ "lazy" \notin n.flags /\ n.b <= 1
      read == IF optional THEN arm ELSE outer
      atom == Unwrap(read, n.a)
      merged == IF optional THEN Product(bound, 0, 1, FALSE)
                ELSE Product(bound, n.b, n.c, "infinite" \in n.flags)
      len == p.nodes[n.a].len + 4
      node == [n EXCEPT !.kind = "REPEAT", !.b = merged[1], !.c = merged[2], !.len = len,
               !.flags = IF merged[3] THEN {"infinite"} ELSE {}]
      no(q) == [q EXCEPT !.value = 0]
  IN IF Failed(outer) \/ ~(optional \/ greedy) THEN no(outer)
     ELSE IF Failed(read) \/ (optional /\ p.nodes[arm.value].kind # "EMPTY") THEN no(read)
     ELSE IF Failed(atom) \/ p.nodes[atom.value].kind \notin Atoms \/ merged[2] > MaxNumber
       THEN no(atom)
     ELSE [Resized([atom EXCEPT !.nodes[id] = node, !.repeats = IF optional THEN @ + 1 ELSE @],
                   child, id, len) EXCEPT !.value = 1]

Unquantified(p, node) ==
  node.kind \in {"START", "END", "WORD"} \/
  (node.kind = "ASSERT" /\ (Unicode(p) \/ "behind" \in node.flags))

Quantifier(p) ==
  LET child == p.node
      node == p.nodes[child]
      read == CASE Sees(p, 42) -> [Take(p) EXCEPT !.result = <<0, 0, TRUE>>]
                [] Sees(p, 43) -> [Take(p) EXCEPT !.result = <<1, 0, TRUE>>]
                [] Sees(p, 63) -> [Take(p) EXCEPT !.result = <<0, 1, FALSE>>]
                [] OTHER -> Braces(p)
  IN Then(read, LAMBDA bound :
       IF bound.result = <<>> THEN [bound EXCEPT !.node = child]
       ELSE IF Unquantified(p, node) THEN Syntax(bound)
       ELSE LET lazy == Sees(bound, 63) IN
         Then(IF lazy THEN [Take(bound) EXCEPT !.value = 0]
              ELSE MergeRepetition(bound, child, bound.result), LAMBDA merged :
           IF merged.value = 1 THEN [merged EXCEPT !.node = child]
           ELSE Add([merged EXCEPT !.repeats = @ + 1],
                    [node EXCEPT !.kind = "REPEAT", !.a = child, !.b = bound.result[1],
                     !.c = bound.result[2], !.len = node.len + 4, !.start = merged.repeats,
                     !.flags = (IF bound.result[3] THEN {"infinite"} ELSE {})
                               \cup (IF lazy THEN {"lazy"} ELSE {})])))

------------------------------------------------------------------------------
(* numeric_node: a reference when the whole number names a group of the    *)
(* pattern, otherwise a character, whose other digits are read again.      *)
RECURSIVE Number(_, _)
Number(p, value) ==
  IF Peek(p) \notin Digits THEN [p EXCEPT !.value = value]
  ELSE LET next == value * 10 + (Peek(p) - 48) IN
         Number(Take(p), IF value = End \/ next > MaxNumber THEN End ELSE next)

(* Fault: only the groups opened so far can be referred to.                *)
NumericNodeOpen(p, first) ==
  LET q == Number(p, first - 48)
      character == NumericCharacter(Back(q, p.at), first)
  IN IF q.value \in 0 .. q.captures - 1 THEN Leaf(q, "BACKREF", q.value, 0)
     ELSE IF Unicode(p) THEN Syntax(q) ELSE Leaf(character, "CHAR", character.value, 0)

NumericNode(p, first) ==
  LET q == Number(p, first - 48)
      number == q.value
      scanned == IF number >= q.captures /\ q.total = 0 THEN ScanGroups(q) ELSE q
      character == NumericCharacter(Back(scanned, p.at), first)
  IN IF Failed(scanned) THEN scanned
     ELSE IF number # End /\ (number < scanned.captures \/ number < scanned.total)
       THEN Leaf(scanned, "BACKREF", number, 0)
     ELSE IF Unicode(p) THEN Syntax(scanned)
     ELSE Leaf(character, "CHAR", character.value, 0)

EscapeNode(p) ==
  LET q == Take(p)
      c == q.value
      plain(r) == Then(EscapedPoint(r, c, FALSE), LAMBDA point : Leaf(point, "CHAR", point.value, 0))
  IN IF Failed(q) THEN q
     ELSE IF c = End THEN Syntax(q)
     ELSE IF c \in {98, 66} THEN Leaf(q, "WORD", IF c = 66 THEN 1 ELSE 0, 0)
     ELSE IF c \in 49 .. 57 THEN NumericNode(q, c)
     ELSE IF c = 107
       THEN Then(HasNamedMode(q), LAMBDA mode :
              IF mode.named # {TRUE} THEN plain(mode)
              ELSE IF ~Sees(mode, 60) THEN Syntax(mode)
              ELSE Then(Name(Take(mode)), LAMBDA name : Leaf(name, "NAMED_BACKREF", name.value, 0)))
     ELSE Then(Builtin(q, c), LAMBDA class :
            IF class.value # 1 THEN plain(q)
            ELSE IF class.pending # 0 THEN SequenceClass(class)
            ELSE ClassLeaf(class, Len(p.ranges), FALSE))

Flag(c) == CASE c = 105 -> "i" [] c = 109 -> "m" [] c = 115 -> "s"

RECURSIVE Modifiers(_, _, _, _)
Modifiers(p, add, remove, subtract) ==
  LET c == Peek(p)
      seen == add \cup remove
  IN IF c \in {105, 109, 115}
       THEN IF Flag(c) \in seen THEN Syntax(Take(p))
            ELSE IF subtract THEN Modifiers(Take(p), add, remove \cup {Flag(c)}, TRUE)
            ELSE Modifiers(Take(p), add \cup {Flag(c)}, remove, FALSE)
     ELSE IF c = 45 /\ ~subtract THEN Modifiers(Take(p), add, remove, TRUE)
     ELSE IF c = 58 /\ seen # {} THEN [Take(p) EXCEPT !.flags = (@ \cup add) \ remove]
     ELSE Syntax(Eat(p, 58))

(* What a parenthesis opens: its kind, its flags and its declared name.    *)
Opened(p, kind, flags, declaration) == [p EXCEPT !.result = <<kind, flags, declaration>>]
NamedGroup(p) ==
  Then(Name([p EXCEPT !.named = {TRUE}]), LAMBDA name :
  Then(DeclareName(name, name.value, p.captures), LAMBDA declared :
    Opened(declared, "GROUP", {}, declared.node)))
Opening(p) ==
  LET q == Take(p)  r == Take(q) IN
    IF ~Sees(p, 63) THEN Opened(p, "GROUP", {}, 0)
    ELSE CASE Sees(q, 58) -> Opened(r, "SEQ", {}, 0)
           [] Sees(q, 61) -> Opened(r, "ASSERT", {}, 0)
           [] Sees(q, 33) -> Opened(r, "ASSERT", {"negative"}, 0)
           [] Sees(q, 60) -> IF Sees(r, 61) THEN Opened(Take(r), "ASSERT", {"behind"}, 0)
                             ELSE IF Sees(r, 33)
                               THEN Opened(Take(r), "ASSERT", {"behind", "negative"}, 0)
                             ELSE NamedGroup(r)
           [] Peek(q) \in {105, 109, 115, 45} -> Opened(Modifiers(q, {}, {}, FALSE), "SEQ", {}, 0)
           [] OTHER -> Syntax(q)

RECURSIVE Disjunction(_), Alternatives_(_, _), Terms(_, _), Atom(_)

Parenthesis(p) ==
  Then(Opening(p), LAMBDA opening :
    LET kind == opening.result[1]
        declaration == opening.result[3]
    IN Then(Disjunction(IF kind = "GROUP" THEN [opening EXCEPT !.captures = @ + 1] ELSE opening),
            LAMBDA body :
         IF ~Sees(body, 41) THEN Syntax(body)
         ELSE Then([Take(body) EXCEPT !.flags = p.flags], LAMBDA closed :
           LET inner == closed.nodes[body.node] IN
             IF kind = "SEQ" THEN Add(closed, [inner EXCEPT !.kind = "WRAP", !.a = body.node])
             ELSE Then(Add(closed, [Blank EXCEPT !.kind = kind, !.a = body.node,
                                      !.b = IF kind = "GROUP" THEN p.captures ELSE 0,
                                      !.flags = opening.result[2], !.first = p.captures,
                                      !.end = closed.captures, !.len = inner.len + 2]), LAMBDA group :
                    IF declaration = 0 THEN group
                    ELSE [group EXCEPT !.nodes[declaration].c = group.node]))))

Brace(p, before) ==
  Then(Braces(Back(p, before)), LAMBDA q :
    IF q.result # <<>> \/ Unicode(p) THEN Syntax(q)
    ELSE Leaf(Take(Back(q, before)), "CHAR", 123, 0))

Atom(p) ==
  LET q == Take(p)
      c == q.value
      plain == Character(Back(q, p.at))
  IN IF Failed(q) THEN q
     ELSE CASE c = 40 -> Parenthesis(q)
            [] c = 46 -> Leaf(q, "ANY", 0, 0)
            [] c = 94 -> Leaf(q, "START", 0, 0)
            [] c = 36 -> Leaf(q, "END", 0, 0)
            [] c = 91 -> IF p.sets THEN ClassSet(q) ELSE Class(q)
            [] c = 92 -> EscapeNode(q)
            [] c \in {42, 43, 63, End} -> Syntax(q)
            [] c = 123 -> Brace(q, p.at)
            [] c \in {93, 125} /\ Unicode(p) -> Syntax(q)
            [] OTHER -> Leaf(plain, "CHAR", plain.value, 0)

(* Parser::sequence: the terms up to a bar, a closing parenthesis or the   *)
(* end of the text, joined from the left.                                  *)
Terms(p, result) ==
  IF Peek(p) \in {End, 41, 124}
    THEN IF result = 0 THEN Add(p, [Blank EXCEPT !.first = p.captures, !.end = p.captures])
         ELSE [p EXCEPT !.node = result]
  ELSE Then(Atom(p), LAMBDA atom :
       Then(Quantifier(atom), LAMBDA term :
       Then(IF result = 0 THEN term ELSE Join(term, "SEQ", result, term.node), LAMBDA joined :
         Terms(joined, joined.node))))

(* Alternatives, joined from the left; `left` are those read so far.       *)
Alternatives_(p, left) ==
  Then(Terms(p, 0), LAMBDA right :
  Then(IF left = 0 THEN right ELSE Join(right, "ALT", left, right.node), LAMBDA joined :
    IF Sees(joined, 124) THEN Alternatives_(Take(joined), joined.node) ELSE joined))

Disjunction(p) ==
  IF p.depth = DepthLimit THEN Fail(p, "NestingLimit")
  ELSE [Alternatives_([p EXCEPT !.depth = @ + 1], 0) EXCEPT !.depth = @ - 1]

------------------------------------------------------------------------------
(* check_names.  Parents have larger addresses than their children, so the *)
(* nearest node two declarations share is found by walking up from the     *)
(* lower one.                                                              *)
Branching == {"SEQ", "ALT"}
Parents(p) ==
  LET q == Charge(p, Len(p.nodes))
      of(i) == {k \in DOMAIN p.nodes :
                  \/ p.nodes[k].kind \in Branching \cup {"GROUP", "WRAP", "ASSERT", "REPEAT"}
                     /\ p.nodes[k].a = i
                  \/ p.nodes[k].kind \in Branching /\ p.nodes[k].b = i}
  IN [q EXCEPT !.result = [i \in DOMAIN p.nodes |->
        IF of(i) = {} THEN 0 ELSE CHOOSE k \in of(i) : \A l \in of(i) : k >= l]]

RECURSIVE Common(_, _, _), Clashes(_, _, _), Declared(_, _), NamesChecked(_, _)
Common(p, a, b) ==
  IF a = b \/ Failed(p) THEN [p EXCEPT !.value = a]
  ELSE IF a < b THEN Common(Step(p), p.result[a], b) ELSE Common(Step(p), a, p.result[b])

(* Fault: only declarations one after the other clash, not one in another. *)
ClashesInSequence(p, declaration, right) ==
  LET q == Common(Step(p), p.nodes[declaration].c, p.nodes[right].c) IN
    IF right = 0 \/ Failed(p) THEN p
    ELSE IF Failed(q) \/ p.nodes[q.value].kind # "SEQ" THEN q ELSE Syntax(q)

(* Two declarations of a name must be in different alternatives.           *)
Clashes(p, declaration, right) ==
  LET other == p.nodes[right]
      q == Common(Step(p), p.nodes[declaration].c, other.c)
  IN IF right = 0 \/ Failed(p) THEN p
     ELSE IF Failed(q) THEN q
     ELSE IF p.nodes[q.value].kind # "ALT" THEN Syntax(q)
     ELSE Clashes(q, declaration, other.flags)

Declared(p, left) ==
  IF left = 0 \/ Failed(p) THEN p
  ELSE Declared(Clashes(Step(p), left, p.nodes[left].flags), p.nodes[left].flags)

NamesChecked(p, next) ==
  IF next = 0 \/ Failed(p) THEN p
  ELSE LET name == p.nodes[next]  q == Step(p) IN
    IF name.first = 0 THEN Syntax(q) ELSE NamesChecked(Declared(q, name.flags), name.start)

(* A reference to a name declared once is one to its group.                *)
Referred(p, node) ==
  LET name == p.nodes[node.a] IN
    CASE node.kind # "NAMED_BACKREF" -> node
      [] name.first = 1 -> [node EXCEPT !.kind = "BACKREF", !.a = p.nodes[name.flags].b]
      [] OTHER -> [node EXCEPT !.a = name.c]

CheckNames(p) ==
  LET checked == NamesChecked(Parents(p), p.newest)
      q == Charge(checked, Len(p.nodes))
  IN IF p.newest = 0 \/ Failed(p) THEN p
     ELSE IF Failed(q) THEN q
     ELSE [q EXCEPT !.nodes = [k \in DOMAIN @ |-> Referred(q, @[k])]]

(* names_words: the words the names of a program take.                     *)
RECURSIVE NamesWords(_, _, _)
NamesWords(p, next, words) ==
  IF p.names = 0 THEN [p EXCEPT !.value = 0]
  ELSE IF next = 0 \/ Failed(p) THEN [p EXCEPT !.value = words]
  ELSE LET n == p.nodes[next] IN
         NamesWords(Step(p), n.start, words + 3 + (n.len + 1) \div 2 + n.first)

(* prepare_with: the parser of a whole pattern; `node` is its root and     *)
(* `value` the words of its names.                                         *)
Prepare(text, flags, sets, budget) ==
  Then(Disjunction(Fresh(text, flags, sets, budget)), LAMBDA read :
  Then(CheckNames(IF Peek(read) = End THEN read ELSE Syntax(read)), LAMBDA names :
  Then(Charge(names, Len(names.nodes)), LAMBDA checked :
    IF \E k \in DOMAIN names.nodes :
         names.nodes[k].kind = "BACKREF" /\ names.nodes[k].a >= names.captures
      THEN Syntax(checked)
      ELSE [NamesWords(checked, checked.newest, 1) EXCEPT !.node = read.node])))
==============================================================================
