------------------------------- MODULE Grammar -------------------------------
(***************************************************************************)
(* The grammar of ECMAScript patterns with the additions of Annex B, as    *)
(* the relation between a text and its syntax trees (those of Emission,    *)
(* before quantifiers are merged).  It is what the parser is compared      *)
(* with.  A production is the set of <<end, tree>> it derives from a place *)
(* in the text; Annex B's rule that an alternative is considered only if   *)
(* those before it do not match is a condition of the later one.           *)
(*                                                                         *)
(* A context g has the text, the modes u and named (whether the pattern    *)
(* has named groups) and total, the groups of the whole pattern; f is the  *)
(* set of flags in force.  Of a class the members among Sample are kept.   *)
(***************************************************************************)
EXTENDS Integers, Sequences, FiniteSets, SequencesExt

CONSTANT Sample                  \* characters class members are compared on

T == INSTANCE Emission

At(g, i) == IF i < Len(g.text) THEN g.text[i + 1] ELSE -1
Is(g, i, c) == At(g, i) = c
Digit == 48 .. 57
Octal == 48 .. 55
Letter == (65 .. 90) \cup (97 .. 122)
SyntaxChars == {94, 36, 92, 46, 42, 43, 63, 40, 41, 91, 93, 123, 125, 124}

(* A second way to read a text counts only where there is no first.        *)
Or_(first, second) == IF first # {} THEN first ELSE second

(* A character and where it ends: under u a pair of surrogates is one.     *)
IsPair(g, i) == g.u /\ At(g, i) \in 55296 .. 56319 /\ At(g, i + 1) \in 56320 .. 57343
Point(g, i) ==
  IF At(g, i) = -1 THEN {}
  ELSE IF IsPair(g, i)
    THEN {<<i + 2, (65536 + (At(g, i) - 55296) * 1024) + (At(g, i + 1) - 56320)>>}
  ELSE {<<i + 1, At(g, i)>>}

(* A run of digits, as long as it goes: its end and its number.            *)
DigitsEnd(g, i) == CHOOSE e \in i .. Len(g.text) :
                     (\A k \in i .. e - 1 : At(g, k) \in Digit) /\ At(g, e) \notin Digit
RECURSIVE NumberOf(_, _, _)
NumberOf(g, i, e) == IF e = i THEN 0 ELSE NumberOf(g, i, e - 1) * 10 + (At(g, e - 1) - 48)
DecimalDigits(g, i) ==
  LET e == DigitsEnd(g, i) IN IF e = i THEN {} ELSE {<<e, NumberOf(g, i, e)>>}

HexValue(c) == CASE c \in 48 .. 57 -> c - 48 [] c \in 65 .. 70 -> c - 55 [] OTHER -> c - 87
Hexadecimal == (48 .. 57) \cup (65 .. 70) \cup (97 .. 102)
RECURSIVE HexOf(_, _, _)
HexOf(g, i, e) == IF e = i THEN 0 ELSE HexOf(g, i, e - 1) * 16 + HexValue(At(g, e - 1))
HexDigits(g, i, n) ==
  IF \A k \in i .. i + n - 1 : At(g, k) \in Hexadecimal THEN {<<i + n, HexOf(g, i, i + n)>>} ELSE {}

------------------------------------------------------------------------------
(* RegExpUnicodeEscapeSequence, after the u.                               *)
FourDigits(g, i) == HexDigits(g, i, 4)
UnicodeEscape(g, i, u) ==
  LET joined == {<<low[1], (65536 + (x[2] - 55296) * 1024) + (low[2] - 56320)>> :
                   <<x, low>> \in {y \in FourDigits(g, i) \X (IF Is(g, i + 4, 92) /\ Is(g, i + 5, 117)
                                                             THEN FourDigits(g, i + 6) ELSE {}) :
                                 y[1][2] \in 55296 .. 56319 /\ y[2][2] \in 56320 .. 57343}}
      braced == {x \in UNION {HexDigits(g, i + 1, n) : n \in 1 .. Len(g.text)} :
                   Is(g, x[1], 125) /\ x[2] <= 1114111}
  IN IF ~u THEN FourDigits(g, i)
     ELSE IF Is(g, i, 123) THEN {<<x[1] + 1, x[2]>> : x \in braced}
     ELSE Or_(joined, FourDigits(g, i))

LegacyOctal(g, i) ==
  LET c == At(g, i)
      n == IF At(g, i) \notin Octal THEN 0
           ELSE IF At(g, i + 1) \notin Octal THEN 1
           ELSE IF At(g, i + 2) \notin Octal \/ c > 51 THEN 2 ELSE 3
      value == FoldLeft(LAMBDA v, k : v * 8 + (At(g, i + k - 1) - 48), 0, [k \in 1 .. n |-> k])
  IN IF n = 0 THEN {} ELSE {<<i + n, value>>}

(* CharacterEscape, from the character after the backslash.                *)
CharacterEscape(g, i) ==
  LET c == At(g, i)
      control == CASE c = 102 -> {12} [] c = 110 -> {10} [] c = 114 -> {13} [] c = 116 -> {9}
                   [] c = 118 -> {11} [] OTHER -> {}
      hex == IF c = 120 THEN HexDigits(g, i + 1, 2)
             ELSE IF c = 117 THEN UnicodeEscape(g, i + 1, g.u) ELSE {}
      identity == IF g.u THEN c \in SyntaxChars \cup {47}
                  ELSE c \notin {-1, 99} /\ (g.named => c # 107)
  IN IF control # {} THEN {<<i + 1, v>> : v \in control}
     ELSE IF c = 99 THEN IF At(g, i + 1) \in Letter THEN {<<i + 2, At(g, i + 1) % 32>>} ELSE {}
     ELSE IF c = 48 /\ At(g, i + 1) \notin Digit THEN {<<i + 1, 0>>}
     ELSE Or_(hex, IF ~g.u /\ c \in Octal THEN LegacyOctal(g, i)
                   ELSE IF identity THEN {<<i + 1, c>>} ELSE {})

WordCharacters(g, f) ==
  {c \in Sample : c \in Digit \cup Letter \cup {95} \/ (g.u /\ "i" \in f /\ c \in {383, 8490})}
Spaces == {9, 10, 11, 12, 13, 32, 160, 5760, 8232, 8233, 8239, 8287, 12288, 65279}
CharacterClass(g, f, i) ==
  LET c == At(g, i)
      all == IF g.u THEN Sample ELSE Sample \cap 0 .. 65535
  IN
    CASE c = 100 -> {Sample \cap Digit}
      [] c = 68 -> {all \ Digit}
      [] c = 119 -> {WordCharacters(g, f)}
      [] c = 87 -> {all \ WordCharacters(g, f)}
      [] c = 115 -> {Sample \cap Spaces}
      [] c = 83 -> {all \ Spaces}
      [] OTHER -> {}

(* GroupName, from the character after `<`.                                *)
NameStart(c) == c \in Letter \cup {36, 95}
RECURSIVE GroupName(_, _, _)
GroupName(g, i, name) ==
  LET points == IF ~Is(g, i, 92) THEN Point([g EXCEPT !.u = TRUE], i)
                ELSE IF Is(g, i + 1, 117) THEN UnicodeEscape(g, i + 2, TRUE) ELSE {}
      allowed == {x \in points : NameStart(x[2]) \/ (name # <<>> /\ x[2] \in Digit)}
  IN IF Is(g, i, 62) THEN IF name = <<>> THEN {} ELSE {<<i + 1, name>>}
     ELSE UNION {GroupName(g, x[1], Append(name, x[2])) : x \in allowed}

------------------------------------------------------------------------------
(* A class is the set of its members; an atom of one is a set, and whether *)
(* it is a single character.                                               *)
Alone(x) == [end |-> x[1], members |-> Sample \cap {x[2]}, point |-> x[2]]
ClassAtoms(g, f, i) ==
  LET c == At(g, i + 1)
      classes == {[end |-> i + 2, members |-> m, point |-> -1] : m \in CharacterClass(g, f, i + 1)}
      letters == IF c = 99 /\ ~g.u /\ At(g, i + 2) \in Digit \cup {95}
                   THEN {<<i + 3, At(g, i + 2) % 32>>} ELSE {}
      escapes == IF c = 98 THEN {<<i + 2, 8>>}
                 ELSE IF g.u /\ c = 45 THEN {<<i + 2, 45>>}
                 ELSE Or_(letters, CharacterEscape(g, i + 1))
      backslash == IF ~g.u /\ c = 99 THEN {<<i + 1, 92>>} ELSE {}
  IN IF ~Is(g, i, 92) THEN {Alone(x) : x \in Point(g, i)}
     ELSE Or_(classes, {Alone(x) : x \in Or_(escapes, backslash)})

RangeBetween(g, x, y) ==
  IF x.point # -1 /\ y.point # -1
    THEN IF x.point <= y.point THEN {{c \in Sample : x.point <= c /\ c <= y.point}} ELSE {}
  ELSE IF g.u THEN {} ELSE {(x.members \cup y.members) \cup (Sample \cap {45})}

RECURSIVE ClassRanges(_, _, _, _)
ClassRanges(g, f, i, members) ==
  LET dashed(x) == Is(g, x.end, 45) /\ ~Is(g, x.end + 1, 93) IN
  IF Is(g, i, 93) THEN {<<i + 1, members>>}
  ELSE UNION {IF dashed(x)
                THEN UNION {UNION {ClassRanges(g, f, y.end, members \cup r) : r \in RangeBetween(g, x, y)} :
                              y \in ClassAtoms(g, f, x.end + 1)}
                ELSE ClassRanges(g, f, x.end, members \cup x.members) :
              x \in ClassAtoms(g, f, i)}

(* Canonicalize: the letters and the two characters u adds to k and s.     *)
SameLetter(g, c, d) ==
  LET upper(x) == CASE x \in 97 .. 122 -> x - 32
                    [] g.u /\ x = 383 -> 83
                    [] g.u /\ x = 8490 -> 75
                    [] OTHER -> x
  IN upper(c) = upper(d)
Folded(g, f, members) ==
  IF "i" \in f THEN {c \in Sample : \E d \in members : SameLetter(g, c, d)} ELSE members
ClassTree(g, f, members, negated) == T!Leaf("CLASS", Folded(g, f, members), negated)
CharTree(f, point) == T!Leaf("CHAR", point, "i" \in f)

------------------------------------------------------------------------------
Bounds(g, i) ==
  UNION {IF Is(g, x[1], 125) THEN {<<x[1] + 1, x[2], x[2], FALSE>>}
         ELSE IF ~Is(g, x[1], 44) THEN {}
         ELSE IF Is(g, x[1] + 1, 125) THEN {<<x[1] + 2, x[2], 0, TRUE>>}
         ELSE {<<y[1] + 1, x[2], y[2], FALSE>> :
                 y \in {z \in DecimalDigits(g, x[1] + 1) : Is(g, z[1], 125)}} :
         x \in IF Is(g, i, 123) THEN DecimalDigits(g, i + 1) ELSE {}}

(* Quantifier: the bounds must be in order.                                *)
QuantifierPrefixes(g, i) ==
  CASE Is(g, i, 42) -> {<<i + 1, 0, 0, TRUE>>}
    [] Is(g, i, 43) -> {<<i + 1, 1, 0, TRUE>>}
    [] Is(g, i, 63) -> {<<i + 1, 0, 1, FALSE>>}
    [] OTHER -> {x \in Bounds(g, i) : x[4] \/ x[2] <= x[3]}
Quantifiers(g, i) ==
  {<<x[1], x[2], x[3], x[4], FALSE>> : x \in {y \in QuantifierPrefixes(g, i) : ~Is(g, y[1], 63)}} \cup
  {<<x[1] + 1, x[2], x[3], x[4], TRUE>> : x \in {y \in QuantifierPrefixes(g, i) : Is(g, y[1], 63)}}

RECURSIVE ModifierLetters(_, _, _)
ModifierLetters(g, i, letters) ==
  {<<i, letters>>} \cup
  (IF At(g, i) \in {105, 109, 115}
     THEN LET l == CASE Is(g, i, 105) -> "i" [] Is(g, i, 109) -> "m" [] Is(g, i, 115) -> "s"
          IN IF l \in letters THEN {} ELSE ModifierLetters(g, i + 1, letters \cup {l})
     ELSE {})
(* The flags `(?ims-ims:` leaves in force: no letter twice, and one at     *)
(* least.                                                                  *)
ModifiedFlags(g, f, i) ==
  {<<x[1] + 1, f \cup x[2]>> :
      x \in {y \in ModifierLetters(g, i, {}) : Is(g, y[1], 58) /\ y[2] # {}}} \cup
  {<<z[2][1] + 1, (f \cup z[1][2]) \ z[2][2]>> :
      z \in {y \in UNION {{x} \X ModifierLetters(g, x[1] + 1, {}) :
                            x \in {w \in ModifierLetters(g, i, {}) : Is(g, w[1], 45)}} :
               /\ Is(g, y[2][1], 58)
               /\ y[1][2] \cap y[2][2] = {}
               /\ y[1][2] \cup y[2][2] # {}}}

(* Groups are numbered by where they open; -1 is no name.                  *)
Captured(i, name, child) == [kind |-> "GROUP", index |-> i, name |-> name, child |-> child]

RECURSIVE Disjunctions(_, _, _), Lists(_, _, _), Sequences_(_, _, _, _), Term(_, _, _)

Closed(g, f, i) == {<<x[1] + 1, x[2]>> : x \in {y \in Disjunctions(g, f, i) : Is(g, y[1], 41)}}

Lookaround(g, f, i) ==
  IF ~Is(g, i, 40) \/ ~Is(g, i + 1, 63) THEN {}
  ELSE IF At(g, i + 2) \in {61, 33}
    THEN {<<x[1], T!Look(Is(g, i + 2, 33), FALSE, x[2])>> : x \in Closed(g, f, i + 3)}
  ELSE IF Is(g, i + 2, 60) /\ At(g, i + 3) \in {61, 33}
    THEN {<<x[1], T!Look(Is(g, i + 3, 33), TRUE, x[2])>> : x \in Closed(g, f, i + 4)}
  ELSE {}

Grouping(g, f, i) ==
  LET names == IF Is(g, i + 1, 63) /\ Is(g, i + 2, 60) THEN GroupName(g, i + 3, <<>>) ELSE {}
  IN IF ~Is(g, i, 40) THEN {}
     ELSE IF ~Is(g, i + 1, 63)
       THEN {<<x[1], Captured(i, <<>>, x[2])>> : x \in Closed(g, f, i + 1)}
     ELSE IF Is(g, i + 2, 58) THEN {<<x[1], T!Wrap(x[2])>> : x \in Closed(g, f, i + 3)}
     ELSE UNION {{<<x[1], T!Wrap(x[2])>> : x \in Closed(g, m[2], m[1])} : m \in ModifiedFlags(g, f, i + 2)}
          \cup UNION {{<<x[1], Captured(i, n[2], x[2])>> : x \in Closed(g, f, n[1])} : n \in names}

(* AtomEscape, with Annex B's reading of what names no group.              *)
Escape(g, f, i) ==
  LET c == At(g, i + 1)
      decimal == IF c \in 49 .. 57 THEN DecimalDigits(g, i + 1) ELSE {}
      references == {x \in decimal : x[2] < g.total}
      class == CharacterClass(g, f, i + 1)
      names == IF Is(g, i + 2, 60) THEN GroupName(g, i + 3, <<>>) ELSE {}
      backslash == IF ~g.u /\ c = 99 THEN {<<i + 1, 92>>} ELSE {}
  IN IF ~Is(g, i, 92) \/ c \in {98, 66} THEN {}
     ELSE Or_({<<x[1], T!Leaf("BACKREF", x[2], "i" \in f)>> : x \in references},
          Or_({<<i + 2, ClassTree(g, f, m, FALSE)>> : m \in class},
              IF c = 107 /\ g.named THEN {<<x[1], T!Leaf("NAMED", x[2], "i" \in f)>> : x \in names}
              ELSE {<<x[1], CharTree(f, x[2])>> : x \in Or_(CharacterEscape(g, i + 1), backslash)}))

Bracketed(g, f, i) ==
  LET negated == Is(g, i + 1, 94)
      ranges == IF Is(g, i, 91) THEN ClassRanges(g, f, IF negated THEN i + 2 ELSE i + 1, {}) ELSE {}
  IN {<<x[1], ClassTree(g, f, x[2], negated)>> : x \in ranges}

Plain(g, f, i) ==
  IF (IF g.u THEN At(g, i) \in SyntaxChars ELSE At(g, i) \in SyntaxChars \ {93, 123, 125})
     \/ Bounds(g, i) # {}
    THEN {} ELSE {<<x[1], CharTree(f, x[2])>> : x \in Point(g, i)}

Atoms(g, f, i) ==
  (IF Is(g, i, 46) THEN {<<i + 1, T!Leaf(IF "s" \in f THEN "ANY_S" ELSE "ANY", 0, 0)>>} ELSE {})
  \cup Grouping(g, f, i) \cup Escape(g, f, i) \cup Bracketed(g, f, i) \cup Plain(g, f, i)

Assertions(g, f, i) ==
  LET m == IF "m" \in f THEN "_M" ELSE "" IN
    CASE Is(g, i, 94) -> {<<i + 1, T!Leaf("START" \o m, 0, 0)>>}
      [] Is(g, i, 36) -> {<<i + 1, T!Leaf("END" \o m, 0, 0)>>}
      [] Is(g, i, 92) /\ Is(g, i + 1, 98) -> {<<i + 2, T!Leaf("WORD", 0, 0)>>}
      [] Is(g, i, 92) /\ Is(g, i + 1, 66) -> {<<i + 2, T!Leaf("WORD", 1, 0)>>}
      [] OTHER -> Lookaround(g, f, i)

(* A lookahead may be quantified without u, no other assertion may.        *)
Terms(g, atoms, assertions) ==
  LET quantifiable == atoms \cup {x \in assertions : ~g.u /\ x[2].kind = "ASSERT" /\ ~x[2].behind}
  IN Or_(UNION {{<<q[1], T!Repeat(x[2], q[2], q[3], q[4], q[5])>> : q \in Quantifiers(g, x[1])} :
                  x \in quantifiable},
         atoms \cup assertions)
Term(g, f, i) ==
  Terms(g, Atoms(g, f, i), Assertions(g, f, i))

Sequences_(g, f, i, tree) ==
  {<<i, IF tree = <<>> THEN T!Leaf("EMPTY", 0, 0) ELSE tree[1]>>} \cup
  UNION {Sequences_(g, f, x[1], IF tree = <<>> THEN <<x[2]>> ELSE <<T!Join("SEQ", tree[1], x[2])>>) :
           x \in Term(g, f, i)}

(* A list ends where a disjunction can go on or be closed.                 *)
Lists(g, f, i) == {x \in Sequences_(g, f, i, <<>>) : At(g, x[1]) \in {-1, 41, 124}}

RECURSIVE Alternated(_, _, _, _)
Alternated(g, f, i, tree) ==
  UNION {LET all == IF tree = <<>> THEN x[2] ELSE T!Join("ALT", tree[1], x[2]) IN
           {<<x[1], all>>} \cup (IF Is(g, x[1], 124) THEN Alternated(g, f, x[1] + 1, <<all>>) ELSE {}) :
         x \in Lists(g, f, i)}
Disjunctions(g, f, i) == {x \in Alternated(g, f, i, <<>>) : At(g, x[1]) \in {-1, 41}}

------------------------------------------------------------------------------
(* The groups of a tree, as <<where it opens, its name>>.                  *)
RECURSIVE GroupsOf(_), Distinct(_), Numbered(_, _), NamesUsed(_)
GroupsOf(n) ==
  CASE n.kind = "GROUP" -> {<<n.index, n.name>>} \cup GroupsOf(n.child)
    [] n.kind \in {"WRAP", "ASSERT", "REPEAT"} -> GroupsOf(n.child)
    [] n.kind \in {"SEQ", "ALT"} -> GroupsOf(n.left) \cup GroupsOf(n.right)
    [] OTHER -> {}
NamesOf(n) == {x[2] : x \in GroupsOf(n)} \ {<<>>}

(* MightBothParticipate: only different alternatives may share a name.     *)
Distinct(n) ==
  CASE n.kind = "GROUP" -> n.name \notin NamesOf(n.child) /\ Distinct(n.child)
    [] n.kind \in {"WRAP", "ASSERT", "REPEAT"} -> Distinct(n.child)
    [] n.kind = "ALT" -> Distinct(n.left) /\ Distinct(n.right)
    [] n.kind = "SEQ" -> NamesOf(n.left) \cap NamesOf(n.right) = {} /\ Distinct(n.left) /\ Distinct(n.right)
    [] OTHER -> TRUE

NamesUsed(n) ==
  CASE n.kind = "NAMED" -> {n.a}
    [] n.kind \in {"GROUP", "WRAP", "ASSERT", "REPEAT"} -> NamesUsed(n.child)
    [] n.kind \in {"SEQ", "ALT"} -> NamesUsed(n.left) \cup NamesUsed(n.right)
    [] OTHER -> {}

(* The group opened at a place, counted from one in the order they open.   *)
NumberAt(groups, place) == Cardinality({x \in groups : x[1] <= place})
Carrying(groups, name) ==
  SetToSortSeq({NumberAt(groups, x[1]) : x \in {y \in groups : y[2] = name}}, <)
Numbered(n, groups) ==
  CASE n.kind = "GROUP" -> T!Group(NumberAt(groups, n.index), Numbered(n.child, groups))
    [] n.kind \in {"WRAP", "ASSERT", "REPEAT"} -> [n EXCEPT !.child = Numbered(@, groups)]
    [] n.kind \in {"SEQ", "ALT"} -> [n EXCEPT !.left = Numbered(@, groups), !.right = Numbered(@, groups)]
    [] n.kind = "NAMED" -> LET of == Carrying(groups, n.a) IN
         IF Len(of) = 1 THEN T!Leaf("BACKREF", of[1], n.b) ELSE T!Leaf("NAMED", of, n.b)
    [] OTHER -> n

(* The trees of a whole text: the groups it is read with are those it has. *)
TreesOf(g, f) ==
  {n \in {x[2] : x \in {y \in Disjunctions(g, f, 0) : y[1] = Len(g.text)}} :
     /\ Cardinality(GroupsOf(n)) + 1 = g.total
     /\ (NamesOf(n) # {}) = g.names
     /\ Distinct(n)
     /\ NamesUsed(n) \subseteq NamesOf(n)}
Trees(text, u, f) ==
  LET most == Cardinality({k \in DOMAIN text : text[k] = 40}) + 1
      contexts == {[text |-> text, u |-> u, names |-> x[1], named |-> u \/ x[1], total |-> x[2]] :
                     x \in BOOLEAN \X (1 .. most)}
  IN {Numbered(n, GroupsOf(n)) :
        n \in UNION {TreesOf(g, f) : g \in contexts}}
==============================================================================
