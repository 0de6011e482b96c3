------------------------------ MODULE SetGrammar ------------------------------
(***************************************************************************)
(* The grammar of ECMAScript classes of the v flag, and the set of strings *)
(* a class stands for.  It is what module ClassSets is compared with.      *)
(*                                                                         *)
(* A production is the set of <<end, members, strings>> it derives from a  *)
(* place: `members` are sequences of characters folded as the flags say,   *)
(* `strings` is MayContainStrings.                                         *)
(***************************************************************************)
EXTENDS Grammar

CONSTANTS
  Properties,      \* members of each property of characters, by its letter
  StringProperties \* members of each property of strings, by its letter

Canonical(g, f, c) ==
  IF "i" \in f THEN CHOOSE d \in Sample \cup {c} :
                      SameLetter(g, c, d) /\ (\A e \in Sample : SameLetter(g, c, e) => d <= e)
  ELSE c
All(g, f) == {Canonical(g, f, c) : c \in Sample}
OfCharacters(g, f, chars) == {<<Canonical(g, f, c)>> : c \in chars}
OfStrings(g, f, strings) == {[k \in DOMAIN s |-> Canonical(g, f, s[k])] : s \in strings}

Reserved(c) == c \in {38, 33, 35, 36, 37, 42, 43, 44, 46, 58, 59, 60, 61, 62, 63, 64, 94, 96, 126}
SetSyntax == {40, 41, 91, 93, 123, 125, 47, 45, 92, 124}
SetPunctuation == {38, 45, 33, 35, 37, 44, 58, 59, 60, 61, 62, 64, 96, 126}

(* ClassSetCharacter.                                                      *)
SetCharacter(g, i) ==
  LET c == At(g, i)
      next == At(g, i + 1)
  IN IF c # 92
       THEN IF c \in SetSyntax \/ (Reserved(c) /\ next = c) THEN {} ELSE Point(g, i)
     ELSE CharacterEscape(g, i + 1)
          \cup (IF next \in SetPunctuation THEN {<<i + 2, next>>} ELSE {})
          \cup (IF next = 98 THEN {<<i + 2, 8>>} ELSE {})

(* CharacterClassEscape: the complement of a property is that of its       *)
(* closure.                                                                *)
SetEscape(g, f, i) ==
  LET c == At(g, i + 1)
      letter == At(g, i + 3)
      braced == Is(g, i, 92) /\ c \in {112, 80} /\ Is(g, i + 2, 123) /\ Is(g, i + 4, 125)
      chars == IF letter \in DOMAIN Properties THEN OfCharacters(g, f, Properties[letter]) ELSE {}
  IN {<<i + 2, OfCharacters(g, f, m), FALSE>> : m \in IF Is(g, i, 92) THEN CharacterClass(g, f, i + 1) ELSE {}}
     \cup (IF ~braced THEN {}
           ELSE IF letter \in DOMAIN Properties
             THEN {<<i + 5, IF c = 112 THEN chars ELSE OfCharacters(g, f, Sample) \ chars, FALSE>>}
           ELSE IF letter \in DOMAIN StringProperties /\ c = 112
             THEN {<<i + 5, OfStrings(g, f, StringProperties[letter]), TRUE>>}
           ELSE {})

(* ClassStringDisjunction, after the brace.                                *)
RECURSIVE StringOf(_, _, _), StringsOf(_, _, _, _, _)
StringOf(g, i, s) ==
  {<<i, s>>} \cup UNION {StringOf(g, x[1], Append(s, x[2])) : x \in SetCharacter(g, i)}
StringsOf(g, f, i, members, strings) ==
  UNION {LET all == members \cup OfStrings(g, f, {x[2]})
             may == strings \/ Len(x[2]) # 1
         IN IF Is(g, x[1], 124) THEN StringsOf(g, f, x[1] + 1, all, may)
            ELSE IF Is(g, x[1], 125) THEN {<<x[1] + 1, all, may>>} ELSE {} :
         x \in StringOf(g, i, <<>>)}

RECURSIVE SetOperand(_, _, _), SetUnion(_, _, _, _, _), SetChain(_, _, _, _, _), SetBody(_, _, _)

(* NestedClass and what it holds, after the bracket.                       *)
SetBody(g, f, i) ==
  LET negated == Is(g, i, 94)
      from == IF negated THEN i + 1 ELSE i
      empty == IF Is(g, from, 93) THEN {<<from, {}, FALSE>>} ELSE {}
      chains == UNION {SetChain(g, f, x, 45, 45) \cup SetChain(g, f, x, 38, 38) : x \in SetOperand(g, f, from)}
      contents == empty \cup SetUnion(g, f, from, {}, FALSE) \cup chains
  IN {<<x[1] + 1, IF negated THEN OfCharacters(g, f, Sample) \ x[2] ELSE x[2], ~negated /\ x[3]>> :
        x \in {y \in contents : Is(g, y[1], 93) /\ (negated => ~y[3])}}

SetOperand(g, f, i) ==
  (IF Is(g, i, 91) THEN SetBody(g, f, i + 1) ELSE {})
  \cup (IF Is(g, i, 92) /\ Is(g, i + 1, 113) /\ Is(g, i + 2, 123) THEN StringsOf(g, f, i + 3, {}, FALSE) ELSE {})
  \cup {<<x[1], OfCharacters(g, f, {x[2]}), FALSE>> : x \in SetCharacter(g, i)}
  \cup SetEscape(g, f, i)

SetRange(g, f, i) ==
  UNION {{<<y[1], OfCharacters(g, f, {c \in Sample : x[2] <= c /\ c <= y[2]}), FALSE>> :
            y \in {z \in IF Is(g, x[1], 45) THEN SetCharacter(g, x[1] + 1) ELSE {} : x[2] <= z[2]}} :
         x \in SetCharacter(g, i)}

SetUnion(g, f, i, members, strings) ==
  UNION {{<<x[1], members \cup x[2], strings \/ x[3]>>}
         \cup SetUnion(g, f, x[1], members \cup x[2], strings \/ x[3]) :
         x \in SetOperand(g, f, i) \cup SetRange(g, f, i)}

(* ClassIntersection and ClassSubtraction, after their first operand.      *)
SetChain(g, f, x, first, second) ==
  LET here == Is(g, x[1], first) /\ Is(g, x[1] + 1, second)
      operands == IF here /\ (first = 38 => ~Is(g, x[1] + 2, 38)) THEN SetOperand(g, f, x[1] + 2) ELSE {}
      after(y) == IF first = 38 THEN <<y[1], x[2] \cap y[2], x[3] /\ y[3]>> ELSE <<y[1], x[2] \ y[2], x[3]>>
  IN UNION {{after(y)} \cup SetChain(g, f, after(y), first, second) : y \in operands}

(* The sets a text that is one class, or one property of strings, stands   *)
(* for.                                                                    *)
SetsOf(text, f) ==
  LET g == [text |-> text, u |-> TRUE, named |-> TRUE, total |-> 1]
  IN {x[2] : x \in {y \in (IF Is(g, 0, 91) THEN SetBody(g, f, 1) ELSE {}) \cup SetEscape(g, f, 0) :
                      y[1] = Len(text)}}

(* Where a match of a set in a subject ends, in the order of preference:   *)
(* the longest first.                                                      *)
EndsIn(g, f, members, subject) ==
  LET folded == [k \in DOMAIN subject |-> Canonical(g, f, subject[k])]
      ends == {n \in 0 .. Len(subject) : SubSeq(folded, 1, n) \in members}
  IN SetToSortSeq(ends, >)
==============================================================================
