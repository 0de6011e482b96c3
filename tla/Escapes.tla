-------------------------------- MODULE Escapes --------------------------------
(***************************************************************************)
(* How characters and character classes are read (compiler.rs and          *)
(* compiler/escapes.rs): the escapes of both modes, the scan for groups    *)
(* two of them depend on, properties, and the classes of the modes without *)
(* the v flag, whose classes are module ClassSets.  Characters in the text *)
(* are numbers, as in the source.                                          *)
(***************************************************************************)
EXTENDS Arena

CONSTANTS
  NameLimit        \* characters of a property's name (64)

ASSUME NameLimitIsNumber == NameLimit \in Nat

Unicode(p) == "u" \in p.flags
Digits == 48 .. 57
Letters == (65 .. 90) \cup (97 .. 122)

(* Cursor::next_point: a pair of surrogates is one character.              *)
High(unit) == unit \in 55296 .. 56319
Low(unit) == unit \in 56320 .. 57343
Pair(high, low) == (65536 + (high - 55296) * 1024) + (low - 56320)
TakePoint(p) ==
  IF High(Peek(p)) /\ Low(UnitAt(p, p.at + 1))
    THEN [p EXCEPT !.at = @ + 2, !.value = Pair(Peek(p), UnitAt(p, p.at + 1))]
    ELSE [Next_(p) EXCEPT !.value = Peek(p)]
Character(p) ==
  LET q == Step(p) IN
    IF Peek(q) = End THEN Syntax(q)
    ELSE IF Unicode(p) THEN TakePoint(q) ELSE [Next_(q) EXCEPT !.value = Peek(q)]

------------------------------------------------------------------------------
(* scan_groups: the groups of the whole text, by its brackets, escapes and *)
(* classes alone.  It is done once.                                        *)
RECURSIVE Scanned(_, _, _, _, _)
Scanned(p, at, class, named, captures) ==
  LET c == UnitAt(p, at)
      q == Step(p)
      ordinary == UnitAt(p, at + 1) # 63
      name == ~ordinary /\ UnitAt(p, at + 2) = 60 /\ UnitAt(p, at + 3) \notin {61, 33}
      group == c = 40 /\ ~class
  IN IF c = End
       THEN IF Failed(p) THEN p
            ELSE [p EXCEPT !.total = captures, !.named = {named \/ Unicode(p)}]
     ELSE Scanned(q, IF c = 92 THEN at + 2 ELSE at + 1,
                  (class /\ c # 93) \/ c = 91,
                  named \/ (group /\ name),
                  captures + (IF group /\ (ordinary \/ name) THEN 1 ELSE 0))
(* Fault: the scan is made again for each escape that asks.                *)
RescanGroups(p) == [Scanned(p, 0, FALSE, FALSE, 1) EXCEPT !.total = 0, !.named = {}]

(* Fault: brackets in a class count.                                       *)
ScanGroupsFlat(p) ==
  Scanned([p EXCEPT !.text = SelectSeq(@, LAMBDA c : c # 91)], 0, FALSE, FALSE, 1)

ScanGroups(p) == Scanned(p, 0, FALSE, FALSE, 1)

HasNamedMode(p) == IF p.named = {} THEN ScanGroups(p) ELSE p

(* hex: exactly n digits, or none and the mark where it was.               *)
HexDigit(c) ==
  CASE c \in 48 .. 57 -> c - 48
    [] c \in 65 .. 70 -> c - 55
    [] c \in 97 .. 102 -> c - 87
    [] OTHER -> End
RECURSIVE HexFrom(_, _, _, _)
HexFrom(p, n, value, saved) ==
  IF n = 0 THEN [p EXCEPT !.value = value]
  ELSE Then(Take(p), LAMBDA q :
         IF HexDigit(q.value) = End THEN [Back(q, saved) EXCEPT !.value = End]
         ELSE HexFrom(q, n - 1, value * 16 + HexDigit(q.value), saved))
Hex(p, n) == HexFrom(p, n, 0, p.at)

RECURSIVE BracedPoint(_, _, _)
BracedPoint(p, value, digits) ==
  IF Sees(p, 125) THEN IF digits = 0 THEN Syntax(p) ELSE [Take(p) EXCEPT !.value = value]
  ELSE Then(Hex(p, 1), LAMBDA q :
         LET next == value * 16 + q.value IN
           IF q.value = End \/ next > 1114111 THEN Syntax(q) ELSE BracedPoint(q, next, digits + 1))

(* numeric_character: an octal escape of up to three digits, or the digit. *)
RECURSIVE OctalFrom(_, _, _)
OctalFrom(p, value, more) ==
  IF more > 0 /\ Peek(p) \in 48 .. 55
    THEN OctalFrom(Take(p), value * 8 + (Peek(p) - 48), more - 1)
    ELSE [p EXCEPT !.value = value]
(* Fault: three octal digits whatever the first of them.                   *)
NumericCharacterLong(p, first) ==
  IF Unicode(p) \/ first >= 56 THEN [p EXCEPT !.value = first] ELSE OctalFrom(p, first - 48, 2)

NumericCharacter(p, first) ==
  IF Unicode(p)
    THEN IF first = 48 /\ Peek(p) \notin Digits THEN [p EXCEPT !.value = 0] ELSE Syntax(p)
  ELSE IF first >= 56 THEN [p EXCEPT !.value = first]
  ELSE OctalFrom(p, first - 48, IF first <= 51 THEN 2 ELSE 1)

(* Fault: the letter after the backslash is consumed with it.              *)
ControlWhole(p, in_class) ==
  IF Peek(p) \in Letters THEN [Take(p) EXCEPT !.value = Peek(p) % 32]
  ELSE IF Unicode(p) THEN Syntax(p) ELSE [p EXCEPT !.value = 92]

(* \c: a control letter; otherwise the backslash alone is consumed.        *)
Control(p, in_class) ==
  LET next == Peek(p) IN
    IF next \in Letters \/ (in_class /\ ~Unicode(p) /\ next \in Digits \cup {95})
      THEN [Take(p) EXCEPT !.value = next % 32]
    ELSE IF Unicode(p) THEN Syntax(p)
    ELSE [Back(p, p.at - 1) EXCEPT !.value = 92]

Named == [c \in {110, 114, 116, 118, 102} |->
            CASE c = 110 -> 10 [] c = 114 -> 13 [] c = 116 -> 9 [] c = 118 -> 11 [] c = 102 -> 12]
SyntaxCharacters == {94, 36, 92, 46, 42, 43, 63, 40, 41, 91, 93, 123, 125, 124, 47}

HexEscape(p, c) ==
  IF c = 117 /\ Unicode(p) /\ Sees(p, 123) THEN BracedPoint(Take(p), 0, 0)
  ELSE Then(Hex(p, IF c = 120 THEN 2 ELSE 4), LAMBDA q :
         IF q.value # End THEN q ELSE IF Unicode(p) THEN Syntax(q) ELSE [q EXCEPT !.value = c])

(* A high surrogate written as an escape joins a low one that follows.     *)
Joined(p) ==
  LET alone(q) == [Back(q, p.at) EXCEPT !.value = p.value] IN
    IF ~Sees(p, 92) THEN p
    ELSE Then(Take(p), LAMBDA slash :
      IF ~Sees(slash, 117) THEN alone(slash)
      ELSE Then(Hex(Take(slash), 4), LAMBDA low :
        IF Low(low.value) THEN [low EXCEPT !.value = Pair(p.value, low.value)] ELSE alone(low)))

(* Parser::escaped_point: the character an escape stands for.              *)
EscapedPoint(p, c, in_class) ==
  LET fixed == c = 117 /\ ~Sees(p, 123)
      point ==
        CASE c \in DOMAIN Named -> [p EXCEPT !.value = Named[c]]
          [] c = 98 /\ in_class -> [p EXCEPT !.value = 8]
          [] c \in Digits -> NumericCharacter(p, c)
          [] c = 99 -> Control(p, in_class)
          [] c \in {120, 117} -> HexEscape(p, c)
          [] c = 107 -> Then(HasNamedMode(p), LAMBDA mode :
                          IF mode.named = {TRUE} THEN Syntax(mode) ELSE [mode EXCEPT !.value = 107])
          [] OTHER -> IF Unicode(p) /\ ~(c \in SyntaxCharacters \/ (in_class /\ c = 45))
                        THEN Syntax(p) ELSE [p EXCEPT !.value = c]
  IN Then(point, LAMBDA q : IF Unicode(p) /\ High(q.value) /\ fixed THEN Joined(q) ELSE q)

------------------------------------------------------------------------------
(* Property names of the generated tables: a sample of them.               *)
Resolve(name, value) == IF name = <<76>> /\ value = <<>> THEN 1 ELSE 0
ResolveStrings(name) == CASE name = <<75>> -> 1 [] name = <<78>> -> 2 [] OTHER -> 0

RECURSIVE PropertyName(_, _)
PropertyName(p, name) ==
  IF Peek(p) \in Letters \cup Digits \cup {95}
    THEN IF Len(name) = NameLimit THEN Syntax(p) ELSE PropertyName(Take(p), Append(name, Peek(p)))
    ELSE [p EXCEPT !.result = name]

(* Parser::property.  A property of strings is left in `pending`.          *)
Property(p, negative) ==
  IF ~Sees(p, 123) THEN Syntax(p)
  ELSE Then(PropertyName(Take(p), <<>>), LAMBDA name :
    LET valued == Sees(name, 61)
        set == IF p.sets /\ ~negative /\ ~valued THEN ResolveStrings(name.result) ELSE 0
    IN Then(IF valued THEN PropertyName(Take(name), <<>>) ELSE name, LAMBDA value :
         LET id == Resolve(name.result, IF valued THEN <<value.result>> ELSE <<>>) IN
           IF (id = 0 /\ set = 0) \/ ~Sees(value, 125) THEN Syntax(value)
           ELSE IF id = 0 THEN [Take(value) EXCEPT !.pending = set]
           ELSE Range_(Take(value), 0 - id, IF ~negative THEN 0 ELSE IF p.sets THEN 2 ELSE 1)))

Builtins(p, c) ==
  CASE c \in {100, 68} -> <<<<48, 57>>>>
    [] c \in {119, 87} -> <<<<48, 57>>, <<65, 90>>, <<95, 95>>, <<97, 122>>>> \o
                          (IF {"u", "i"} \subseteq p.flags THEN <<<<383, 383>>, <<8490, 8490>>>>
                           ELSE <<>>)
    [] c \in {115, 83} -> <<<<9, 13>>, <<32, 32>>, <<160, 160>>, <<5760, 5760>>, <<8192, 8202>>,
                            <<8232, 8233>>, <<8239, 8239>>, <<8287, 8287>>, <<12288, 12288>>,
                            <<65279, 65279>>>>
    [] OTHER -> <<>>

(* The gaps between ranges in order, and what is left after the last.      *)
Gaps(ranges, top) ==
  LET starts == [k \in 1 .. Len(ranges) + 1 |-> IF k = 1 THEN 0 ELSE ranges[k - 1][2] + 1]
      ends == [k \in 1 .. Len(ranges) + 1 |-> IF k > Len(ranges) THEN top ELSE ranges[k][1] - 1]
  IN SelectSeq([k \in 1 .. Len(ranges) + 1 |-> <<starts[k], ends[k]>>], LAMBDA r : r[1] <= r[2])

(* Parser::builtin: `value` is 1 when the escape is a class.               *)
Builtin(p, c) ==
  LET table == Builtins(p, c)
      members == IF c >= 97 THEN table ELSE Gaps(table, Top(p))
  IN IF c \in {112, 80} /\ Unicode(p) THEN [Property(p, c = 80) EXCEPT !.value = 1]
     ELSE IF table = <<>> THEN [p EXCEPT !.value = 0]
     ELSE [FoldLeft(LAMBDA q, r : Range_(q, r[1], r[2]), p, members) EXCEPT !.value = 1]

(* class_atom: `value` is the character, or End for a class escape.        *)
ClassAtom(p) ==
  IF ~Sees(p, 92) THEN Character(p)
  ELSE Then(Take(Take(p)), LAMBDA q :
         IF q.value = End THEN Syntax(q)
         ELSE LET class == Builtin(q, q.value) IN
           IF class.value = 1 THEN [class EXCEPT !.value = End] ELSE EscapedPoint(q, q.value, TRUE))

Single_(p, c) == IF c = End THEN p ELSE Range_(p, c, c)

ClassMember(p) ==
  Then(ClassAtom(p), LAMBDA left :
    IF ~Sees(left, 45) THEN Single_(left, left.value)
    ELSE Then(Take(left), LAMBDA dash :
      IF Sees(dash, 93) THEN Range_(Single_(dash, left.value), 45, 45)
      ELSE Then(ClassAtom(dash), LAMBDA right :
        IF left.value # End /\ right.value # End
          THEN IF left.value > right.value THEN Syntax(right)
               ELSE Range_(right, left.value, right.value)
        ELSE IF Unicode(p) THEN Syntax(right)
        ELSE Range_(Single_(Single_(right, left.value), right.value), 45, 45))))

RECURSIVE ClassMembers_(_)
ClassMembers_(p) ==
  CASE Sees(p, 93) -> p
    [] Peek(p) = End -> Syntax(p)
    [] OTHER -> ClassMembers_(ClassMember(p))

(* Parser::class without the v flag.                                       *)
Class(p) ==
  ClassLeaf(Take(ClassMembers_(Eat(p, 94))), Len(p.ranges), Sees(p, 94))
==============================================================================
