-------------------------------- MODULE Arena --------------------------------
(***************************************************************************)
(* The scratch a pattern is compiled in (compiler.rs, Parser): the text    *)
(* and the place in it, the arenas of nodes and of class ranges, what is   *)
(* left of the work budget, and what is done to the ranges of a class as   *)
(* it is completed (compiler/classes.rs).                                  *)
(*                                                                         *)
(* A parser is a record.  An operation takes one and gives the one it      *)
(* leaves; a parser that has failed is left as it is by every operation    *)
(* and shows the end of the text.  Text is UTF-16 units, and a node's      *)
(* address is one above the source's.                                      *)
(***************************************************************************)
EXTENDS Integers, Sequences, SequencesExt

CONSTANTS
  NodeLimit,       \* nodes the caller's arena holds
  RangeLimit,      \* ranges the caller's arena holds
  NormalizeFrom,   \* ranges from which a class is normalised (16)
  SortedFrom,      \* ranges from which its membership test is a search (8)
  FoldMembers      \* characters up to which a folded class is closed (256)

ASSUME LimitsAreNumbers ==
  {NodeLimit, RangeLimit, NormalizeFrom, SortedFrom, FoldMembers} \subseteq Nat

Least(a, b) == IF a < b THEN a ELSE b
Most(a, b) == IF a > b THEN a ELSE b

End == -1                        \* no unit is left
Top(p) == IF "u" \in p.flags THEN 1114111 ELSE 65535

(* The parser of a text, with the modes of a flag string and a budget.     *)
Fresh(text, flags, sets, budget) ==
  [text |-> text, at |-> 0, flags |-> flags, sets |-> sets, left |-> budget, error |-> "",
   nodes |-> <<>>, ranges |-> <<>>, node |-> 0, value |-> End, chars |-> 0, newest |-> 0,
   names |-> 0, named |-> IF "u" \in flags THEN {TRUE} ELSE {}, captures |-> 1, total |-> 0,
   repeats |-> 0, depth |-> 0, pending |-> 0, filters |-> 0, result |-> <<>>]

Failed(p) == p.error # ""
Fail(p, error) == IF Failed(p) THEN p ELSE [p EXCEPT !.error = error]
Syntax(p) == Fail(p, "Syntax")

(* What follows an operation, unless it has failed.                        *)
Then(p, Next(_)) == IF Failed(p) THEN p ELSE Next(p)

(* Fault: work goes on when the budget is spent.                          *)
StepOnCredit(p) == IF Failed(p) THEN p ELSE [p EXCEPT !.left = Most(@ - 1, 0)]

Step(p) ==
  IF Failed(p) THEN p
  ELSE IF p.left = 0 THEN Fail(p, "WorkLimit") ELSE [p EXCEPT !.left = @ - 1]

(* A mark moves by a unit; where it has none to read it stays.             *)
UnitAt(p, at) == IF Failed(p) \/ at >= Len(p.text) THEN End ELSE p.text[at + 1]
Peek(p) == UnitAt(p, p.at)
Next_(p) == IF Peek(p) = End THEN p ELSE [p EXCEPT !.at = @ + 1]
Read(p) == [Next_(p) EXCEPT !.value = Peek(p)]
Take(p) == Read(Step(p))
Sees(p, c) == Peek(p) = c
Eat(p, c) == IF Sees(p, c) THEN Take(p) ELSE p
Back(p, at) == IF Failed(p) THEN p ELSE [p EXCEPT !.at = at]

Blank == [kind |-> "EMPTY", a |-> 0, b |-> 0, c |-> 0, flags |-> {}, first |-> 0, end |-> 0,
          len |-> 0, start |-> 0]

Unsized == {"EMPTY", "SEQ", "ALT", "GROUP", "REPEAT", "WRAP", "NAME_META", "NAME_DECL", "STRING",
            "SEQSET", "FILTER"}
Add(p, node) ==
  Then(Step(p), LAMBDA q :
    IF Len(q.nodes) = NodeLimit THEN Fail(q, "Nodes")
    ELSE [q EXCEPT !.node = Len(q.nodes) + 1,
           !.nodes = Append(@, IF node.len = 0 /\ node.kind \notin Unsized
                               THEN [node EXCEPT !.len = 1] ELSE node)])

(* The ranges grow from the front of the arena, the characters of names    *)
(* from its back.                                                          *)
Range_(p, lo, hi) ==
  Then(Step(p), LAMBDA q :
    IF Len(q.ranges) = RangeLimit - q.chars THEN Fail(q, "Ranges")
    ELSE [q EXCEPT !.ranges = Append(@, <<lo, hi>>)])

(* A range of a property of characters: its name, and how it is taken (0,  *)
(* or 1 for a complement under u and 2 for one under v).                   *)
IsProperty(range) == range[1] < 0

------------------------------------------------------------------------------
(* casefold::equivalents: the family of a character, sampled at the ASCII  *)
(* letters and the two characters u adds to the families of k and s.       *)
Equivalents(c, unicode) ==
  LET letter == IF c \in 97 .. 122 THEN c - 32 ELSE c
      extra == IF ~unicode THEN {} ELSE
        IF letter \in {75, 8490} THEN {75, 107, 8490}
        ELSE IF letter \in {83, 383} THEN {83, 115, 383} ELSE {}
  IN IF extra # {} THEN extra ELSE IF letter \in 65 .. 90 THEN {letter, letter + 32} ELSE {c}

(* The order the members of a family are met in, from one of them.         *)
Family(c, unicode) ==
  SetToSortSeq({v \in Equivalents(c, unicode) : v > c}, <) \o
  SetToSortSeq({v \in Equivalents(c, unicode) : v < c}, <)

Below(x, y) == x[1] < y[1] \/ (x[1] = y[1] /\ x[2] < y[2])
Charge(p, n) == IF Failed(p) THEN p ELSE
  IF p.left < n THEN [Fail(p, "WorkLimit") EXCEPT !.left = 0] ELSE [p EXCEPT !.left = @ - n]

(* Fault: ranges that only touch the one before them are left apart, and   *)
(* one that lies inside it ends it early.                                  *)
CoalescedToTheLast(sorted) ==
  FoldLeft(LAMBDA out, r :
      IF out # <<>> /\ r[1] <= Last(out)[2]
        THEN [out EXCEPT ![Len(out)] = <<@[1], r[2]>>]
        ELSE Append(out, r),
    <<>>, sorted)

(* Ranges in order, those that touch or overlap as one.                    *)
Coalesced(sorted) ==
  FoldLeft(LAMBDA out, r :
      IF out # <<>> /\ r[1] <= Last(out)[2] + 1
        THEN [out EXCEPT ![Len(out)] = <<@[1], Most(@[2], r[2])>>]
        ELSE Append(out, r),
    <<>>, sorted)

(* Members of the family of each character that no range holds are added   *)
(* in order, the next one to the last range added where it continues it.   *)
Additions(given, c, unicode, p, start) ==
  FoldLeft(LAMBDA q, v :
      IF \E r \in DOMAIN given : given[r][1] <= v /\ v <= given[r][2] THEN q
      ELSE IF Len(q.ranges) > start + Len(given) /\ Last(q.ranges)[2] + 1 = v
        THEN [q EXCEPT !.ranges[Len(q.ranges)][2] = v]
        ELSE Range_(q, v, v),
    Charge(p, 1), Family(c, unicode))

(* An exchange sort: the work is the number of pairs out of order.         *)
OutOfOrder(ranges) == Cardinality({e \in (DOMAIN ranges) \X (DOMAIN ranges) :
                                     e[1] < e[2] /\ Below(ranges[e[2]], ranges[e[1]])})

Sorted(p, start) ==
  LET all == SubSeq(p.ranges, start + 1, Len(p.ranges)) IN
    Then(Charge(p, OutOfOrder(all) + Len(all)), LAMBDA q :
      [q EXCEPT !.value = 1, !.ranges = SubSeq(@, 1, start) \o Coalesced(SortSeq(all, Below))])

(* The first of the places where a reading stops, 0 where there is none.   *)
Earliest(places) ==
  IF places = {} THEN 0 ELSE CHOOSE k \in places : \A l \in places : k <= l

(* close_fold: a folded class of few characters becomes its closure, that  *)
(* is not folded.  `value` is 1 when it has.                               *)
CloseFold(p, start) ==
  LET given == SubSeq(p.ranges, start + 1, Len(p.ranges))
      sizes == [k \in 0 .. Len(given) |->
                  FoldLeft(LAMBDA n, r : n + (r[2] - r[1]) + 1, 0, SubSeq(given, 1, k))]
      stop == Earliest({k \in DOMAIN given : IsProperty(given[k]) \/ sizes[k] > FoldMembers})
      counted == Charge(p, IF stop = 0 THEN Len(given) ELSE stop)
      unicode == "u" \in p.flags
      chars == FlattenSeq([k \in DOMAIN given |->
                 [i \in 1 .. given[k][2] - given[k][1] + 1 |-> given[k][1] + i - 1]])
  IN IF given = <<>> \/ stop # 0 THEN [counted EXCEPT !.value = 0]
     ELSE Sorted(FoldLeft(LAMBDA q, c : Additions(given, c, unicode, q, start), counted, chars),
                 start)

------------------------------------------------------------------------------
(* sift: the range at `root` sinks in the heap of the first `end` ranges   *)
(* from `start` on.                                                        *)
Exchange(s, i, j) == [s EXCEPT ![i] = s[j], ![j] = s[i]]

RECURSIVE Sift(_, _, _, _)
Sift(p, start, root, end) ==
  IF Failed(p) \/ root >= end \div 2 THEN p
  ELSE LET key(k) == p.ranges[start + k + 1]
           left == 2 * root + 1
           two == left + 1 < end
           child == IF two /\ Below(key(left), key(left + 1)) THEN left + 1 ELSE left
       IN Then(Charge(p, IF two THEN 2 ELSE 1), LAMBDA q :
            IF ~Below(key(root), key(child)) THEN q
            ELSE Sift([q EXCEPT !.ranges = Exchange(@, start + root + 1, start + child + 1)],
                      start, child, end))

HeapSort(p, start, count) ==
  LET heap == FoldLeft(LAMBDA q, k : Sift(q, start, count \div 2 - k, count), p,
                       [k \in 1 .. count \div 2 |-> k])
  IN FoldLeft(LAMBDA q, k :
        Then(q, LAMBDA r : Sift([r EXCEPT !.ranges = Exchange(@, start + 1, start + (count - k) + 1)],
                                start, 0, count - k)),
       heap, [k \in 1 .. count - 1 |-> k])

(* normalize_class: a long class of characters alone is sorted and its     *)
(* ranges coalesced.                                                       *)
NormalizeClass(p, start) ==
  LET given == SubSeq(p.ranges, start + 1, Len(p.ranges))
      count == Len(given)
      stop == Earliest({k \in DOMAIN given : IsProperty(given[k])})
      read == Charge(p, IF stop = 0 THEN count ELSE stop)
      inOrder == \A k \in 2 .. count : ~Below(given[k], given[k - 1])
  IN IF count < NormalizeFrom THEN [p EXCEPT !.value = 0]
     ELSE IF stop # 0 THEN [read EXCEPT !.value = 0]
     ELSE Then(Charge(IF inOrder THEN read ELSE HeapSort(read, start, count), count), LAMBDA q :
            [q EXCEPT !.value = 1,
               !.ranges = SubSeq(@, 1, start) \o Coalesced(SubSeq(@, start + 1, Len(@)))])

(* Parser::leaf.  A class holds its ranges by where they begin and how     *)
(* many they are; `negated` stands for the top bit of the count.           *)
Leaf(p, kind, a, b) ==
  Add(p, [Blank EXCEPT !.kind = kind, !.a = a, !.b = b, !.flags = p.flags,
          !.first = p.captures, !.end = p.captures, !.len = 1])

ClassLeaf(p, start, negated) ==
  Then(IF "i" \in p.flags THEN CloseFold(p, start) ELSE [p EXCEPT !.value = 0], LAMBDA folded :
  Then(NormalizeClass(folded, start), LAMBDA normal :
    LET count == Len(normal.ranges) - start
        flags == (IF folded.value = 1 THEN p.flags \ {"i"} ELSE p.flags)
                 \cup (IF normal.value = 1 /\ count >= SortedFrom THEN {"sorted"} ELSE {})
                 \cup (IF negated THEN {"negated"} ELSE {})
    IN Add(normal, [Blank EXCEPT !.kind = "CLASS", !.a = start, !.b = count, !.flags = flags,
                    !.first = p.captures, !.end = p.captures, !.len = 1])))

(* Parser::join.                                                           *)
Join(p, kind, a, b) ==
  IF Failed(p) THEN p
  ELSE LET left == p.nodes[a]  right == p.nodes[b] IN
    Add(p, [Blank EXCEPT !.kind = kind, !.a = a, !.b = b,
            !.first = Least(left.first, right.first), !.end = Most(left.end, right.end),
            !.len = left.len + right.len + (IF kind = "ALT" THEN 2 ELSE 0)])
==============================================================================
