-------------------------------- MODULE Ecma --------------------------------
(***************************************************************************)
(* What a pattern means, following ECMA-262's matchers (the engine's own   *)
(* statement of conformance is README.md and docs/): for a node and a      *)
(* place, all the places it can lead to with the captures made on the way, *)
(* in the order backtracking would try them.  This is the reference the    *)
(* evaluator is compared with and describes none of its code.              *)
(***************************************************************************)
EXTENDS Integers, Sequences, FiniteSets, SequencesExt

(* A place: a position and the captures, <<>> where one does not take part.*)
Place(at, caps) == [at |-> at, caps |-> caps]

LineEnd(c) == c \in {10, 13}
WordChar(c) == c \in (48 .. 57) \cup (65 .. 90) \cup {95} \cup (97 .. 122)

InClass(c, ranges, negated) ==
  (\E k \in DOMAIN ranges : c \in ranges[k][1] .. ranges[k][2]) # negated

Takes(n, c) ==
  CASE n.kind = "CHAR" -> c = n.a
    [] n.kind = "ANY" -> ~LineEnd(c)
    [] n.kind = "ANY_S" -> TRUE
    [] n.kind = "CLASS" -> InClass(c, n.a, n.b)

(* The index of the character read at a position, outside the text at the  *)
(* end of it.                                                              *)
Index(at, backward) == IF backward THEN at ELSE at + 1
Beyond(at, count, backward) == IF backward THEN at - count ELSE at + count

Before(text, at, Test(_)) == at > 0 /\ Test(text[at])
After(text, at, Test(_)) == at < Len(text) /\ Test(text[at + 1])

Holds(n, text, at) ==
  CASE n.kind = "START" -> at = 0
    [] n.kind = "START_M" -> at = 0 \/ Before(text, at, LineEnd)
    [] n.kind = "END" -> at = Len(text)
    [] n.kind = "END_M" -> at = Len(text) \/ After(text, at, LineEnd)
    [] n.kind = "WORD" -> (Before(text, at, WordChar) # After(text, at, WordChar)) # n.a

(* The text a capture holds, nothing for one that takes no part.           *)
Held(text, span) == IF span = <<>> THEN <<>> ELSE SubSeq(text, span[1] + 1, span[2])

RECURSIVE Opened(_)
Opened(n) ==
  CASE n.kind \in {"WRAP", "ASSERT", "REPEAT"} -> Opened(n.child)
    [] n.kind = "GROUP" -> {n.index} \cup Opened(n.child)
    [] n.kind \in {"SEQ", "ALT"} -> Opened(n.left) \cup Opened(n.right)
    [] OTHER -> {}

Cleared(n, caps) == [k \in DOMAIN caps |-> IF k \in Opened(n) THEN <<>> ELSE caps[k]]

RECURSIVE Places(_, _, _, _), Iterations(_, _, _, _, _, _)

(* Everything a node leads to from each of several places, in order.       *)
FromEach(n, text, places, backward) ==
  FlattenSeq([i \in DOMAIN places |-> Places(n, text, places[i], backward)])

Places(n, text, x, backward) ==
  CASE n.kind = "EMPTY" -> <<x>>
    [] n.kind = "WRAP" -> Places(n.child, text, x, backward)
    [] n.kind \in {"CHAR", "ANY", "ANY_S", "CLASS"} ->
         LET i == Index(x.at, backward) IN
           IF i \in DOMAIN text /\ Takes(n, text[i])
             THEN <<[x EXCEPT !.at = Beyond(x.at, 1, backward)]>> ELSE <<>>
    [] n.kind \in {"START", "START_M", "END", "END_M", "WORD"} ->
         IF Holds(n, text, x.at) THEN <<x>> ELSE <<>>
    [] n.kind \in {"BACKREF", "NAMED"} ->
         LET groups == IF n.kind = "BACKREF" THEN <<n.a>> ELSE n.a
             held == FlattenSeq([k \in DOMAIN groups |-> Held(text, x.caps[groups[k]])])
             to == Beyond(x.at, Len(held), backward)
             low == Min({x.at, to})
         IN IF /\ to \in 0 .. Len(text)
               /\ SubSeq(text, low + 1, low + Len(held)) = held
              THEN <<[x EXCEPT !.at = to]>> ELSE <<>>
    [] n.kind = "SEQ" ->
         IF backward THEN FromEach(n.left, text, Places(n.right, text, x, backward), backward)
                     ELSE FromEach(n.right, text, Places(n.left, text, x, backward), backward)
    [] n.kind = "ALT" ->
         Places(n.left, text, x, backward) \o Places(n.right, text, x, backward)
    [] n.kind = "GROUP" ->
         LET inside == Places(n.child, text, x, backward) IN
           [i \in DOMAIN inside |->
              [inside[i] EXCEPT !.caps[n.index] = IF backward THEN <<inside[i].at, x.at>>
                                                              ELSE <<x.at, inside[i].at>>]]
    [] n.kind = "ASSERT" ->
         LET inside == Places(n.child, text, x, n.behind) IN
           IF n.negative THEN (IF inside = <<>> THEN <<x>> ELSE <<>>)
           ELSE IF inside = <<>> THEN <<>>
           ELSE <<[x EXCEPT !.caps = inside[1].caps]>>
    [] n.kind = "REPEAT" ->
         Iterations(n, text, x, backward, n.min, IF n.infinite THEN -1 ELSE n.max)

(* RepeatMatcher: `most` is -1 when there is no maximum.  An iteration     *)
(* beyond the minimum that consumes nothing leads nowhere.                 *)
Iterations(n, text, x, backward, least, most) ==
  IF most = 0 THEN <<x>>
  ELSE
    LET once == Places(n.child, text, [x EXCEPT !.caps = Cleared(n.child, x.caps)], backward)
        useful == SelectSeq(once, LAMBDA y : least > 0 \/ y.at # x.at)
        more == FlattenSeq([i \in DOMAIN useful |->
                  Iterations(n, text, useful[i], backward,
                             IF least > 0 THEN least - 1 ELSE 0,
                             IF most = -1 THEN -1 ELSE most - 1)])
    IN IF least > 0 THEN more
       ELSE IF n.lazy THEN <<x>> \o more ELSE more \o <<x>>

(* The answer of a search from a position: the captures of the first place *)
(* the first start with any leads to, <<>> when no start has one.          *)
Answer(ast, captures, sticky, text, from) ==
  LET none == [k \in 1 .. captures - 1 |-> <<>>]
      starts == IF sticky THEN {from} ELSE from .. Len(text)
      Found(s) == Places(ast, text, Place(s, none), FALSE)
      viable == {s \in starts : Found(s) # <<>>}
      s == Min(viable)
      end == Found(s)[1]
  IN IF viable = {} THEN <<>>
     ELSE [k \in 1 .. captures |-> IF k = 1 THEN <<s, end.at>> ELSE end.caps[k - 1]]
==============================================================================
