------------------------------- MODULE Automaton -------------------------------
(***************************************************************************)
(* The transitions of the lazy automaton (dfa.rs): ordered threads, what   *)
(* one character or the edge of the subject makes of them, read forwards,  *)
(* backwards or for captures.  Dfa keeps what is defined here in a cache.  *)
(* Subjects are UTF-16 units; programs are without the u, v and i flags.   *)
(***************************************************************************)
EXTENDS Integers, Sequences, FiniteSets

CONSTANTS
  Threads,        (* Threads the work area of one transition holds.        *)
  program         (* The program searched with, a record of Starts.        *)

Code == program.code

------------------------------------------------------------------------------
(* Characters: what assertions see of them, and which instructions accept  *)
(* them.  A signature is all a program can tell of a character.            *)
ConsumingOps == {"CHAR", "ANY", "ANY_S", "CLASS"}
LineTerminator(c) == c \in {10, 13, 8232, 8233}
WordCharacter(c) == c \in (48 .. 57) \cup (65 .. 90) \cup {95} \cup (97 .. 122)

Context(c) == (IF LineTerminator(c) THEN {"LT"} ELSE {}) \cup
              (IF WordCharacter(c) THEN {"WORD"} ELSE {})

(* The context the program's assertions read, and nothing else is kept.    *)
Need ==
  UNION {CASE Code[pc].op \in {"START", "END"} -> {"EDGE"}
           [] Code[pc].op \in {"START_M", "END_M"} -> {"EDGE", "LT"}
           [] Code[pc].op = "WORD" -> {"WORD"}
           [] OTHER -> {} : pc \in DOMAIN Code}

Holds(i, before, after) ==
  CASE i.op = "START" -> "EDGE" \in before
    [] i.op = "START_M" -> before \cap {"EDGE", "LT"} # {}
    [] i.op = "END" -> "EDGE" \in after
    [] i.op = "END_M" -> after \cap {"EDGE", "LT"} # {}
    [] i.op = "WORD" -> (("WORD" \in before) # ("WORD" \in after)) # i.a

Accepts(i, c) ==
  CASE i.op = "CHAR" -> c = i.a
    [] i.op = "ANY" -> ~LineTerminator(c)
    [] i.op = "ANY_S" -> TRUE
    [] i.op = "CLASS" -> (\E k \in DOMAIN i.a : c \in i.a[k][1] .. i.a[k][2]) # i.b

Consuming == {pc \in DOMAIN Code : Code[pc].op \in ConsumingOps}

(* One predicate for all equal instructions: the first of them.            *)
Predicates ==
  {pc \in Consuming :
     \A q \in Consuming : q < pc => ~(Code[q].op = Code[pc].op /\ Code[q] = Code[pc])}

Signature(c) ==
  [context |-> (Context(c) \cap Need) \ {"EDGE"},
   takes |-> {pc \in Consuming : Accepts(Code[pc], c)}]

(* Before and after the cursor at a position.                              *)
ContextBefore(text, at) == Need \cap (IF at = 0 THEN {"EDGE"} ELSE Context(text[at]))
ContextAfter(text, at) == Need \cap (IF at = Len(text) THEN {"EDGE"} ELSE Context(text[at + 1]))

------------------------------------------------------------------------------
(* Threads: an instruction and, for every repeat, its count and whether    *)
(* its iteration has consumed anything.  `mask` is what the path to it has *)
(* done to the captures, in capture mode.                                  *)
Fresh == [k |-> 0, used |-> FALSE]
NoMask == [set |-> {}, clear |-> {}]
Thread(pc) == [pc |-> pc, key |-> [id \in 0 .. program.repeats - 1 |-> Fresh], mask |-> NoMask]
Bare(t) == [t EXCEPT !.mask = NoMask]

To(t, pc) == [t EXCEPT !.pc = pc]
Field(t, id, k, used) == [t EXCEPT !.key[id] = [k |-> k, used |-> used]]
Cleared(t, id) == Field(t, id, 0, FALSE)
Counted(t, id, k) == Field(t, id, k, t.key[id].used)
Unused(t, id) == Field(t, id, t.key[id].k, FALSE)

(* The repeats whose body holds an instruction: it marks them used.        *)
Around(pc) ==
  {Code[q].a.id : q \in {q \in DOMAIN Code : Code[q].op = "REPEAT_BODY" /\ q < pc /\ pc < Code[q].a.exit - 1}}

Consumed(t) ==
  [t EXCEPT !.pc = @ + 1,
            !.key = [id \in DOMAIN t.key |->
                       [k |-> t.key[id].k, used |-> t.key[id].used \/ id \in Around(t.pc)]]]

NextCount(r, k) == IF r.infinite /\ k + 1 > r.min THEN r.min ELSE k + 1

(* Dfa::compute, forward: where a thread goes without consuming, first arm *)
(* first.  Leaving a repeat forgets its count, entering its body forgets   *)
(* the captures inside it, and an empty iteration beyond the minimum ends. *)
Onward(t, before, after) ==
  LET i == Code[t.pc]
      r == i.a
      next == To(t, t.pc + 1)
  IN CASE i.op = "SAVE" ->
            <<[next EXCEPT !.mask = [set |-> @.set \cup {i.a}, clear |-> @.clear \ {i.a}]]>>
       [] i.op = "JUMP" -> <<To(t, i.a)>>
       [] i.op = "SPLIT" -> <<To(t, i.a), To(t, i.b)>>
       [] i.op = "BRANCH" -> <<next, To(t, i.b)>>
       [] i.op \in {"START", "START_M", "END", "END_M", "WORD"} ->
            IF Holds(i, before, after) THEN <<next>> ELSE <<>>
       [] i.op \in {"REPEAT_INIT", "ATOM_REPEAT"} -> <<Cleared(next, r.id)>>
       [] i.op = "REPEAT_CHOICE" ->
            LET k == t.key[r.id].k
                exit == Cleared(To(t, r.exit), r.id)
            IN IF ~r.infinite /\ k >= r.max THEN <<exit>>
               ELSE IF k < r.min THEN <<next>>
               ELSE IF r.lazy THEN <<exit, To(t, r.body)>> ELSE <<next, exit>>
       [] i.op = "REPEAT_BODY" ->
            LET slots == UNION {{2 * g, 2 * g + 1} : g \in r.clear} IN
              <<[Unused(next, r.id) EXCEPT !.mask = [set |-> @.set \ slots, clear |-> @.clear \cup slots]]>>
       [] i.op = "REPEAT_NEXT" ->
            LET k == t.key[r.id].k IN
              IF t.key[r.id].used \/ k < r.min
                THEN <<Counted(To(t, r.body - 1), r.id, NextCount(r, k))>> ELSE <<>>
       [] OTHER -> <<>>

(* successors: the instructions an instruction leads to without consuming. *)
Successors(pc) ==
  LET i == Code[pc] IN
    CASE i.op \in {"SAVE", "START", "START_M", "END", "END_M", "WORD", "REPEAT_INIT",
                   "ATOM_REPEAT", "REPEAT_BODY"} -> {pc + 1}
      [] i.op = "JUMP" -> {i.a}
      [] i.op = "SPLIT" -> {i.a, i.b}
      [] i.op = "BRANCH" -> {pc + 1, i.b}
      [] i.op = "REPEAT_CHOICE" -> {i.a.body, i.a.exit}
      [] i.op = "REPEAT_NEXT" -> {i.a.body - 1}
      [] OTHER -> {}

(* One edge taken from right to left: <<>> when it cannot be.              *)
Across(t, q, before, after) ==
  LET i == Code[q]
      r == i.a
      back == To(t, q)
  IN CASE i.op \in {"SAVE", "JUMP", "SPLIT", "BRANCH", "REPEAT_BODY"} -> <<back>>
       [] i.op \in {"START", "START_M", "END", "END_M", "WORD"} ->
            IF Holds(i, before, after) THEN <<back>> ELSE <<>>
       [] i.op \in {"REPEAT_INIT", "ATOM_REPEAT"} ->
            LET k == t.key[r.id].k IN
              IF k >= r.min /\ (r.infinite \/ k <= r.max) THEN <<Cleared(back, r.id)>> ELSE <<>>
       [] i.op = "REPEAT_CHOICE" -> <<IF t.pc = r.exit THEN Cleared(back, r.id) ELSE back>>
       [] i.op = "REPEAT_NEXT" ->
            LET next == NextCount(r, t.key[r.id].k) IN
              IF r.infinite \/ next <= r.max THEN <<Counted(back, r.id, next)>> ELSE <<>>

(* Dfa::compute, reverse: what leads to a thread, last instruction first.  *)
Backward(t, before, after) ==
  LET from == {q \in DOMAIN Code : t.pc \in Successors(q) /\ Across(t, q, before, after) # <<>>}
      Nth(k) == CHOOSE q \in from : Cardinality({r \in from : r >= q}) = k
  IN [k \in 1 .. Cardinality(from) |-> Across(t, Nth(k), before, after)[1]]

------------------------------------------------------------------------------
(* One transition.  x says what it reads: the kind of the state, the       *)
(* context on both sides, and what the character's class takes (nothing at *)
(* the edge).  w is what it has found; it stops at MATCH, at a second      *)
(* thread in capture mode, and where the work area is full.                *)
Nothing ==
  [seen |-> {}, gone |-> {}, out |-> <<>>, path |-> NoMask, match |-> NoMask,
   flagged |-> FALSE, work |-> 0, stop |-> "go"]

Stop(w, why) == [w EXCEPT !.stop = why]

(* Dfa::visit: a mark of this transition, at most half its table.          *)
Full(w) == Cardinality(w.seen) + Cardinality(w.gone) >= 2 * Threads

(* A thread of the next state, unless one has already come to it.          *)
Produce(x, w, t, mask) ==
  CASE t \in w.gone -> w
    [] t \notin w.gone /\ (Full(w) \/ Len(w.out) >= Threads) -> Stop(w, "Capacity")
    [] t \notin w.gone /\ x.kind = "capture" /\ w.out # <<>> -> Stop(w, "Ambiguous")
    [] OTHER -> [w EXCEPT !.gone = @ \cup {t}, !.out = Append(@, t), !.path = mask]

(* What a visited thread gives: a match, a thread that consumes, or none.  *)
Visited(x, w, t) ==
  IF x.kind = "reverse"
    THEN LET v == [w EXCEPT !.flagged = @ \/ t.pc = 1] IN
           IF t.pc > 1 /\ t.pc - 1 \in x.takes
             THEN Produce(x, v, Bare(To(t, t.pc - 1)), NoMask) ELSE v
  ELSE IF Code[t.pc].op = "MATCH"
    THEN [w EXCEPT !.flagged = TRUE, !.match = t.mask, !.stop = "Match"]
  ELSE IF t.pc \in x.takes THEN Produce(x, w, Bare(Consumed(t)), t.mask)
  ELSE w

(* The work area: what is found, the threads left to visit, first the one *)
(* on top, and the seeds whose closures are still to be explored.          *)
Over(v) == v.w.stop # "go" \/ (v.stack = <<>> /\ v.seeds = <<>>)

Explore(x, v) ==
  LET w == v.w
      t == Head(v.stack)
      mark == Bare(t)
      visited == Visited(x, [w EXCEPT !.seen = @ \cup {mark}, !.work = @ + 1], t)
      next == IF x.kind = "reverse" THEN Backward(t, x.before, x.after)
              ELSE Onward(t, x.before, x.after)
      more == next \o Tail(v.stack)
      full == visited.stop = "go" /\ Len(more) > 2 * Threads
  IN IF Over(v) THEN v
     ELSE IF v.stack = <<>>
       THEN [v EXCEPT !.stack = <<Head(v.seeds)>>, !.seeds = Tail(@)]
     ELSE IF mark \in w.seen THEN [v EXCEPT !.stack = Tail(@)]
     ELSE IF Full(w) THEN [v EXCEPT !.w = Stop(@, "Capacity")]
     ELSE [v EXCEPT !.w = IF full THEN Stop(visited, "Capacity") ELSE visited, !.stack = more]

(* The threads of a state in order, then a new start if it adds starts.    *)
Seeds(st) == st.threads \o (IF st.inject THEN <<Thread(1)>> ELSE <<>>)

Reading(st, sig) ==
  LET side == IF sig = <<>> THEN {"EDGE"} \cap Need ELSE sig[1].context IN
    [kind |-> st.kind, side |-> side, takes |-> IF sig = <<>> THEN {} ELSE sig[1].takes,
     before |-> IF st.kind = "reverse" THEN side ELSE st.context,
     after |-> IF st.kind = "reverse" THEN st.context ELSE side]

(* A thread is marked once, at most half the table of marks, and leads to  *)
(* no more than the stack holds, which bounds the rounds of a transition.  *)
(* A round after the last changes nothing, so which of `Rounds` is looked  *)
(* at does not matter; the smaller ones spare TLC most of them.            *)
MostRounds == 4 * Threads * Threads + 2 * Threads + 2
Rounds == {MostRounds} \cup ({16, 72} \cap 0 .. MostRounds)

Transition(st, sig) ==
  LET x == Reading(st, sig)
      after[n \in 0 .. MostRounds] ==
        IF n = 0 THEN [w |-> Nothing, stack |-> <<>>, seeds |-> Seeds(st)]
        ELSE Explore(x, after[n - 1])
  IN after[CHOOSE n \in Rounds : Over(after[n]) \/ n = MostRounds].w

State(kind, inject, context, threads) ==
  [kind |-> kind, inject |-> inject, context |-> context, threads |-> threads]

(* Fault: starts are still added after a match end.                        *)
SuccessorInjecting(st, sig, w) ==
  State(st.kind, st.inject, Reading(st, sig).side, w.out)

(* The state a transition leads to: once a match end is passed no later    *)
(* start is added.                                                         *)
Successor(st, sig, w) ==
  State(st.kind, st.inject /\ ~w.flagged, Reading(st, sig).side, w.out)
==============================================================================
