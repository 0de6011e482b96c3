---------------------------------- MODULE Dfa ----------------------------------
(***************************************************************************)
(* Searches through the automaton's cache (dfa.rs): a host searches one    *)
(* subject after another with one program, through storage the automaton   *)
(* fills with states, widens, clears and gives up.  One action is a call   *)
(* answered at once, or one character of a walk with every state and class *)
(* it builds on the way.                                                   *)
(*                                                                         *)
(* The cache is the record the words of the storage stand for: offsets are *)
(* indices into `states`, and what is allocated in the region is counted   *)
(* in words as the source counts it.  Where the parts of the storage lie   *)
(* is module Plan; the threads a closure has visited are one set.          *)
(* A subject is ASCII storage when its units are all below 128, and WTF-8  *)
(* storage otherwise.                                                      *)
(***************************************************************************)
EXTENDS Integers, Sequences, FiniteSets, FiniteSetsExt

CONSTANTS
  Threads,        (* Threads the work area of one transition holds.        *)
  Programs,       (* Programs with their claims, records of Starts, and a  *)
                  (* `host`, the place in Hosts of who searches with them. *)
  Hosts,          (* A sequence of hosts: the texts each may search, the   *)
                  (* work it gives a call and the words it gives the       *)
                  (* region of states.                                     *)
  Froms,          (* Positions a search may be asked to start from.        *)
  MaxStates,      (* Half the slots of the hash of states.                 *)
  MaxClasses,     (* Signatures the storage holds.                         *)
  FirstColumns,   (* FIRST_COLUMNS, the width of a row at first.           *)
  MemoSlots,      (* MEMO_SLOTS, of the memo of classes.                   *)
  UnitsPerState,  (* UNITS_PER_STATE and THRASH_LIMIT: what thrashing is.  *)
  ThrashLimit,
  SkipMin,        (* SKIP_MIN, bytes from which the idle skip is set up.   *)
  MaxCalls        (* Bound: the calls of a behaviour.                      *)

ASSUME DfaConstants ==
  /\ \A k \in DOMAIN Programs : Programs[k].host \in DOMAIN Hosts
  /\ \A k \in DOMAIN Hosts :
       Hosts[k].rooms \cup Hosts[k].budgets \subseteq Nat /\ Hosts[k].subjects \subseteq Seq(Nat)
  /\ Froms \cup {FirstColumns, MemoSlots} \subseteq Nat /\ FirstColumns > 2 /\ MemoSlots > 1
  /\ {Threads, MaxStates, MaxClasses, UnitsPerState, ThrashLimit, SkipMin, MaxCalls} \subseteq Nat \ {0}

VARIABLES
  program,  (* The program searched with, a record of Starts.              *)
  cache,    (* What the host's storage holds.                              *)
  walk,     (* The search under way, Idle between calls.                   *)
  answer,   (* The answer of the last call, with what it asked.            *)
  calls     (* Calls so far, at most MaxCalls.                             *)

vars == <<program, cache, walk, answer, calls>>

(* The automaton of a program.                                             *)
A(p) == INSTANCE Automaton WITH program <- p
Code == program.code

Idle == [phase |-> "idle"]
NoAnswer == [kind |-> "none yet"]
Ops == {"is_match", "find", "captures"}

DEAD == 0
AMBIGUOUS == -1
NONE == -1

Host == Hosts[program.host]
OneStart == program.sticky \/ program.anchored
Ascii(text) == \A i \in DOMAIN text : text[i] < 128

(* A table with one more thing noted in it.                                *)
With(f, key, value) == [x \in DOMAIN f \cup {key} |-> IF x = key THEN value ELSE f[x]]

(* What a host's storage holds once it is reset, and once it is built.     *)
Empty(room) ==
  [room |-> room, built |-> FALSE, disabled |-> FALSE, noCaptures |-> FALSE,
   columns |-> FirstColumns, classes |-> <<>>, table |-> <<>>,
   memo |-> [slot \in 0 .. MemoSlots - 1 |-> <<>>],
   states |-> <<>>, tags |-> {}, slots |-> <<>>, units |-> 0, bad |-> 0]

Build(c) == [Empty(c.room) EXCEPT !.built = TRUE]

Init ==
  /\ \E k \in DOMAIN Programs : program = Programs[k]
  /\ cache \in {Empty(room) : room \in Host.rooms}
  /\ walk = Idle /\ answer = NoAnswer /\ calls = 0

------------------------------------------------------------------------------
(* A step of a search is a record d of what it may change: the cache, the  *)
(* budget, the state it is in, the characters read and counted; `stop` is  *)
(* why it ends early and `got` the state, class or entry last found.       *)
Step(c, budget, s, read, flushed) ==
  [cache |-> c, budget |-> budget, s |-> s, read |-> read, flushed |-> flushed,
   stop |-> "go", got |-> NONE]

IfGo(d, then) == IF d.stop = "go" THEN then ELSE d
Then(d, Next_(_)) == IfGo(d, Next_(d))
Halt(d, why) == IfGo(d, [d EXCEPT !.stop = why])
Got(d, what) == IfGo(d, [d EXCEPT !.got = what])

(* Dfa::charge: all of it or nothing, and then nothing is left.            *)
Charge(d, n) ==
  IfGo(d, IF d.budget < n THEN [d EXCEPT !.stop = "WorkLimit", !.budget = 0]
                          ELSE [d EXCEPT !.budget = @ - n])

(* Words: a row, the header and the count, two for each thread, and in     *)
(* capture mode a row of tag references; a tag record is its link and      *)
(* masks (of one word) for the thread and for the match.                   *)
Words(st, columns) ==
  columns + 2 + 2 * Len(st.threads) + (IF st.kind = "capture" THEN columns ELSE 0)
TagWords == 2 + 4
Used(c) ==
  LET held[k \in 0 .. Len(c.states)] ==
        IF k = 0 THEN 0 ELSE held[k - 1] + Words(c.states[k], c.columns)
  IN held[Len(c.states)] + TagWords * Cardinality(c.tags)

(* Fault: a state is taken for another of the same threads.                *)
SameThreads(c, st) ==
  {i \in DOMAIN c.states : c.states[i].threads = st.threads /\ c.states[i].kind = st.kind}

(* The states held with this header and these threads; at most one.        *)
Same(c, st) ==
  {i \in DOMAIN c.states : \A field \in DOMAIN st : c.states[i][field] = st[field]}

(* A state as it is built: nothing is known of what it leads to.           *)
Held(st) ==
  [kind |-> st.kind, inject |-> st.inject, context |-> st.context, threads |-> st.threads,
   row |-> <<>>]

(* Dfa::intern: the state, built if it is new, NONE where there is no room.*)
Intern(d, st) ==
  LET c == d.cache
      size == Words(st, c.columns)
      paid == Charge(d, size \div 8 + 1)
  IN IF d.stop # "go" THEN d
     ELSE IF st.threads = <<>> /\ ~st.inject THEN Got(d, DEAD)
     ELSE IF Same(c, st) # {} THEN Got(d, CHOOSE i \in Same(c, st) : TRUE)
     ELSE IF Used(c) + size > c.room \/ Len(c.states) + 1 > MaxStates THEN Got(d, NONE)
     ELSE IF paid.stop # "go" THEN paid
     ELSE [paid EXCEPT !.cache.states = Append(@, Held(st)),
                       !.got = Len(c.states) + 1]

(* Dfa::flush_units: characters read since the last clear.                 *)
Flush(d) == [d EXCEPT !.cache.units = @ + d.read - d.flushed, !.flushed = d.read]

(* Fault: the start states survive a clear.                                *)
ForgetButSlots(c) == [c EXCEPT !.states = <<>>, !.tags = {}, !.units = 0]

(* Every state and every reference to one is dropped; classes are kept.    *)
Forget(c) == [c EXCEPT !.states = <<>>, !.tags = {}, !.slots = <<>>, !.units = 0]

(* A clear for space after too few characters for the states built since   *)
(* the last is thrashing; enough of them in a row disable the cache.       *)
Thrashed(c) ==
  LET bad == IF c.units < Len(c.states) * UnitsPerState THEN c.bad + 1 ELSE 0
  IN [c EXCEPT !.bad = bad, !.disabled = bad >= ThrashLimit]

(* Dfa::clear.                                                             *)
Clear(d, space) ==
  LET flushed == Flush(d)
      c == IF space THEN Thrashed(flushed.cache) ELSE flushed.cache
      cleared == [flushed EXCEPT !.cache = Forget(c)]
  IN IfGo(d, IF c.disabled THEN Halt(cleared, "Disabled") ELSE cleared)

(* Dfa::save, clear and restore: only the state the search is in is kept,  *)
(* and a cache with no room even for that cannot go on.                    *)
Plain(st) == [kind |-> st.kind, inject |-> st.inject, context |-> st.context, threads |-> st.threads]

OrCapacity(d) == Then(d, LAMBDA e : IF e.got = NONE THEN Halt(e, "Capacity") ELSE e)

Keeping(d, space) ==
  Then(OrCapacity(Intern(Clear(d, space), Plain(d.cache.states[d.s]))), LAMBDA kept :
    [kept EXCEPT !.s = kept.got])

(* Dfa::intern_next: a full cache is cleared first.                        *)
InternNext(d, st) ==
  Then(Intern(d, st), LAMBDA first :
    IF first.got # NONE THEN first ELSE OrCapacity(Intern(Keeping(d, TRUE), st)))

(* Dfa::start_state, build_start: one slot for each mode and context.      *)
StartOf(mode, context) ==
  CASE mode = "unanchored" -> A(program)!State("forward", TRUE, context, <<>>)
    [] mode = "anchored" -> A(program)!State("forward", FALSE, context, <<A(program)!Thread(1)>>)
    [] mode = "capture" -> A(program)!State("capture", FALSE, context, <<A(program)!Thread(1)>>)
    [] mode = "reverse" -> A(program)!State("reverse", FALSE, context, <<A(program)!Thread(Len(Code))>>)

StartState(d, mode, context) ==
  LET slot == <<mode, context>>
      st == StartOf(mode, context)
      first == Intern(d, st)
      found == IF first.got = NONE THEN OrCapacity(Intern(Clear(d, TRUE), st)) ELSE first
  IN IF d.stop # "go" THEN d
     ELSE IF slot \in DOMAIN d.cache.slots THEN [d EXCEPT !.s = d.cache.slots[slot]]
     ELSE IF first.stop # "go" THEN first
     ELSE IfGo(found, [found EXCEPT !.s = found.got,
                                    !.cache.slots = With(@, slot, found.got)])

------------------------------------------------------------------------------
(* Columns: 0 is the edge of the subject, 1 that of a character not seen,  *)
(* never filled, and from 2 on those of the classes.                       *)
UNCLASSIFIED == 1
Hash(c) == c % MemoSlots
MemoUsed(c) == Cardinality({slot \in DOMAIN c.memo : c.memo[slot] # <<>>})

(* The slot a character is in, or would be put in.                         *)
Probe(memo, ch) ==
  LET distance(slot) == (slot - Hash(ch) + MemoSlots) % MemoSlots
      stops == {slot \in DOMAIN memo : memo[slot] = <<>> \/ memo[slot][1] = ch}
  IN CHOOSE slot \in stops : \A other \in stops : distance(slot) <= distance(other)

(* Fault: what the first slot holds is taken for the character's.          *)
KnownByHash(c, ch) ==
  IF ch < 128 THEN IF ch \in DOMAIN c.table THEN c.table[ch] ELSE UNCLASSIFIED
  ELSE LET held == c.memo[Hash(ch)] IN IF held # <<>> THEN held[2] ELSE UNCLASSIFIED

(* The column a walk knows without probing: the table, or the first slot.  *)
Known(c, ch) ==
  IF ch < 128 THEN IF ch \in DOMAIN c.table THEN c.table[ch] ELSE UNCLASSIFIED
  ELSE LET held == c.memo[Hash(ch)] IN
         IF held # <<>> /\ held[1] = ch THEN held[2] ELSE UNCLASSIFIED

(* Where the class of a character is noted; a memo three quarters full is  *)
(* emptied first.                                                          *)
Noted(c, ch, column) ==
  IF ch < 128 THEN [c EXCEPT !.table = With(@, ch, column)]
  ELSE LET memo == IF MemoUsed(c) >= (MemoSlots * 3) \div 4
                     THEN [slot \in DOMAIN c.memo |-> <<>>] ELSE c.memo
       IN [c EXCEPT !.memo = [memo EXCEPT ![Probe(memo, ch)] = <<ch, column>>]]

Smaller(x, z) == IF x < z THEN x ELSE z

(* Fault: rows are not widened for the class after the last column.        *)
WidenedLate(d, class) ==
  IF class + 1 > d.cache.columns
    THEN Keeping([d EXCEPT !.cache.columns = Smaller(2 * @, MaxClasses + 2)], FALSE) ELSE d

(* Rows are as wide as the classes: to widen them drops every state.       *)
Widened(d, class) ==
  IF class + 1 >= d.cache.columns
    THEN Keeping([d EXCEPT !.cache.columns = Smaller(2 * @, MaxClasses + 2)], FALSE) ELSE d

(* Dfa::classify: every predicate is evaluated, and paid for first.        *)
Classify(d, ch) ==
  LET paid == Charge(d, Cardinality(A(program)!Predicates) + 1)
      c == d.cache
      known == {k \in DOMAIN c.classes : c.classes[k] = A(program)!Signature(ch)}
      class == Len(c.classes) + 1
      wide == Widened([paid EXCEPT !.cache.classes = Append(@, A(program)!Signature(ch))], class)
  IN IF paid.stop # "go" THEN paid
     ELSE IF known # {} THEN Got(paid, 1 + CHOOSE k \in known : TRUE)
     ELSE IF Len(c.classes) >= MaxClasses THEN Halt(paid, "Capacity")
     ELSE Got(wide, class + 1)

(* Dfa::column.                                                            *)
Column(d, ch) ==
  LET held == d.cache.memo[Probe(d.cache.memo, ch)]
      found == Classify(d, ch)
  IN IF ch < 128 /\ ch \in DOMAIN d.cache.table THEN Got(d, d.cache.table[ch])
     ELSE IF ch >= 128 /\ held # <<>> THEN Got(d, held[2])
     ELSE IfGo(found, [found EXCEPT !.cache = Noted(@, ch, found.got)])

------------------------------------------------------------------------------
(* An entry of a row: the state it leads to, whether a match ends before   *)
(* the character, and what it does to the captures, <<>> for nothing.      *)
Entry(next, flag, effects) == [next |-> next, flag |-> flag, effects |-> effects]

Wrote(w) ==
  [path |-> w.path, match |-> w.match, thread |-> w.out # <<>>, matched |-> w.flagged]

(* Fault: a match end seen while a thread goes on leaves no captures.      *)
EffectsOfThread(st, w) ==
  IF st.kind = "capture" /\ w.out # <<>> /\ w.path # A(program)!NoMask THEN <<Wrote(w)>> ELSE <<>>

(* What a transition in capture mode does to the registers, if anything.   *)
Effects(st, w) ==
  IF st.kind = "capture" /\ (w.flagged \/ (w.out # <<>> /\ w.path # A(program)!NoMask))
    THEN <<Wrote(w)>> ELSE <<>>

(* Dfa::intern_tag.                                                        *)
TagFits(d, tag) == tag \in d.cache.tags \/ Used(d.cache) + TagWords <= d.cache.room

(* The tag record, or after a clear that keeps both states.                *)
InternTag(d, tag, st) ==
  LET kept == Keeping(d, TRUE)
      again == IF d.got = DEAD THEN Got(kept, DEAD) ELSE OrCapacity(Intern(kept, st))
      here == IF TagFits(d, tag) THEN d ELSE again
  IN IfGo(d, IfGo(here, IF TagFits(here, tag) THEN [here EXCEPT !.cache.tags = @ \cup {tag}]
                                             ELSE Halt(here, "Capacity")))

(* Dfa::compute: the transition, what it leads to, and the row's entry.    *)
Led(d, column, st, sig, w) ==
  LET successor == A(program)!Successor(st, sig, w)
      effects == Effects(st, w)
      Put(e, entry) == [e EXCEPT !.cache.states[e.s].row = With(@, column, entry), !.got = entry]
  IN IF w.stop = "Capacity" THEN Halt(d, "Capacity")
     ELSE Then(Charge(d, w.work), LAMBDA paid :
       IF w.stop = "Ambiguous" THEN Put(paid, Entry(AMBIGUOUS, FALSE, <<>>))
       ELSE Then(IF column = 0 THEN Got(paid, DEAD) ELSE InternNext(paid, successor), LAMBDA led :
            Then(IF effects = <<>> THEN led ELSE InternTag(led, effects[1], successor), LAMBDA tagged :
              Put(tagged, Entry(tagged.got, w.flagged, effects)))))
Compute(d, column) ==
  LET st == Plain(d.cache.states[d.s])
      sig == IF column = 0 THEN <<>> ELSE <<d.cache.classes[column - 1]>>
  IN Led(d, column, st, sig, A(program)!Transition(st, sig))

(* Dfa::cached, and step_slow where it has nothing: ch is <<>> at an edge. *)
(* `read` is what the walk has read when it takes the slow step.           *)
Look(d, ch, read) ==
  LET row == d.cache.states[d.s].row
      quick == IF ch = <<>> THEN 0 ELSE Known(d.cache, ch[1])
      slowly == [d EXCEPT !.read = read]
  IN IF quick \in DOMAIN row THEN Got(d, row[quick])
     ELSE Then(IF ch = <<>> THEN Got(slowly, 0) ELSE Column(slowly, ch[1]), LAMBDA at :
       LET slow == at.cache.states[at.s].row IN
         IF at.got \in DOMAIN slow THEN Got(at, slow[at.got]) ELSE Compute(at, at.got))

------------------------------------------------------------------------------
(* The answers of a call.  Spans and captures are pairs of positions.      *)
Answer(q, kind, groups) ==
  [op |-> q.op, text |-> q.text, from |-> q.from, kind |-> kind, groups |-> groups]

Declined(q, why) == Answer(q, why, <<>>)
NoMatch(q) == Answer(q, "NoMatch", <<>>)
Matched(q, groups) == Answer(q, "Match", IF q.op = "is_match" THEN <<>> ELSE groups)

Bounds(q) == q.op # "is_match"

(* no_start: the first-character claim alone decides, where it is decided  *)
(* for less than the budget left and the subject is ASCII.                 *)
NoStart(q, oneStart) ==
  LET first == program.first
      inspected == IF oneStart \/ q.from = Len(q.text) THEN 1 ELSE Len(q.text) - q.from
      looked == IF oneStart THEN {q.from + 1} \cap DOMAIN q.text ELSE q.from + 1 .. Len(q.text)
  IN /\ Ascii(q.text) /\ ~first.nullable
     /\ q.from <= Len(q.text) /\ q.budget >= inspected
     /\ \A i \in looked : q.text[i] \notin first.lo .. first.hi

------------------------------------------------------------------------------
(* The steady path: a search everything of which is cached, none as soon   *)
(* as anything is not, before anything changes.                            *)
HighHalf(c) == c \in 55296 .. 56319
LowHalf(c) == c \in 56320 .. 57343
PairLow(text, i) == i > 1 /\ LowHalf(text[i]) /\ HighHalf(text[i - 1])
PairHigh(text, i) == i < Len(text) /\ HighHalf(text[i]) /\ LowHalf(text[i + 1])

(* utf16_units, read the other way: the bytes each unit takes, those of a  *)
(* pair with its first half.                                               *)
Width(text, i) ==
  CASE text[i] < 128 -> 1 [] text[i] \in 128 .. 2047 -> 2
    [] PairLow(text, i) -> 0 [] PairHigh(text, i) -> 4 [] OTHER -> 3
Bytes(text, count) == FoldSet(LAMBDA i, sum : sum + Width(text, i), 0, 1 .. count)

(* ascii_start: no character beyond ASCII can begin a match.               *)
Reached ==
  LET reached[k \in 0 .. Len(Code)] ==
        IF k = 0 THEN {1}
        ELSE LET pcs == reached[k - 1] IN pcs \cup UNION {A(program)!Successors(pc) : pc \in pcs}
  IN reached[Len(Code)]

AsciiStart ==
  \A pc \in Reached :
    Code[pc].op \in A(program)!ConsumingOps =>
      CASE Code[pc].op = "CHAR" -> Code[pc].a < 128
        [] Code[pc].op = "CLASS" -> ~Code[pc].b /\ \A k \in DOMAIN Code[pc].a : Code[pc].a[k][2] < 128
        [] OTHER -> FALSE

InFirst(c) == c \in program.first.lo .. program.first.hi

(* Fault: pairs are looked for though their first byte may be elsewhere.   *)
SkipFirstOnly(text, i) == {j \in i .. Len(text) : text[j] < 128 /\ \E p \in program.pairs : text[j] = p[2]}

(* skip_for, skip_ascii: the characters the idle state is left at, by the  *)
(* pairs every match begins with or by its first character.                *)
Admits(text, i) ==
  {j \in i .. Len(text) :
     IF program.pairs # {} /\ (Ascii(text) \/ AsciiStart)
       THEN j < Len(text) /\ SubSeq(text, j, j + 1) \in program.pairs
       ELSE text[j] < 128 /\ InFirst(text[j])}

StaysIdle(c, s, text, i) ==
  LET row == c.states[s].row
      column == Known(c, text[i])
  IN /\ ~HighHalf(text[i]) /\ ~LowHalf(text[i])
     /\ column \in DOMAIN row /\ row[column] = Entry(s, FALSE, <<>>)

(* Where the idle state s goes on from the i-th character.  Characters     *)
(* beyond ASCII stop it unless they are known to leave it as it is.        *)
Skip(c, s, text, i) ==
  LET admitted == Admits(text, i)
      stops == IF Ascii(text) \/ AsciiStart THEN admitted
               ELSE admitted \cup {j \in i .. Len(text) : text[j] >= 128 /\ ~StaysIdle(c, s, text, j)}
  IN IF stops = {} THEN Len(text) + 1 ELSE CHOOSE j \in stops : \A k \in stops : j <= k

(* The entry a walk reads at the i-th character, or the edge, from what is *)
(* known of it: <<>> where it is not.                                      *)
Entered(c, s, text, i) ==
  LET column == IF i \in DOMAIN text THEN Known(c, text[i]) ELSE 0
      row == c.states[s].row
  IN IF column \in DOMAIN row THEN <<row[column]>> ELSE <<>>

(* ascii_steady, wtf8_steady, a character at a time: v is the character    *)
(* read next, the state it is read in, the last match end and how the walk *)
(* goes; `idle` is the state to skip in, NONE to skip nowhere.             *)
ReadAt(c, text, first, v, at) ==
  LET found == Entered(c, v.s, text, at)
      entry == found[1]
      last == IF entry.flag THEN <<at - 1>> ELSE v.last
      over == at > Len(text) \/ entry.next = DEAD \/ (first /\ entry.flag)
  IN IF found = <<>> THEN [v EXCEPT !.goes = "astray"]
     ELSE IF over THEN [v EXCEPT !.goes = "over", !.at = at, !.last = last]
     ELSE [v EXCEPT !.at = at + 1, !.s = entry.next, !.last = last]
ReadOne(c, text, idle, first, v) ==
  LET skips == v.s = idle /\ v.at <= Len(text) /\ ~PairLow(text, v.at)
  IN IF v.goes # "on" THEN v
     ELSE ReadAt(c, text, first, v, IF skips THEN Skip(c, v.s, text, v.at) ELSE v.at)

(* The last match end and the characters passed over, where all is known.  *)
Steadily(c, text, start, s, idle, first) ==
  LET after[n \in 0 .. Len(text) + 1] ==
        IF n = 0 THEN [at |-> start, s |-> s, last |-> <<>>, goes |-> "on"]
        ELSE ReadOne(c, text, idle, first, after[n - 1])
      end == after[Len(text) + 1]
      read == IF end.at > Len(text) THEN end.at - 1 ELSE end.at
  IN IF end.goes # "over" THEN {}
     ELSE {[last |-> end.last, passed |-> IF Ascii(text) THEN end.at - 1 ELSE Bytes(text, read)]}

(* steady: over ASCII storage from any start without context, over other   *)
(* storage from the beginning only.                                        *)
Steady(c, q) ==
  LET mode == IF OneStart THEN "anchored" ELSE "unanchored"
      slot == <<mode, {"EDGE"} \cap A(program)!Need>>
      length == Bytes(q.text, Len(q.text))
      skips == length - q.from >= SkipMin /\ ~OneStart /\ A(program)!Need = {} /\ ~program.first.nullable
      s == c.slots[slot]
  IN IF \/ q.from > 0 /\ (~Ascii(q.text) \/ A(program)!Need # {})
        \/ slot \notin DOMAIN c.slots \/ q.budget < length
       THEN {}
       ELSE Steadily(c, q.text, q.from + 1, s, IF skips THEN s ELSE NONE, ~Bounds(q))

(* reverse_steady: the leftmost start of the match ending at `at`, over    *)
(* ASCII storage, with what it reads.                                      *)
RewindOne(c, q, v) ==
  LET known == Entered(c, v.s, q.text, v.at)
      entry == known[1]
      begin == IF entry.flag THEN <<v.at>> ELSE v.begin
      over == v.at <= q.from \/ entry.next = DEAD
  IN IF v.goes # "on" THEN v
     ELSE IF known = <<>> THEN [v EXCEPT !.goes = "astray"]
     ELSE IF over THEN [v EXCEPT !.goes = "over", !.read = @ + 1, !.begin = begin]
     ELSE [v EXCEPT !.s = entry.next, !.at = @ - 1, !.read = @ + 1, !.begin = begin]

Rewinding(c, q, s, end) ==
  LET after[n \in 0 .. Len(q.text) + 1] ==
        IF n = 0 THEN [s |-> s, at |-> end, read |-> 0, begin |-> <<>>, goes |-> "on"]
        ELSE RewindOne(c, q, after[n - 1])
      start == after[Len(q.text) + 1]
  IN IF start.goes # "over" \/ start.begin = <<>> THEN <<>>
     ELSE <<[begin |-> start.begin[1], read |-> start.read]>>

ReverseSteady(c, q, end) ==
  LET slot == <<"reverse", A(program)!ContextAfter(q.text, end)>> IN
    IF ~Ascii(q.text) \/ slot \notin DOMAIN c.slots THEN <<>>
    ELSE Rewinding(c, q, c.slots[slot], end)

------------------------------------------------------------------------------
(* A walk under way: the question, where it is, and what it has seen.      *)
Walking(phase, q, d, at, base) ==
  [phase |-> phase, q |-> q, s |-> d.s, budget |-> d.budget, allowance |-> d.budget,
   begin |-> at, at |-> at, base |-> base, read |-> d.read, flushed |-> d.flushed, last |-> <<>>,
   registers |-> [slot \in 0 .. 2 * program.captures - 1 |-> NONE], snap |-> <<>>]

StepOf(v) == Step(cache, v.budget, v.s, v.read, v.flushed)

(* A call or a walk ends: what was read is counted, and the host is told.  *)
End(d, reply) ==
  /\ cache' = Flush(d).cache
  /\ answer' = reply /\ walk' = Idle

(* What a call does next, unless it ends where it is.                      *)
Proceed(q, d, Do(_)) == IF d.stop # "go" THEN End(d, Declined(q, d.stop)) ELSE Do(d)

(* A walk starts in the start state of its mode.                           *)
Enter(phase, q, d, mode, context, at) ==
  Proceed(q, StartState(d, mode, context), LAMBDA e :
    cache' = e.cache /\ walk' = Walking(phase, q, e, at, e.read) /\ answer' = NoAnswer)

Mode == IF OneStart THEN "anchored" ELSE "unanchored"

(* Dfa::run: what the forward walk found, and then its start.              *)
Conclude(q, d, last) ==
  IF last = <<>> THEN End(d, NoMatch(q))
  ELSE IF ~Bounds(q) \/ OneStart THEN End(d, Matched(q, <<<<q.from, last[1]>>>>))
  ELSE Enter("reverse", q, d, "reverse", A(program)!ContextAfter(q.text, last[1]), last[1])

(* search: answered by the steady path.                                    *)
CallSteady(q) ==
  /\ q.op # "captures" /\ cache.built /\ ~cache.disabled /\ q.from <= Len(q.text)
  /\ \E found \in Steady(cache, q) :
       LET last == found.last
           charged == found.passed - (IF Ascii(q.text) THEN q.from ELSE 0)
           d == Step(cache, q.budget - charged, NONE, charged, 0)
           back == ReverseSteady(cache, q, last[1])
           whole == [d EXCEPT !.budget = @ - back[1].read, !.read = @ + back[1].read]
           rest == Step(Flush(d).cache, IF back = <<>> THEN d.budget ELSE 0, NONE, 0, 0)
       IN IF last = <<>> \/ ~Bounds(q) \/ OneStart THEN Conclude(q, d, last)
          ELSE IF back # <<>> /\ whole.budget >= 0
            THEN End(whole, Matched(q, <<<<back[1].begin, last[1]>>>>))
          ELSE Enter("reverse", q, rest, "reverse", A(program)!ContextAfter(q.text, last[1]), last[1])

(* general, capture_search: decided before a state is built, or a walk.    *)
CallGeneral(q) ==
  LET capturing == q.op = "captures"
      built == IF cache.built THEN cache ELSE Build(cache)
      d == Step(built, q.budget, NONE, 0, 0)
      steady == /\ ~capturing /\ cache.built /\ ~cache.disabled /\ q.from <= Len(q.text)
                /\ Steady(cache, q) # {}
  IN /\ ~steady /\ ~(capturing /\ cache.noCaptures)
     /\ IF capturing /\ ~Ascii(q.text) THEN End([d EXCEPT !.cache = cache], Declined(q, "Captures"))
        ELSE IF ~cache.built /\ NoStart(q, capturing \/ OneStart)
          THEN End([d EXCEPT !.cache = cache], NoMatch(q))
        ELSE IF built.disabled THEN End(d, Declined(q, "Disabled"))
        ELSE IF q.from > Len(q.text) THEN End(d, NoMatch(q))
        ELSE Enter(IF capturing THEN "capture" ELSE "forward", q, d,
                   IF capturing THEN "capture" ELSE Mode, A(program)!ContextBefore(q.text, q.from), q.from)

(* captures, over a cache that has given captures up.                      *)
CallDeclined(q) ==
  /\ q.op = "captures" /\ cache.noCaptures
  /\ End(Step(cache, q.budget, NONE, 0, 0), Declined(q, "Captures"))

Call ==
  /\ walk = Idle /\ calls < MaxCalls /\ calls' = calls + 1
  /\ \E op \in Ops, text \in Host.subjects, from \in Froms, budget \in Host.budgets :
       LET q == [op |-> op, text |-> text, from |-> from, budget |-> budget] IN
         CallSteady(q) \/ CallGeneral(q) \/ CallDeclined(q)
  /\ UNCHANGED program

------------------------------------------------------------------------------
(* One character of a walk.                                                *)
Running(phase) == walk # Idle /\ walk.phase = phase
AtEnd(v) == v.at = Len(v.q.text)
Char(v) == IF AtEnd(v) THEN <<>> ELSE <<v.q.text[v.at + 1]>>
Passed(v) == v.base + v.at - v.begin
OutOfAllowance(v) == ~AtEnd(v) /\ v.at - v.begin >= v.allowance

(* Characters counted as read once this one is: over ASCII storage those   *)
(* before it.                                                              *)
WithThis(v) == Passed(v) + (IF Ascii(v.q.text) \/ AtEnd(v) THEN 0 ELSE 1)

(* The work of a walk is charged when it ends.                             *)
Finish(v, d, read, Do(_)) == Proceed(v.q, Charge([d EXCEPT !.read = read], read - v.base), Do)

Further(v, d, s, at, last) ==
  /\ cache' = d.cache /\ answer' = NoAnswer
  /\ walk' = [v EXCEPT !.s = s, !.at = at, !.last = last, !.budget = d.budget,
                       !.read = d.read, !.flushed = d.flushed]

(* Dfa::forward.                                                           *)
Forward ==
  /\ Running("forward")
  /\ LET v == walk IN
       IF OutOfAllowance(v)
         THEN End([StepOf(v) EXCEPT !.read = IF Ascii(v.q.text) THEN Passed(v) ELSE @],
                  Declined(v.q, "WorkLimit"))
       ELSE Proceed(v.q, Look(StepOf(v), Char(v), WithThis(v)), LAMBDA d :
         LET entry == d.got
             last == IF entry.flag THEN <<v.at>> ELSE v.last
             over == AtEnd(v) \/ entry.next = DEAD \/ (entry.flag /\ ~Bounds(v.q))
         IN IF ~over THEN Further(v, d, entry.next, v.at + 1, last)
            ELSE Finish(v, d, WithThis(v), LAMBDA done : Conclude(v.q, done, last)))
  /\ UNCHANGED <<program, calls>>

(* Dfa::reverse: leftwards from the match end.                             *)
Reverse_ ==
  /\ Running("reverse")
  /\ LET v == walk
         read == v.base + v.begin - v.at + 1
         char == IF v.at = 0 THEN <<>> ELSE <<v.q.text[v.at]>>
     IN Proceed(v.q, Look(StepOf(v), char, read), LAMBDA d :
          LET entry == d.got
              found == IF entry.flag THEN <<v.at>> ELSE v.last
          IN IF v.at > v.q.from /\ entry.next # DEAD THEN Further(v, d, entry.next, v.at - 1, found)
             ELSE Finish(v, d, read, LAMBDA done :
                    End(done, IF found = <<>> THEN Declined(v.q, "InvalidProgram")
                              ELSE Matched(v.q, <<<<found[1], v.begin>>>>))))
  /\ UNCHANGED <<program, calls>>

(* apply_effects.                                                          *)
Applied(registers, mask, at) ==
  [slot \in DOMAIN registers |->
     IF slot \in mask.clear THEN NONE ELSE IF slot \in mask.set THEN at ELSE registers[slot]]

(* The masks of a transition, of nothing where it has no effects.          *)
Masks(effects) ==
  IF effects = <<>> THEN [path |-> A(program)!NoMask, match |-> A(program)!NoMask] ELSE effects[1]

(* The groups the registers hold; one with an unwritten end took no part.  *)
Groups(registers) ==
  [k \in 1 .. program.captures |->
     LET lo == registers[2 * k - 2]
         hi == registers[2 * k - 1]
     IN IF lo = NONE \/ hi = NONE THEN <<>> ELSE <<lo, hi>>]

(* Dfa::capture_forward, capture_run: the effects of a transition are      *)
(* applied as it is taken.  A match a going thread may replace is kept     *)
(* apart; one that ends the walk is in the registers themselves.           *)
Capture ==
  /\ Running("capture")
  /\ LET v == walk IN
       IF OutOfAllowance(v)
         THEN End([StepOf(v) EXCEPT !.read = Passed(v)], Declined(v.q, "WorkLimit"))
       ELSE Proceed(v.q, Look(StepOf(v), Char(v), Passed(v)), LAMBDA d :
         LET entry == d.got
             effects == Masks(entry.effects)
             last == IF entry.flag THEN <<v.at>> ELSE v.last
             snap == IF entry.flag THEN Applied(v.registers, effects.match, v.at) ELSE v.snap
         IN IF entry.next = AMBIGUOUS
              THEN End([d EXCEPT !.cache.noCaptures = TRUE], Declined(v.q, "Captures"))
            ELSE IF AtEnd(v) \/ entry.next = DEAD
              THEN Finish(v, d, Passed(v), LAMBDA done :
                     End(done, IF last = <<>> THEN NoMatch(v.q) ELSE Matched(v.q, Groups(snap))))
            ELSE /\ cache' = d.cache /\ answer' = NoAnswer
                 /\ walk' = [v EXCEPT !.s = entry.next, !.at = @ + 1, !.last = last, !.snap = snap,
                                      !.budget = d.budget, !.read = d.read, !.flushed = d.flushed,
                                      !.registers = Applied(@, effects.path, v.at)])
  /\ UNCHANGED <<program, calls>>

(* reset, by a host that keeps its storage or gives the cache another.     *)
Reset ==
  /\ walk = Idle /\ cache.built
  /\ \E room \in Host.rooms : cache' = Empty(room)
  /\ answer' = NoAnswer
  /\ UNCHANGED <<program, walk, calls>>

Next == Call \/ Forward \/ Reverse_ \/ Capture \/ Reset

Spec == Init /\ [][Next]_vars

------------------------------------------------------------------------------
(* Properties.                                                             *)

(* Every state the cache leads to is one it holds, whatever was dropped;   *)
(* the walk under way is in one of them, and the columns fit the rows.  It *)
(* stays within what the host gave it, every class has a column, and the   *)
(* memo keeps a free slot, without which a probe would not end.            *)
TypeOK ==
  LET held == DOMAIN cache.states IN
    /\ walk # Idle => walk.s \in held /\ walk.at \in 0 .. Len(walk.q.text)
    /\ \A slot \in DOMAIN cache.slots : cache.slots[slot] \in held
    /\ \A i \in held : DOMAIN cache.states[i].row \subseteq {0} \cup 2 .. Len(cache.classes) + 1
    /\ \A i \in held : \A column \in DOMAIN cache.states[i].row :
         cache.states[i].row[column].next \in held \cup {DEAD, AMBIGUOUS}
    /\ cache.bad \in 0 .. ThrashLimit
    /\ Used(cache) <= cache.room /\ Len(cache.states) <= MaxStates
    /\ Len(cache.classes) <= MaxClasses /\ Len(cache.classes) + 2 <= cache.columns
    /\ MemoUsed(cache) < MemoSlots

(* What is cached is what would be computed: entries, start states and     *)
(* classes survive widening, clears and interrupted calls only as they     *)
(* are, and no state is held twice.                                        *)
EntryTrue(c, i, column) ==
  LET st == Plain(c.states[i])
      entry == c.states[i].row[column]
      sig == IF column = 0 THEN <<>> ELSE <<c.classes[column - 1]>>
      w == A(program)!Transition(st, sig)
      next == A(program)!Successor(st, sig, w)
  IN IF w.stop = "Ambiguous" THEN entry.next = AMBIGUOUS
     ELSE /\ w.stop # "Capacity" /\ entry.flag = w.flagged /\ entry.effects = Effects(st, w)
          /\ IF column = 0 \/ (next.threads = <<>> /\ ~next.inject) THEN entry.next = DEAD
             ELSE entry.next > 0 /\ Plain(c.states[entry.next]) = next

HeldTrue ==
  /\ \A i \in DOMAIN cache.states :
       /\ \A column \in DOMAIN cache.states[i].row : EntryTrue(cache, i, column)
       /\ Same(cache, Plain(cache.states[i])) = {i}
  /\ \A slot \in DOMAIN cache.slots :
       Plain(cache.states[cache.slots[slot]]) = StartOf(slot[1], slot[2])
  /\ \A ch \in DOMAIN cache.table : cache.classes[cache.table[ch] - 1] = A(program)!Signature(ch)
  /\ \A slot \in DOMAIN cache.memo :
       LET held == cache.memo[slot] IN
         held # <<>> => cache.classes[held[2] - 1] = A(program)!Signature(held[1])

(* A walk with nothing cached: r is its state, the last match end, the     *)
(* registers and those of the last match, computed from the ones before.   *)
Beside(phase, text, at) ==
  LET i == IF phase = "reverse" THEN at ELSE at + 1
  IN IF i \in DOMAIN text THEN <<A(program)!Signature(text[i])>> ELSE <<>>

Computed(r, at, sig, w, masks) ==
  [st |-> A(program)!Successor(r.st, sig, w),
   last |-> IF w.flagged THEN <<at>> ELSE r.last,
   registers |-> Applied(r.registers, masks.path, at),
   snap |-> IF w.flagged THEN Applied(r.registers, masks.match, at) ELSE r.snap]

Taken(r, at, sig, w) == Computed(r, at, sig, w, Masks(Effects(r.st, w)))
Signed(r, at, sig) == Taken(r, at, sig, A(program)!Transition(r.st, sig))
Unaided(r, phase, text, at) == Signed(r, at, Beside(phase, text, at))

Entrance(phase, text, at) ==
  [st |-> CASE phase = "forward" -> StartOf(Mode, A(program)!ContextBefore(text, at))
            [] phase = "capture" -> StartOf("capture", A(program)!ContextBefore(text, at))
            [] phase = "reverse" -> StartOf("reverse", A(program)!ContextAfter(text, at)),
   last |-> <<>>, registers |-> [slot \in 0 .. 2 * program.captures - 1 |-> NONE], snap |-> <<>>]

(* What has been read after each number of characters.                     *)
Place(phase, begin, n) == IF phase = "reverse" THEN begin - n ELSE begin + n
Gone(v) == IF v.phase = "reverse" THEN v.begin - v.at ELSE v.at - v.begin

Readings(phase, text, begin) ==
  LET read[n \in 0 .. Len(text)] ==
        IF n = 0 THEN Entrance(phase, text, begin)
        ELSE Unaided(read[n - 1], phase, text, Place(phase, begin, n - 1))
  IN read

(* However often the storage was cleared or widened under a walk, and its  *)
(* state renumbered, it has read what it would have without a cache.       *)
ReadsTrue(c, v, r) ==
  /\ r.st = Plain(c.states[v.s]) /\ r.last = v.last
  /\ v.phase = "capture" => r.registers = v.registers /\ r.snap = v.snap

WalkTrue ==
  walk # Idle => ReadsTrue(cache, walk, Readings(walk.phase, walk.q.text, walk.begin)[Gone(walk)])

CacheTrue == HeldTrue /\ WalkTrue

(* A walk that ends with an answer, or hands its match end to the reverse  *)
(* walk, is one the reading without a cache has carried as far: to the     *)
(* edge, to where no thread is alive, or to a match where any one will do. *)
(* The answer, or the place handed over, is what that reading has found.   *)
Exhausted(v, u) ==
  \/ IF v.phase = "reverse" THEN v.at <= v.q.from ELSE AtEnd(v)
  \/ u.st.threads = <<>> /\ ~u.st.inject
  \/ v.phase = "forward" /\ ~Bounds(v.q) /\ u.last # <<>>

Verdict(v, u) ==
  IF u.last = <<>> THEN NoMatch(v.q)
  ELSE Matched(v.q, CASE v.phase = "forward" -> <<<<v.q.from, u.last[1]>>>>
                      [] v.phase = "reverse" -> <<<<u.last[1], v.begin>>>>
                      [] v.phase = "capture" -> Groups(u.snap))

EndsAsRead ==
  LET r == Readings(walk.phase, walk.q.text, walk.begin)[Gone(walk)]
      u == Unaided(r, walk.phase, walk.q.text, walk.at)
  IN walk # Idle =>
       /\ answer'.kind \in {"Match", "NoMatch"} => Exhausted(walk, u) /\ answer' = Verdict(walk, u)
       /\ walk.phase = "forward" /\ walk'.phase = "reverse" =>
            /\ Exhausted(walk, u) /\ u.last = <<walk'.begin>>
            /\ walk'.at = walk'.begin /\ walk'.q = walk.q

(* An answer is never given early, late or of another state: a search that *)
(* ends has read as far as one that keeps no rows would, and says what     *)
(* that one has found, whatever was cleared, widened or numbered anew on   *)
(* the way (Dfa::forward, reverse, capture_run).                           *)
ReadToTheEnd == [][EndsAsRead]_vars
================================================================================
