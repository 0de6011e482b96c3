---------------------------------- MODULE Scan ----------------------------------
(***************************************************************************)
(* How a search comes to the starts it tries (executor/admission.rs,       *)
(* executor/candidate.rs, executor.rs): the last character, the short      *)
(* remainder, the condition every match contains, the seek and the scan    *)
(* for a character a match can begin with, over ASCII storage, bytes with  *)
(* more, and UTF-16 units, in rounds of a quantum.  What a trial of a      *)
(* start does is Vm's; here it gives what the pattern means there.  The    *)
(* skip of a failed run, a position to start near, flags and sorted        *)
(* classes are left out.                                                   *)
(***************************************************************************)
EXTENDS Input, Wtf8Text

CONSTANTS
  Programs,    (* Programs: their `claims`, a record of Starts, and what   *)
               (* they mean, where in each text a match begins: `matches`. *)
  Texts,       (* Sequences of bytes, all well formed.                     *)
  Quanta,      (* Quanta a host may give a call.                           *)
  Froms,       (* Starts a search is asked for.                            *)
  Budgets,     (* Budgets of a search.                                     *)
  Chunk,       (* 256: bytes of one round of a condition or a mixed scan.  *)
  Round,       (* 4096: positions of one round of a scan of ASCII bytes.   *)
  Short,       (* SHORT_REMAINDER, 64.                                     *)
  AdmitFrom,   (* 64: the units a subject has before a condition is asked. *)
  MostCompared,(* 32: the characters of the longest needle and run.        *)
  Word,        (* 8: the places of a word.                                 *)
  Block,       (* 32: the places of a block.                               *)
  BlockMin     (* 256: the places from which blocks are compared.          *)

(* These characters are at an offset of data.                              *)
Holds(data, at, text) ==
  at + Len(text) <= Len(data) /\ \A k \in DOMAIN text : data[at + k] = text[k]

(* What a program claims, by its parts: word 7, 8 and 9 of its header, the *)
(* alternatives of its entry and its condition.                            *)
ClaimsAre(c) ==
  /\ {c.first.lo, c.first.hi, c.last.lo, c.last.hi} \subseteq Int
  /\ {c.first.nullable, c.last.nullable, c.sticky, c.anchored, c.forward} \subseteq BOOLEAN
  /\ {c.bound, c.captures, c.leading_pc} \subseteq Nat
  /\ c.runs \in Seq(Seq(Nat)) /\ c.entry \in Seq(Seq(Nat)) /\ c.pairs \in SUBSET (Nat \X Nat)
  /\ c.required # <<>> =>
       c.required[1].text \in Seq(Nat) /\ c.required[1].ranges \in Seq(Nat \X Nat)

(* A claim about a place of some units: its unit, if it has one, is beyond *)
(* ASCII or in a range.                                                    *)
UnitIn(units, at, range) ==
  at < Len(units) /\ (units[at + 1] >= 128 \/ units[at + 1] \in range.lo..range.hi)

(* The condition is at some place from one on.                             *)
ConditionFollows(c, units, at) ==
  LET text == c.required[1].text
      ranges == c.required[1].ranges
  IN \E p \in at..(Len(units) - 1) :
       IF text # <<>> THEN Holds(units, p, text)
       ELSE \E k \in DOMAIN ranges : units[p + 1] \in ranges[k][1]..ranges[k][2]

(* What the claims say of the places of some units a match begins at.      *)
ClaimsHold(c, units, matches) ==
  /\ matches \subseteq 0..Len(units)
  /\ ~c.last.nullable /\ matches # {} => units # <<>> /\ UnitIn(units, Len(units) - 1, c.last)
  /\ c.required # <<>> /\ matches # {} => ConditionFollows(c, units, 0)
  /\ c.forward => c.required # <<>> /\ c.required[1].text # <<>>
  /\ \A p \in matches :
       /\ ~c.first.nullable => UnitIn(units, p, c.first)
       /\ p + c.bound >= Len(units)
       /\ c.anchored => p = 0
       /\ c.runs # <<>> => \E k \in DOMAIN c.runs : Holds(units, p, c.runs[k])
       /\ Len(c.runs) > 1 => \E k \in DOMAIN c.entry : c.entry[k] # <<>> /\ Holds(units, p, c.entry[k])
       /\ c.pairs # {} => \E pair \in c.pairs : Holds(units, p, pair)
       /\ c.forward => ConditionFollows(c, units, p)

(* The texts are well formed, the chunks are of some length, and what the  *)
(* programs claim is true: Starts and Emission derive it.                  *)
ASSUME ScanConstants ==
  /\ Quanta \subseteq Nat /\ Froms \subseteq Nat /\ Budgets \subseteq Nat
  /\ {Chunk, Round, Word, Block} \subseteq (Nat \ {0}) /\ {Short, AdmitFrom, MostCompared, BlockMin} \subseteq Nat
  /\ \A bytes \in Texts : bytes \in Seq(0..255) /\ Text(bytes).error = None
  /\ \A k \in DOMAIN Programs :
       /\ ClaimsAre(Programs[k].claims)
       /\ \A bytes \in Texts :
            ClaimsHold(Programs[k].claims, Text(bytes).units, Programs[k].matches[Text(bytes).units])

VARIABLES
  job,         (* The search: its program, its subject and its start.      *)
  s,           (* Its state.                                               *)
  window       (* What is left of the quantum of the call.                 *)

vars == <<job, s, window>>

UNSET == -1
Most(x, z) == IF x < z THEN z ELSE x
Lowest(set) == CHOOSE x \in set : \A other \in set : x <= other

P == job.program
V == job.view
Data == V.data
Byte(at) == Data[at + 1]
(* The data has these characters there.                                    *)
Has(at, text) == Holds(Data, at, text)
Condition == P.required[1]
Needle == Condition.text
OneStart == P.sticky \/ P.anchored

(* A descriptor claims nothing of a match that may be empty, and an empty  *)
(* one that no match begins with, or ends with, an ASCII character.        *)
Claims(range) == ~range.nullable
Admits(range, c) == c \in range.lo..range.hi

In(tag) == [is |-> tag]
Begin(budget) ==
  [phase |-> In("Admission"), mark |-> Mark(0, FALSE, 0), start |-> 0,
   requiredAt |-> UNSET, requiredFrom |-> 0, verified |-> 0, swept |-> 0, mistaken |-> 0,
   budget |-> budget, used |-> 0]

Become(v, phase) == [v EXCEPT !.phase = phase]
Finished(v) == Become(v, In("NoMatch"))

(* charge: all of it, or the search is over and nothing is left.           *)
Spend(v, n, then) ==
  IF n > v.budget THEN [v EXCEPT !.phase = In("WorkLimit"), !.budget = 0, !.mistaken = then.mistaken]
  ELSE [then EXCEPT !.budget = v.budget - n, !.used = v.used + n]

(* sought, start_candidate.                                                *)
Began(v, mark) ==
  [v EXCEPT !.mark = mark, !.start = mark.units,
            !.phase = IF Claims(P.first) /\ V.kind # "units" THEN In("Candidate") ELSE In("Initialize")]

(* Fault: the whole match may lie that far from the end, not begin there.  *)
EarliestLate == IF P.bound < V.units THEN V.units - P.bound + 1 ELSE 0

(* The first start a match that ends at the end can have.                  *)
Earliest == IF P.bound < V.units THEN V.units - P.bound ELSE 0
-----------------------------------------------------------------------------
(* end_candidate.                                                          *)
EndCost == IF Claims(P.last) THEN 1 ELSE 0
EndPossible ==
  LET unit == PreviousUnit(V, CursorAt(V, V.units)).value
  IN Claims(P.last) => unit # None /\ (unit >= 128 \/ Admits(P.last, unit))

(* short_start: the positions of a short remainder a match can begin at.   *)
ShortApplies ==
  V.kind = "ascii" /\ job.from <= V.units /\ Claims(P.first) /\ ~OneStart /\ V.units - job.from < Short
Beginnings == {at \in job.from..(V.units - 1) : Admits(P.first, Byte(at))}
ShortCost ==
  IF P.first.lo > P.first.hi \/ job.from = V.units THEN 1
  ELSE IF Beginnings = {} THEN V.units - job.from
  ELSE Lowest(Beginnings) - job.from + 1

(* Fault: a condition an assertion asks for is looked for from the start.  *)
ConditionFromStart == IF V.kind = "ascii" THEN job.from ELSE 0

(* Where the scan of bytes for a condition begins.                         *)
ConditionFrom == IF P.forward /\ V.kind = "ascii" THEN job.from ELSE 0

(* admit_step, Admission: the first of what can decide a search, or how    *)
(* the condition is looked for.  The needle is charged when it is loaded.  *)
Admitted(v) ==
  IF V.units < AdmitFrom \/ P.required = <<>> THEN Become(v, In("Start"))
  ELSE IF Needle = <<>>
  THEN IF Len(Condition.ranges) = 1 /\ Condition.ranges[1][2] < 128 /\ V.kind # "units"
       THEN Become(v, [is |-> "AdmitByteClass", offset |-> 0])
       ELSE [v EXCEPT !.phase = In("AdmitClass"), !.mark = Mark(0, FALSE, 0)]
  ELSE Spend(v, Len(Needle),
         IF V.kind # "units" /\ \A k \in DOMAIN Needle : Needle[k] < 128
         THEN Become(v, [is |-> "AdmitBytes", offset |-> ConditionFrom])
         ELSE [v EXCEPT !.phase = [is |-> "AdmitSuffix", index |-> Len(Needle)],
                        !.mark = CursorAt(V, V.units)])

Admission(v) ==
  LET paid == Spend(v, EndCost, v)
  IN IF paid.phase.is = "WorkLimit" THEN paid
     ELSE IF ~EndPossible THEN Finished(paid)
     ELSE IF ~ShortApplies THEN Admitted(paid)
     ELSE Spend(paid, ShortCost,
            IF Beginnings = {} THEN Finished(paid)
            ELSE Began(paid, CursorAt(V, Most(Lowest(Beginnings), Earliest))))

(* A round of the scan for a byte of a class.                              *)
AdmitByteClass(v) ==
  LET offset == v.phase.offset
      end == Least(Len(Data), offset + Chunk)
      range == Condition.ranges[1]
  IN IF offset = Len(Data) THEN Finished(v)
     ELSE Spend(v, end - offset,
            IF \E at \in offset..(end - 1) : Byte(at) \in range[1]..range[2]
            THEN Become(v, In("Start"))
            ELSE Become(v, [v.phase EXCEPT !.offset = end]))

(* A character of the scan for one of a class, and its comparisons.        *)
ClassCost(c, ranges) ==
  LET holds == {k \in DOMAIN ranges : c \in ranges[k][1]..ranges[k][2]}
  IN IF holds = {} THEN Len(ranges) ELSE Lowest(holds)
AdmitClass(v) ==
  LET read == NextUnit(V, v.mark)
      ranges == Condition.ranges
  IN IF read.value = None THEN Finished(v)
     ELSE Spend(v, 1 + ClassCost(read.value, ranges),
            IF \E k \in DOMAIN ranges : read.value \in ranges[k][1]..ranges[k][2]
            THEN [v EXCEPT !.phase = In("Start"), !.mark = read.mark]
            ELSE [v EXCEPT !.mark = read.mark])

(* scan_needle: one chunk, in which a place that begins the needle is      *)
(* compared with it, beyond the chunk if need be.  `found` is UNSET if     *)
(* none is it.                                                             *)
NeedleScan(offset) ==
  LET end == Least(Len(Data), offset + Chunk)
      hits == {at \in offset..(end - 1) : Byte(at) = Needle[1]}
      whole == {at \in hits : Has(at, Needle)}
      found == IF whole = {} THEN UNSET ELSE Lowest(whole)
      compared == {at \in hits : found = UNSET \/ at <= found}
  IN [found |-> found, end |-> end,
      cost |-> (end - offset) + Len(Needle) * Cardinality(compared)]

(* note_condition.                                                         *)
Noted(v, at) == [v EXCEPT !.requiredAt = at, !.requiredFrom = at + 1]

(* A chunk of the condition's scan, before the first start or beyond the   *)
(* last place it was found at.  `swept` counts the bytes charged to it.    *)
Looked(v, scan, then) ==
  Spend(v, scan.cost,
    LET on == [v EXCEPT !.swept = @ + scan.end - v.phase.offset]
    IN IF scan.found # UNSET THEN Become(Noted(on, scan.found), In(then))
       ELSE Become(on, [v.phase EXCEPT !.offset = scan.end]))

NeedleChunk(v, then) ==
  IF v.phase.offset >= Len(Data) THEN Finished(v) ELSE Looked(v, NeedleScan(v.phase.offset), then)

AdmitBytes(v) == NeedleChunk(v, "Start")
BoundScan(v) == NeedleChunk(v, "Candidate")
BoundPrepare(v) == Spend(v, Len(Needle), Become(v, [is |-> "BoundScan", offset |-> v.phase.from]))

(* The condition at the end of the subject, backwards; then from its       *)
(* beginning, where a character that begins it is followed by a probe.     *)
AdmitSuffix(v) ==
  LET index == v.phase.index
      read == PreviousUnit(V, v.mark)
  IN IF index = 0 THEN Become(v, In("Start"))
     ELSE Spend(v, 1,
            IF read.value = Needle[index]
            THEN [v EXCEPT !.phase.index = index - 1, !.mark = read.mark]
            ELSE [v EXCEPT !.phase = In("AdmitScan"), !.mark = Mark(0, FALSE, 0)])

AdmitScan(v) ==
  LET read == NextUnit(V, v.mark)
  IN IF read.value = None THEN Finished(v)
     ELSE Spend(v, 1,
            IF read.value = Needle[1]
            THEN [v EXCEPT !.mark = read.mark,
                           !.phase = [is |-> "AdmitProbe", index |-> 1, scan |-> read.mark]]
            ELSE [v EXCEPT !.mark = read.mark])

(* Fault: a failed probe goes on from where it failed.                     *)
ProbedOn(v, mark) == [v EXCEPT !.phase = In("AdmitScan")]

(* A failed probe takes the scan up after the character that began it.     *)
Probed(v, mark) == [v EXCEPT !.phase = In("AdmitScan"), !.mark = mark]

AdmitProbe(v) ==
  LET index == v.phase.index
      read == NextUnit(V, v.mark)
  IN IF index = Len(Needle) THEN Become(v, In("Start"))
     ELSE Spend(v, 1,
            IF read.value = Needle[index + 1]
            THEN [v EXCEPT !.phase.index = index + 1, !.mark = read.mark]
            ELSE Probed(v, v.phase.scan))
-----------------------------------------------------------------------------
(* seek: at once if it is cheap enough for the call, or by steps.          *)
SoughtFrom(v, target, available) ==
  LET work == SeekWork(V, target)
  IN IF work = 1 \/ work <= available
     THEN Spend(v, work, Began(v, CursorAt(V, target)))
     ELSE Spend(v, 1, [v EXCEPT !.phase = [is |-> "Seek", target |-> target],
                                !.mark = CursorAt(V, IF target <= V.units \div 2 THEN 0 ELSE V.units)])

Start(v, available) ==
  LET target == job.from
      late == target < Earliest
  IN IF (P.anchored /\ target >= 2) \/ (late /\ OneStart) THEN Spend(v, 1, Finished(v))
     ELSE IF late
     THEN LET paid == Spend(v, 1, v)
          IN IF paid.phase.is = "WorkLimit" THEN paid ELSE SoughtFrom(paid, Earliest, available)
     ELSE SoughtFrom(v, target, available)

(* The units a seek walks in a round.                                      *)
Walked(mark, target, steps) ==
  LET walk[k \in 0..steps] ==
        IF k = 0 THEN mark
        ELSE LET before == walk[k - 1]
             IN (IF before.units < target THEN NextUnit(V, before) ELSE PreviousUnit(V, before)).mark
  IN walk[steps]

Seek(v, available) ==
  LET target == v.phase.target
      far == Distance(v.mark.units, target)
      steps == IF far = 0 THEN 0
               ELSE Most(1, Least(Least(far, Most(1, available)), v.budget))
      mark == Walked(v.mark, target, steps)
  IN Spend(v, steps, IF mark.units = target THEN Began(v, mark) ELSE [v EXCEPT !.mark = mark])
-----------------------------------------------------------------------------
(* alternation_matches: the instructions the walk of the entry comes to,   *)
(* up to an alternative that is there: each is charged, and each character *)
(* of an alternative that is compared.                                     *)
Alternatives(at) ==
  LET there == {k \in DOMAIN P.entry : P.entry[k] # <<>> /\ Has(at, P.entry[k])}
      last == IF there = {} THEN Len(P.entry) ELSE Lowest(there)
      compared == {one \in (1..last) \X (1..MostCompared) :
                     one[2] <= Len(P.entry[one[1]]) /\ Has(at, SubSeq(P.entry[one[1]], 1, one[2] - 1))}
  IN [cost |-> last + Cardinality(compared), is |-> there # {}]

(* Fault: only the alternative a place begins with is looked for.          *)
LeadsAlone(at) ==
  IF Len(P.runs) > 1 THEN [cost |-> 1, is |-> Has(at, P.runs[1]), fits |-> TRUE]
  ELSE [cost |-> 1, is |-> TRUE, fits |-> TRUE]

(* Fault: the pair a place was found by is taken for the whole run.        *)
LeadsByPair(at) == [cost |-> Least(2, Len(Data)), is |-> TRUE, fits |-> TRUE]

(* leading_matches, for a place that begins as a match does.               *)
Leads(at) ==
  IF P.runs = <<>> THEN [cost |-> 0, is |-> TRUE, fits |-> TRUE]
  ELSE IF Len(P.runs) > 1
  THEN LET found == Alternatives(at)
       IN [cost |-> found.cost, is |-> found.is, fits |-> TRUE]
  ELSE LET run == P.runs[1] IN
       IF at + Len(run) > Len(Data) THEN [cost |-> 1, is |-> FALSE, fits |-> FALSE]
       ELSE [cost |-> Len(run), is |-> Has(at, run), fits |-> TRUE]

(* Whether a place begins a pair: one of `pairs`, or a character that can  *)
(* be the first.                                                           *)
CandidateAt(at) ==
  IF P.pairs # {} THEN \E pair \in P.pairs : Has(at, pair) ELSE Admits(P.first, Byte(at))

(* The lanes of the word from `base` marked for a byte: those that hold it *)
(* and, by the borrow of the subtraction, those that follow a marked lane  *)
(* and differ from it in their last bit.                                   *)
Lanes(base, wanted) ==
  LET other == IF wanted % 2 = 0 THEN wanted + 1 ELSE wanted - 1
      marked(lane) == \E k \in 0..lane : /\ Byte(base + k) = wanted
                                          /\ \A i \in (k + 1)..lane : Byte(base + i) = other
  IN {base + lane : lane \in {lane \in 0..(Word - 1) : marked(lane)}}

(* How many of `limit` places from `at` on are compared in blocks, and how *)
(* many in blocks or words: the byte after the last must be there.         *)
InBlocks(at, limit) ==
  IF limit < BlockMin THEN 0 ELSE Block * (Least(limit, Len(Data) - at - 1) \div Block)
InWords(at, limit) ==
  LET blocks == InBlocks(at, limit) IN blocks + Word * (Least(limit - blocks, Len(Data) - at - blocks - 1) \div Word)

(* The places in words from `bases` on that are marked for a pair.         *)
MarkedFrom(bases) ==
  UNION {{place \in Lanes(base, pair[1]) : place + 1 \in Lanes(base + 1, pair[2])} :
           base \in bases, pair \in P.pairs}

(* first_in_pairs, first_in_range: the first of `limit` places from `at`   *)
(* on that is marked, UNSET if none is.                                    *)
FirstMarked(at, limit) ==
  LET blocks == InBlocks(at, limit)
      words == InWords(at, limit)
      bases == {at + blocks + Word * w : w \in 0..((words - blocks) \div Word - 1)}
      exact == {place \in at..(at + limit - 1) : CandidateAt(place)}
      places == IF P.pairs = {} THEN exact
                ELSE MarkedFrom(bases) \cup {place \in exact : place < at + blocks \/ place >= at + words}
  IN IF places = {} THEN UNSET ELSE Lowest(places)

(* The places of a round, each marked one compared with what every match   *)
(* begins with, up to the one it stops at; what comparing those costs that *)
(* begin no pair is `mistaken`.                                            *)
PassedOver(n) == [stop |-> UNSET, fits |-> TRUE, cost |-> n, mistaken |-> 0]
Compared(at, place, lead, rest) ==
  [rest EXCEPT !.cost = @ + (place - at + 1) + lead.cost,
               !.mistaken = @ + (IF CandidateAt(place) THEN 0 ELSE lead.cost)]

SweepTo(start, end) ==
  LET sweep[at \in start..end] ==
        LET place == IF at = end THEN UNSET ELSE FirstMarked(at, end - at)
            lead == Leads(place)
        IN IF place = UNSET THEN PassedOver(end - at)
           ELSE Compared(at, place, lead,
                  IF lead.is \/ ~lead.fits THEN [PassedOver(0) EXCEPT !.stop = place, !.fits = lead.fits]
                  ELSE sweep[place + 1])
  IN sweep
Sweep(at, limit) == SweepTo(at, at + limit)[at]

(* Fault: a round goes on past the last place the condition was found at.  *)
RoundUnbound(v, available) ==
  Least(Least(Len(Data) - v.mark.units, Least(available, IF OneStart THEN 1 ELSE Round)), v.budget)

(* How many places a round decides.  No match begins after the last place  *)
(* the condition is known at.                                              *)
Bounded(v) == P.forward /\ v.requiredAt # UNSET
RoundOf(v, available) ==
  LET places == Least(Least(Len(Data) - v.mark.units, Least(available, IF OneStart THEN 1 ELSE Round)), v.budget)
  IN IF Bounded(v) THEN Least(places, v.requiredAt + 1 - v.mark.units) ELSE places

(* candidate_step over ASCII bytes: what a round of places comes to.       *)
Swept(v, end, sweep) ==
  LET on == [v EXCEPT !.mistaken = @ + sweep.mistaken]
  IN Spend(v, sweep.cost,
       IF sweep.stop = UNSET
       THEN IF OneStart \/ end = Len(Data) THEN Finished(on) ELSE [on EXCEPT !.mark = CursorAt(V, end)]
       ELSE IF ~sweep.fits \/ (OneStart /\ sweep.stop # job.from) THEN Finished(on)
       ELSE [on EXCEPT !.mark = CursorAt(V, sweep.stop), !.start = sweep.stop, !.phase = In("Initialize"),
                       !.verified = IF Len(P.runs) = 1 THEN Len(P.runs[1]) ELSE 0])

AsciiCandidate(v, available) ==
  LET start == v.mark.units
      count == RoundOf(v, available)
  IN IF P.first.lo > P.first.hi \/ start = Len(Data) THEN Spend(v, 1, Finished(v))
     ELSE IF v.budget = 0 THEN Spend(v, 1, v)
     ELSE IF Bounded(v) /\ start > v.requiredAt
     THEN Spend(v, 1, Become(v, [is |-> "BoundPrepare", from |-> v.requiredFrom]))
     ELSE Swept(v, start + count, Sweep(start, count))

(* Fault: a scan of bytes passes what is beyond ASCII.                     *)
StopsAtAscii(byte) == Admits(P.first, byte)

(* Where a scan of mixed bytes stops: what is not ASCII is tried.          *)
Stops(byte) == byte >= 128 \/ Admits(P.first, byte)

(* mixed_candidate_step: from a place between the units of a pair nothing  *)
(* is scanned.                                                             *)
MixedCandidate(v, available) ==
  LET offset == v.mark.offset
      count == Least(Least(Len(Data) - offset, Least(available, IF OneStart THEN 1 ELSE Chunk)), v.budget)
      stops == {at \in offset..(offset + count - 1) : Stops(Byte(at))}
      passed == IF stops = {} THEN count ELSE Lowest(stops) - offset
      mark == SkipAscii(V, v.mark, passed)
  IN IF v.mark.half THEN Spend(v, 1, Become(v, In("Initialize")))
     ELSE IF offset = Len(Data) THEN Spend(v, 1, Finished(v))
     ELSE IF v.budget = 0 THEN Spend(v, 1, v)
     ELSE Spend(v, IF stops = {} THEN count ELSE passed + 1,
            IF stops # {} THEN [v EXCEPT !.mark = mark, !.start = mark.units, !.phase = In("Initialize")]
            ELSE IF OneStart \/ offset + count = Len(Data) THEN Finished(v)
            ELSE [v EXCEPT !.mark = mark])

Candidate(v, available) ==
  IF V.kind = "ascii" THEN AsciiCandidate(v, available) ELSE MixedCandidate(v, available)

(* initialize and skip_verified, whose charge is that of the instructions  *)
(* it skips: the SAVEs before the characters and the characters.           *)
Initialize(v) ==
  LET skipped == IF v.verified = 0 THEN 0 ELSE P.leading_pc - 1 + v.verified
  IN Spend(v, 2 * P.captures + skipped,
       [v EXCEPT !.phase = In("Trial"), !.mark = CursorAt(V, v.start + v.verified)])

(* The trial of a start.                                                   *)
Trial(v) ==
  Spend(v, 1, IF v.start \in job.matches THEN Become(v, In("Match"))
              ELSE [v EXCEPT !.phase = In("NextStart"), !.mark = CursorAt(V, v.start), !.verified = 0])

NextStart(v) ==
  LET read == NextUnit(V, v.mark)
  IN IF OneStart THEN Finished(v)
     ELSE Spend(v, 1, IF read.value = None THEN Finished(v) ELSE Began(v, read.mark))
-----------------------------------------------------------------------------
(* The step of each phase, with what is left of the call's quantum.        *)
Stepped(v, available) ==
  LET is == v.phase.is
  IN CASE is = "Admission" -> Admission(v)
       [] is = "AdmitByteClass" -> AdmitByteClass(v)
       [] is = "AdmitClass" -> AdmitClass(v)
       [] is = "AdmitBytes" -> AdmitBytes(v)
       [] is = "AdmitSuffix" -> AdmitSuffix(v)
       [] is = "AdmitScan" -> AdmitScan(v)
       [] is = "AdmitProbe" -> AdmitProbe(v)
       [] is = "BoundPrepare" -> BoundPrepare(v)
       [] is = "BoundScan" -> BoundScan(v)
       [] is = "Start" -> Start(v, available)
       [] is = "Seek" -> Seek(v, available)
       [] is = "Candidate" -> Candidate(v, available)
       [] is = "Initialize" -> Initialize(v)
       [] is = "Trial" -> Trial(v)
       [] OTHER -> NextStart(v)

Done(v) == v.phase.is \in {"Match", "NoMatch", "WorkLimit"}

Init ==
  /\ \E choice \in {<<k, Programs[k]>> : k \in DOMAIN Programs}, bytes \in Texts :
     \E units \in {Text(bytes).units} :
     \E matches \in {choice[2].matches[units]}, view \in {Wtf8(bytes), Utf16(units)} :
     \E from \in Froms, budget \in Budgets :
       /\ from <= view.units
       /\ job = [program |-> choice[2].claims, view |-> view, from |-> from, budget |-> budget,
                 matches |-> matches]
       /\ s = Begin(budget)
  /\ window = 0

Runs(tag, step) ==
  /\ ~Done(s) /\ window > 0 /\ s.phase.is = tag
  /\ s' = step
  /\ window' = window - (s'.used - s.used)
  /\ UNCHANGED job

(* advance: the host calls again, with a quantum of its choice.            *)
Advance ==
  /\ ~Done(s) /\ window <= 0
  /\ window' \in Quanta
  /\ UNCHANGED <<job, s>>

Next ==
  \/ Runs("Admission", Admission(s))
  \/ Runs("AdmitByteClass", AdmitByteClass(s)) \/ Runs("AdmitClass", AdmitClass(s))
  \/ Runs("AdmitBytes", AdmitBytes(s)) \/ Runs("AdmitSuffix", AdmitSuffix(s))
  \/ Runs("AdmitScan", AdmitScan(s)) \/ Runs("AdmitProbe", AdmitProbe(s))
  \/ Runs("BoundPrepare", BoundPrepare(s)) \/ Runs("BoundScan", BoundScan(s))
  \/ Runs("Start", Start(s, window)) \/ Runs("Seek", Seek(s, window))
  \/ Runs("Candidate", Candidate(s, window)) \/ Runs("Initialize", Initialize(s))
  \/ Runs("Trial", Trial(s)) \/ Runs("NextStart", NextStart(s))
  \/ Advance

Spec == Init /\ [][Next]_vars
-----------------------------------------------------------------------------
Viable == {p \in job.matches : p >= job.from /\ (P.sticky => p = job.from)}

(* Whatever is skipped, no start a match begins at is: the search finds    *)
(* the first there is from where it was asked, in every storage, and says  *)
(* there is none only when there is none.                                  *)
AnswersRight ==
  /\ s.phase.is = "Match" => s.start \in Viable /\ \A p \in Viable : s.start <= p
  /\ s.phase.is = "NoMatch" => Viable = {}

Occurrences == {at \in 0..(Len(Data) - 1) : Has(at, Needle)}

(* The last place the condition is known at is one, and none between it    *)
(* and where the next search of it begins, or has come to, is passed over: *)
(* the note is never stale, so every start it keeps out is out.  And a     *)
(* trial that begins after the characters a scan compared begins after     *)
(* characters that are there.                                              *)
NotesAreTrue ==
  /\ s.requiredAt # UNSET =>
       /\ s.requiredAt \in Occurrences /\ s.requiredFrom = s.requiredAt + 1
       /\ s.phase.is = "BoundScan" => \A at \in Occurrences : ~(s.requiredAt < at /\ at < s.phase.offset)
       /\ s.phase.is = "Trial" /\ P.forward /\ Claims(P.first) /\ V.kind = "ascii" =>
            s.start <= s.requiredAt
  /\ s.phase.is = "Trial" /\ s.verified > 0 =>
       Has(s.start, SubSeq(P.runs[1], 1, s.verified))

(* What docs/admission.md says of the bound: the search of the condition   *)
(* only moves forward, so all of it is one pass over the subject.          *)
BoundIsOnePass == s.swept <= Len(Data)

(* What advance says of its quantum (executor.rs:541): it is exceeded by   *)
(* at most one chunk and the comparisons of each of its bytes.             *)
StepsAreBounded == window >= -(Chunk + Chunk * MostCompared)
================================================================================
