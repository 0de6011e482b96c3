---------------------------------- MODULE Plan ----------------------------------
(***************************************************************************)
(* The storage of the lazy automaton (dfa.rs): where its parts lie, and    *)
(* the sizes a host is told to give it.  A behaviour is one question, of   *)
(* the size a program starts with or of the size after a full cache, and   *)
(* the search for a size that fits.  Everything is counted in words.       *)
(***************************************************************************)
EXTENDS Integers, Sequences

CONSTANTS
  Programs,    (* Counts [n, repeats, predicates, edges, captures].        *)
  Caps,        (* Sizes of storage in use when a cache fills.              *)
  Shares,      (* How much of its room, in percent, a full cache held.     *)
  StateWords,  (* Mean words of the states it held.                        *)
  MaxWords     (* MAX_WORDS, above which storage is refused.               *)

ASSUME PlanConstants ==
  /\ \A p \in Programs : {p.n, p.repeats, p.predicates, p.edges, p.captures} \subseteq Nat
  /\ Caps \subseteq Nat /\ Shares \subseteq Nat /\ StateWords \subseteq Nat \ {0}
  /\ MaxWords \in Nat \ {0}

FRONT == 256
MEMO_WORDS == 2 * 512
PRED_BASE == 4
FIRST_COLUMNS == 8
MAX_CLASSES == 1022

Ceil(x, d) == (x + d - 1) \div d
Least(x, z) == IF x < z THEN x ELSE z
Most(x, z) == IF x > z THEN x ELSE z

(* The power of two at or below, 0 for 0, and the one at or above.         *)
PrevPower[x \in Nat] == IF x < 2 THEN x ELSE 2 * PrevPower[x \div 2]
NextPower[x \in Nat] == IF PrevPower[x] = x THEN x ELSE 2 * PrevPower[x]

(* plan: the fixed part, then the signatures, the hash and the region.     *)
MaskWords(p) == Most(1, Ceil(2 * p.captures, 32))
SignatureWords(p) == Ceil(PRED_BASE + p.predicates, 32)

(* A work area as large as the program asks, if the storage can afford it, *)
(* or the smallest.                                                        *)
WorkThreads(p, cap, minimum) ==
  IF minimum THEN 64 ELSE Least(4 * (p.n + 64), Most(64, cap \div 64))

Tables(p) ==
  FRONT + p.n + p.n + p.repeats + (p.n + 1) + p.edges + p.predicates + MEMO_WORDS + SignatureWords(p)
WorkArea(p, threads) ==
  2 * NextPower[4 * threads] + 4 * threads + 2 * threads + (2 * threads + 2)
CaptureArea(p, threads) ==
  4 * p.captures + 4 * threads * MaskWords(p) + 2 * MaskWords(p) + (1 + 4 * MaskWords(p))

(* Fault: what capture mode needs is not part of what is required.         *)
RequiredUncaptured(p, threads) ==
  Tables(p) + WorkArea(p, threads) + 16 * SignatureWords(p) + 64 + 8 * (2 * FIRST_COLUMNS + 2 + 32)

Required(p, threads) ==
  Tables(p) + WorkArea(p, threads) + CaptureArea(p, threads)
    + 16 * SignatureWords(p) + 64 + 8 * (2 * FIRST_COLUMNS + 2 + 32) + 8 * (2 + 4 * MaskWords(p))

Layout(p, cap, minimum) ==
  LET threads == WorkThreads(p, cap, minimum)
      fixed == Tables(p) + WorkArea(p, threads) + CaptureArea(p, threads)
      classes == Least(MAX_CLASSES, Most(16, (Most(0, cap - fixed) \div 8) \div SignatureWords(p)))
      hash == fixed + classes * SignatureWords(p)
      slots == Most(64, PrevPower[Most(0, cap - hash) \div 16])
  IN [required |-> Required(p, threads), threads |-> threads, classes |-> classes,
      hashSlots |-> slots, region |-> hash + slots]

(* build: the larger work area if the storage holds it, else the smallest, *)
(* else nothing.                                                           *)
Built(p, cap) ==
  LET large == Layout(p, cap, FALSE)
      small == Layout(p, cap, TRUE)
  IN IF cap >= MaxWords THEN <<>>
     ELSE IF cap >= large.required THEN <<large>>
     ELSE IF cap >= small.required THEN <<small>> ELSE <<>>

(* minimum_words.                                                          *)
MinimumWords(p) == Required(p, 64)

------------------------------------------------------------------------------
VARIABLES
  ask,     (* The program, the states and words to make room for, and from *)
           (* which size: a cache's own, or the program's minimum.         *)
  low, high,
  phase    (* "doubling", "bisecting" or "told".                           *)

vars == <<ask, low, high, phase>>

(* initial_words: one state of a first-width row with tags for each        *)
(* instruction and one more.                                               *)
Starting(p) ==
  [program |-> p, states |-> p.n + 1, words |-> (p.n + 1) * (2 * FIRST_COLUMNS + 4),
   from |-> MinimumWords(p)]

(* Dfa::required_words: twice what a cache of `cap` words held.            *)
Full(p, cap, share, each) ==
  LET room == cap - Built(p, cap)[1].region
      words == (room * share) \div 100
  IN [program |-> p, states |-> 2 * Most(1, words \div each), words |-> 2 * words, from |-> cap]

(* Fault: the search for a size begins below the size that was full.       *)
BeginSmall(size) == 1024

Begin(size) == Most(1024, size)

Init ==
  /\ \E p \in Programs :
       \/ ask = Starting(p)
       \/ \E cap \in Caps, share \in Shares, each \in StateWords :
            Built(p, cap) # <<>> /\ ask = Full(p, cap, share, each)
  /\ low = 0 /\ high = Begin(ask.from) /\ phase = "doubling"

(* Fault: room for the states is not asked of the hash.                    *)
FitsRegion(cap) ==
  LET l == Layout(ask.program, cap, FALSE) IN
    cap >= l.required /\ l.region + ask.words <= cap

Fits(cap) ==
  LET l == Layout(ask.program, cap, FALSE) IN
    cap >= l.required /\ l.region + ask.words <= cap /\ l.hashSlots \div 2 > ask.states

Double ==
  /\ phase = "doubling"
  /\ IF Fits(high) THEN low' = high \div 2 /\ phase' = "bisecting" /\ UNCHANGED high
     ELSE IF high >= MaxWords \div 2 THEN high' = MaxWords - 1 /\ phase' = "told" /\ UNCHANGED low
     ELSE high' = 2 * high /\ UNCHANGED <<low, phase>>
  /\ UNCHANGED ask

(* Fault: the search goes on between neighbours.                           *)
ApartAlways == low < high

Apart == low + 1 < high

Bisect ==
  /\ phase = "bisecting" /\ Apart
  /\ LET middle == low + (high - low) \div 2 IN
       IF Fits(middle) THEN high' = middle /\ UNCHANGED low ELSE low' = middle /\ UNCHANGED high
  /\ UNCHANGED <<ask, phase>>

Tell ==
  /\ phase = "bisecting" /\ ~Apart
  /\ phase' = "told" /\ UNCHANGED <<ask, low, high>>

Next == Double \/ Bisect \/ Tell

Spec == Init /\ [][Next]_vars /\ WF_vars(Next)

------------------------------------------------------------------------------
(* Properties.                                                             *)

(* Storage the layout accepts holds it: the parts end before the storage   *)
(* does, and what is left takes a state of every thread and one more, with *)
(* first-width rows, and their captures, with their records.               *)
AcceptedHasRoom ==
  LET p == ask.program
      cap == IF phase = "told" THEN high ELSE ask.from
      built == Built(p, cap)
      mask == MaskWords(p)
  IN built # <<>> =>
       cap - built[1].region >=
         Most(2 * (FIRST_COLUMNS + 2 + 2 * 64), 2 * (2 * FIRST_COLUMNS + 4) + 2 + 4 * mask)

(* A size told can be given: a search builds in it, with a hash and a      *)
(* region for what was asked; and a cache too small for that is told a     *)
(* larger size, so a host that follows does not try the same storage again *)
(* unless it has the largest there is.                                     *)
ToldSizeServes ==
  phase = "told" =>
    /\ high < MaxWords - 1 =>
         LET built == Built(ask.program, high) IN
           /\ built # <<>>
           /\ high - built[1].region >= ask.words /\ built[1].hashSlots > 2 * ask.states
    /\ ~Fits(ask.from) /\ ask.from < MaxWords - 1 => high > ask.from

(* What docs/dfa.md says of the size told, that it is the least that       *)
(* serves, which it is not.                                                *)
ToldSizeIsLeast ==
  phase = "told" => \A cap \in Most(1, high - 24) .. high - 1 : ~Fits(cap)

(* Every question is answered.                                             *)
Told == <>(phase = "told")
==============================================================================
