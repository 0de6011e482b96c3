------------------------------- MODULE PlanProofs -------------------------------
(***************************************************************************)
(* What Plan.tla's run checks for seven programs and as many sizes, proved *)
(* for every program, storage and limit: an accepted storage has room to   *)
(* search in, and a size that is told serves.                              *)
(***************************************************************************)
EXTENDS Plan, WellFoundedInduction, TLAPS

(* Every nonempty set of natural numbers has a least element.              *)
LEMMA LeastOf ==
  ASSUME NEW T \in SUBSET Nat, T # {}
  PROVE  \E n \in T : \A m \in T : n <= m
<1>1. \E n \in T : \A m \in T : ~(m < n)
  <2>1. \E n \in T : \A m \in T : ~(<<m, n>> \in OpToRel(<, Nat))
    BY NatLessThanWellFounded, WFMin
  <2>2. \A m, n \in Nat : m < n => <<m, n>> \in OpToRel(<, Nat)
    BY DEF OpToRel
  <2>3. \A m, n \in T : m < n => <<m, n>> \in OpToRel(<, Nat)
    BY <2>2
  <2> QED BY <2>1, <2>3, Zenon
<1> QED BY <1>1

Counted(p) == {p.n, p.repeats, p.predicates, p.edges, p.captures} \subseteq Nat

(* A question about a program, from a size.                                *)
Asked ==
  /\ Counted(ask.program) /\ ask.states \in Int /\ ask.words \in Int /\ ask.from \in Nat

(* Where the search for a size stands: before the first doubling, or above *)
(* the size asked from; and once a size has fitted, at one that fits.      *)
Sought ==
  /\ phase \in {"doubling", "bisecting", "told"} /\ low \in Nat /\ high \in Nat
  /\ phase = "doubling" =>
       high >= 1 /\ (high = Begin(ask.from) \/ high \div 2 >= Most(1024, ask.from))
  /\ phase = "bisecting" => Fits(high) /\ low < high
  /\ phase \in {"bisecting", "told"} =>
       \/ phase = "told" /\ high = MaxWords - 1
       \/ Fits(high) /\ (Fits(ask.from) \/ high > ask.from)
  /\ phase = "bisecting" => Fits(ask.from) \/ low >= ask.from

IInv == Asked /\ Sought

------------------------------------------------------------------------------
LEMMA Half ==
  ASSUME NEW x \in Nat
  PROVE  /\ x \div 2 \in Nat /\ 2 * (x \div 2) <= x /\ x < 2 * (x \div 2) + 2
         /\ x >= 2 => x \div 2 < x
OBVIOUS

(* prev_power_of_two: there is a table of it up to every number, two       *)
(* tables agree, and so there is the whole of it.                          *)
Table(k, f) == f = [x \in 0 .. k |-> IF x < 2 THEN x ELSE 2 * f[x \div 2]]

LEMMA TableExists ==
  ASSUME NEW k \in Nat
  PROVE  \E f : Table(k, f)
<1> DEFINE T == {n \in Nat : ~ \E f : Table(n, f)}
<1>1. SUFFICES ASSUME T # {} PROVE FALSE OBVIOUS
<1>2. PICK n \in T : \A m \in T : n <= m
  <2> HIDE DEF T
  <2>1. T \in SUBSET Nat BY DEF T
  <2> QED BY <1>1, <2>1, LeastOf
<1>3. n \in Nat /\ ~ \E f : Table(n, f) BY <1>2
<1>4. CASE n = 0
  <2>1. Table(n, [x \in 0 .. 0 |-> x])
    <3>1. \A x \in 0 .. 0 : x < 2 OBVIOUS
    <3> QED BY <1>4, <3>1 DEF Table
  <2> QED BY <1>3, <2>1
<1>5. CASE n # 0
  <2>1. n - 1 \in Nat /\ n - 1 \notin T BY <1>2, <1>3, <1>5
  <2>2. PICK f : Table(n - 1, f) BY <2>1
  <2> DEFINE g == [x \in 0 .. n |-> IF x = n THEN (IF x < 2 THEN x ELSE 2 * f[x \div 2]) ELSE f[x]]
  <2>3. ASSUME NEW x \in 0 .. n PROVE g[x] = IF x < 2 THEN x ELSE 2 * g[x \div 2]
    <3>1. x >= 2 => g[x \div 2] = f[x \div 2]
      <4>1. x >= 2 => x \div 2 \in 0 .. n /\ x \div 2 # n BY <1>3, <2>3, Half
      <4> QED BY <4>1
    <3>2. x # n => f[x] = IF x < 2 THEN x ELSE 2 * f[x \div 2]
      <4>1. x # n => x \in 0 .. (n - 1) BY <1>3, <2>3
      <4> QED BY <2>2, <4>1 DEF Table
    <3>3. g[x] = IF x < 2 THEN x ELSE 2 * f[x \div 2]
      <4>1. g[x] = IF x = n THEN (IF x < 2 THEN x ELSE 2 * f[x \div 2]) ELSE f[x] OBVIOUS
      <4> HIDE DEF g
      <4> QED BY <3>2, <4>1
    <3>4. x < 2 \/ x >= 2 BY <2>3
    <3> HIDE DEF g
    <3> QED BY <3>1, <3>3, <3>4
  <2>4. Table(n, g)
    <3>1. g = [x \in 0 .. n |-> g[x]] OBVIOUS
    <3> HIDE DEF g
    <3> QED BY <2>3, <3>1 DEF Table
  <2> QED BY <1>3, <2>4
<1> QED BY <1>4, <1>5

LEMMA TablesAgree ==
  ASSUME NEW k \in Nat, NEW m \in Nat, NEW f, NEW g, Table(k, f), Table(m, g),
         NEW y \in Nat, y <= k, y <= m
  PROVE  f[y] = g[y]
<1> DEFINE T == {x \in Nat : x <= k /\ x <= m /\ f[x] # g[x]}
<1>1. SUFFICES ASSUME T # {} PROVE FALSE OBVIOUS
<1>2. PICK n \in T : \A z \in T : n <= z
  <2> HIDE DEF T
  <2>1. T \in SUBSET Nat BY DEF T
  <2> QED BY <1>1, <2>1, LeastOf
<1>3. n \in Nat /\ n <= k /\ n <= m /\ f[n] # g[n] BY <1>2
<1>4. n \in 0 .. k /\ n \in 0 .. m BY <1>3
<1>5. /\ f[n] = IF n < 2 THEN n ELSE 2 * f[n \div 2]
      /\ g[n] = IF n < 2 THEN n ELSE 2 * g[n \div 2]
  BY <1>4 DEF Table
<1>6. n >= 2 => f[n \div 2] = g[n \div 2]
  <2>1. n >= 2 => n \div 2 \in Nat /\ n \div 2 < n BY <1>3, Half
  <2>2. n >= 2 => n \div 2 \notin T BY <1>2, <1>3, <2>1
  <2> QED BY <1>3, <2>1, <2>2
<1>7. n < 2 \/ n >= 2 BY <1>3
<1> QED BY <1>3, <1>5, <1>6, <1>7

LEMMA PrevPowerIs ==
  ASSUME NEW x \in Nat
  PROVE  PrevPower[x] = IF x < 2 THEN x ELSE 2 * PrevPower[x \div 2]
<1> DEFINE Fits1(f) == f = [y \in Nat |-> IF y < 2 THEN y ELSE 2 * f[y \div 2]]
           table(y) == CHOOSE f : Table(y, f)
           all == [y \in Nat |-> table(y)[y]]
<1>1. \A y \in Nat : Table(y, table(y)) BY TableExists
<1>2. ASSUME NEW y \in Nat PROVE all[y] = IF y < 2 THEN y ELSE 2 * all[y \div 2]
  <2> HIDE DEF table
  <2>1. y \in 0 .. y OBVIOUS
  <2>2. table(y)[y] = IF y < 2 THEN y ELSE 2 * table(y)[y \div 2] BY <1>1, <2>1 DEF Table
  <2>3. y \div 2 \in Nat /\ y \div 2 <= y BY Half
  <2>4. table(y)[y \div 2] = table(y \div 2)[y \div 2] BY <1>1, <2>3, TablesAgree
  <2>5. all[y] = table(y)[y] /\ all[y \div 2] = table(y \div 2)[y \div 2] BY <2>3
  <2> HIDE DEF all
  <2> QED BY <2>2, <2>4, <2>5
<1>3. Fits1(all)
  <2>1. all = [y \in Nat |-> all[y]] OBVIOUS
  <2> HIDE DEF all
  <2> QED BY <1>2, <2>1
<1>4. PrevPower = CHOOSE f : Fits1(f) BY DEF PrevPower
<1>5. Fits1(PrevPower)
  <2> HIDE DEF Fits1, all
  <2> QED BY <1>3, <1>4
<1> QED BY <1>5

(* It is a number, no larger than what it is the power of two below.       *)
LEMMA PrevPowerBound ==
  ASSUME NEW x \in Nat
  PROVE  PrevPower[x] \in Nat /\ PrevPower[x] <= x
<1> DEFINE Good(y) == PrevPower[y] \in Nat /\ PrevPower[y] <= y
           T == {y \in Nat : ~Good(y)}
<1>1. SUFFICES ASSUME T # {} PROVE FALSE OBVIOUS
<1>2. PICK n \in T : \A z \in T : n <= z
  <2> HIDE DEF T
  <2>1. T \in SUBSET Nat BY DEF T
  <2> QED BY <1>1, <2>1, LeastOf
<1>3. n \in Nat /\ ~Good(n) BY <1>2
<1>4. CASE n < 2 BY <1>3, <1>4, PrevPowerIs
<1>5. CASE n >= 2
  <2>1. n \div 2 \in Nat /\ n \div 2 < n /\ 2 * (n \div 2) <= n BY <1>3, <1>5, Half
  <2>2. n \div 2 \notin T BY <1>2, <1>3, <2>1
  <2>3. Good(n \div 2) BY <2>1, <2>2
  <2>4. PrevPower[n] = 2 * PrevPower[n \div 2] BY <1>3, <1>5, PrevPowerIs
  <2>5. Good(n) BY <1>3, <2>1, <2>3, <2>4
  <2> QED BY <1>3, <2>5
<1> QED BY <1>3, <1>4, <1>5

------------------------------------------------------------------------------
(* The layout: every part is a number of words, and classes and hash take  *)
(* no more than their share of what the fixed part leaves.                 *)
LEMMA Quotient ==
  ASSUME NEW a \in Nat, NEW b \in Nat \ {0}
  PROVE  a \div b \in Nat /\ (a \div b) * b <= a
OBVIOUS

LEMMA NextPowerType ==
  ASSUME NEW x \in Nat
  PROVE  NextPower[x] \in Nat
BY PrevPowerBound DEF NextPower

LEMMA PartsTypes ==
  ASSUME NEW p, Counted(p), NEW threads \in Nat
  PROVE  /\ MaskWords(p) \in Nat \ {0} /\ SignatureWords(p) \in Nat \ {0}
         /\ Tables(p) \in Nat /\ Tables(p) >= 1280
         /\ WorkArea(p, threads) \in Nat /\ CaptureArea(p, threads) \in Nat
<1>1. /\ p.n \in Nat /\ p.repeats \in Nat /\ p.predicates \in Nat /\ p.edges \in Nat
      /\ p.captures \in Nat
  BY DEF Counted
<1>2. MaskWords(p) \in Nat \ {0}
  <2>1. Ceil(2 * p.captures, 32) \in Nat BY <1>1 DEF Ceil
  <2> QED BY <2>1 DEF MaskWords, Most
<1>3. SignatureWords(p) \in Nat \ {0} BY <1>1 DEF SignatureWords, Ceil, PRED_BASE
<1>4. Tables(p) \in Nat /\ Tables(p) >= 1280
  BY <1>1, <1>3 DEF Tables, FRONT, MEMO_WORDS
<1>5. WorkArea(p, threads) \in Nat
  <2>1. NextPower[4 * threads] \in Nat BY NextPowerType
  <2> QED BY <2>1 DEF WorkArea
<1>6. CaptureArea(p, threads) \in Nat
  <2>1. threads * MaskWords(p) \in Nat BY <1>2
  <2>2. 4 * threads * MaskWords(p) = 4 * (threads * MaskWords(p)) BY <1>2
  <2> QED BY <1>1, <1>2, <2>1, <2>2 DEF CaptureArea
<1> QED BY <1>2, <1>3, <1>4, <1>5, <1>6

LEMMA LayoutFacts ==
  ASSUME NEW p, Counted(p), NEW cap \in Nat, NEW minimum \in BOOLEAN
  PROVE  /\ Layout(p, cap, minimum).required \in Nat /\ Layout(p, cap, minimum).required >= 1280
         /\ Layout(p, cap, minimum).region \in Nat /\ Layout(p, cap, minimum).hashSlots \in Nat
         /\ cap >= Layout(p, cap, minimum).required =>
              cap - Layout(p, cap, minimum).region >= 370 + 26 * MaskWords(p)
<1> DEFINE l == Layout(p, cap, minimum)
           threads == WorkThreads(p, cap, minimum)
           fixed == Tables(p) + WorkArea(p, threads) + CaptureArea(p, threads)
           sigw == SignatureWords(p)
           mask == MaskWords(p)
           share == (Most(0, cap - fixed) \div 8) \div sigw
           classes == Least(MAX_CLASSES, Most(16, share))
           hash == fixed + classes * sigw
           slots == Most(64, PrevPower[Most(0, cap - hash) \div 16])
<1>1. threads \in Nat
  <2>1. p.n \in Nat /\ cap \div 64 \in Nat BY DEF Counted
  <2> QED BY <2>1 DEF WorkThreads, Least, Most
<1>2. /\ mask \in Nat \ {0} /\ sigw \in Nat \ {0}
      /\ Tables(p) \in Nat /\ Tables(p) >= 1280
      /\ WorkArea(p, threads) \in Nat /\ CaptureArea(p, threads) \in Nat
  BY <1>1, PartsTypes
<1> HIDE DEF threads
<1>3. fixed \in Nat /\ fixed >= 1280 BY <1>2
<1>4. /\ l.required = fixed + 16 * sigw + 480 + 32 * mask
      /\ l.region = hash + slots /\ l.hashSlots = slots
  <2>1. l.required = Required(p, threads) /\ l.region = hash + slots /\ l.hashSlots = slots
    BY DEF Layout, threads
  <2>2. Required(p, threads) = fixed + 16 * sigw + 480 + 32 * mask
    <3> HIDE DEF fixed
    <3>1. Required(p, threads) = fixed + 16 * sigw + 64 + 8 * (2 * 8 + 2 + 32) + 8 * (2 + 4 * mask)
      BY DEF Required, FIRST_COLUMNS, fixed
    <3> QED BY <1>2, <1>3, <3>1
  <2> HIDE DEF fixed, hash, slots, l
  <2> QED BY <2>1, <2>2
<1> HIDE DEF fixed, l, sigw, mask
<1>5. Most(0, cap - fixed) \in Nat /\ (cap >= fixed => Most(0, cap - fixed) = cap - fixed)
  BY <1>3 DEF Most
<1>6. /\ Most(0, cap - fixed) \div 8 \in Nat
      /\ cap >= fixed => 8 * (Most(0, cap - fixed) \div 8) <= cap - fixed
  BY <1>5
<1>7. share \in Nat /\ share * sigw <= Most(0, cap - fixed) \div 8 BY <1>2, <1>6, Quotient
<1> HIDE DEF share
<1>8. classes \in Nat /\ (classes <= 16 \/ classes <= share)
  BY <1>7 DEF Least, Most, MAX_CLASSES
<1> HIDE DEF classes
<1>9. classes * sigw \in Nat /\ (classes * sigw <= 16 * sigw \/ classes * sigw <= share * sigw)
  <2>1. \A a, b \in Nat : a <= b => a * sigw <= b * sigw BY <1>2
  <2>2. classes * sigw \in Nat BY <1>2, <1>8
  <2> QED BY <1>7, <1>8, <2>1, <2>2
<1>10. PICK c \in Nat : c = classes * sigw BY <1>9
<1>11. hash = fixed + c /\ hash \in Nat BY <1>3, <1>10
<1> HIDE DEF hash
<1>12. /\ Most(0, cap - hash) \div 16 \in Nat
       /\ cap >= hash => 16 * (Most(0, cap - hash) \div 16) <= cap - hash
  <2>1. Most(0, cap - hash) \in Nat /\ (cap >= hash => Most(0, cap - hash) = cap - hash)
    BY <1>11 DEF Most
  <2> QED BY <2>1
<1>13. slots \in Nat /\ (slots = 64 \/ slots <= Most(0, cap - hash) \div 16)
  BY <1>12, PrevPowerBound DEF Most
<1> HIDE DEF slots
<1>14. cap >= l.required => cap - l.region >= 370 + 26 * mask
  <2>1. SUFFICES ASSUME cap >= l.required PROVE cap - l.region >= 370 + 26 * mask OBVIOUS
  <2>2. cap - fixed >= 16 * sigw + 480 + 32 * mask BY <1>2, <1>3, <1>4, <2>1
  <2>3. c <= 16 * sigw \/ 8 * c <= cap - fixed
    <3>1. PICK d \in Nat : d = share * sigw BY <1>2, <1>7
    <3>2. cap >= fixed BY <1>2, <1>3, <2>2
    <3>3. 8 * d <= cap - fixed BY <1>3, <1>6, <1>7, <3>1, <3>2
    <3> QED BY <1>3, <1>9, <1>10, <3>1, <3>3
  <2>4. cap - hash >= 434 + 28 * mask BY <1>2, <1>3, <1>11, <2>2, <2>3
  <2>5. slots = 64 \/ 16 * slots <= cap - hash BY <1>2, <1>11, <1>12, <1>13, <2>4
  <2> QED BY <1>2, <1>4, <1>11, <1>13, <2>4, <2>5
<1>15. l.required \in Nat /\ l.required >= 1280 /\ l.region \in Nat /\ l.hashSlots \in Nat
  BY <1>2, <1>3, <1>4, <1>11, <1>13
<1> QED BY <1>14, <1>15 DEF l, mask

(* build takes one of the two layouts, and only storage it fits in.        *)
LEMMA BuiltIs ==
  ASSUME NEW p, NEW cap, Built(p, cap) # <<>>
  PROVE  \E minimum \in BOOLEAN :
           /\ Built(p, cap) = <<Layout(p, cap, minimum)>>
           /\ Built(p, cap)[1] = Layout(p, cap, minimum)
           /\ cap >= Layout(p, cap, minimum).required
BY DEF Built

(* Storage a layout is accepted in leaves room beyond it.                  *)
LEMMA BuiltRoom ==
  ASSUME NEW p, Counted(p), NEW cap \in Nat, Built(p, cap) # <<>>
  PROVE  /\ Built(p, cap)[1].region \in Nat
         /\ cap - Built(p, cap)[1].region >= 370 + 26 * MaskWords(p)
<1>1. PICK minimum \in BOOLEAN :
        /\ Built(p, cap)[1] = Layout(p, cap, minimum)
        /\ cap >= Layout(p, cap, minimum).required
  BY BuiltIs
<1>2. PICK l : l = Layout(p, cap, minimum) OBVIOUS
<1>3. l.region \in Nat /\ (cap >= l.required => cap - l.region >= 370 + 26 * MaskWords(p))
  <2>1. /\ Layout(p, cap, minimum).region \in Nat
        /\ cap >= Layout(p, cap, minimum).required =>
             cap - Layout(p, cap, minimum).region >= 370 + 26 * MaskWords(p)
    BY LayoutFacts
  <2> QED BY <1>2, <2>1, Zenon
<1>4. Built(p, cap)[1] = l /\ cap >= l.required BY <1>1, <1>2, Zenon
<1> QED BY <1>3, <1>4, Zenon

------------------------------------------------------------------------------
(* The search for a size.                                                  *)
LEMMA BeginType ==
  ASSUME Asked
  PROVE  Begin(ask.from) \in Nat /\ Begin(ask.from) >= 1024 /\ Begin(ask.from) >= ask.from
         /\ Begin(ask.from) = Most(1024, ask.from)
         /\ (Begin(ask.from) = ask.from \/ (Begin(ask.from) = 1024 /\ ask.from < 1024))
BY DEF Asked, Begin, Most

(* Nothing fits in less than the fixed tables of every program take.       *)
LEMMA FitsFacts ==
  ASSUME Asked, NEW cap \in Nat, Fits(cap)
  PROVE  /\ cap >= 1280
         /\ cap < MaxWords =>
              LET built == Built(ask.program, cap) IN
                /\ built # <<>>
                /\ cap - built[1].region >= ask.words /\ built[1].hashSlots > 2 * ask.states
<1> DEFINE l == Layout(ask.program, cap, FALSE)
<1>1. l.required \in Nat /\ l.required >= 1280 /\ l.region \in Nat /\ l.hashSlots \in Nat
  <2>1. Counted(ask.program) BY DEF Asked
  <2>2. PICK minimum \in BOOLEAN : minimum = FALSE OBVIOUS
  <2>3. l = Layout(ask.program, cap, minimum) BY <2>2
  <2> HIDE DEF l
  <2> QED BY <2>1, <2>3, LayoutFacts
<1>2. cap >= l.required /\ l.region + ask.words <= cap /\ l.hashSlots \div 2 > ask.states
  BY DEF Fits
<1>3. cap < MaxWords => Built(ask.program, cap) = <<l>>
  <2>1. cap < MaxWords => ~(cap >= MaxWords) BY PlanConstants
  <2> HIDE DEF l
  <2> QED BY <1>2, <2>1 DEF Built, l
<1> HIDE DEF l
<1>4. l.hashSlots > 2 * ask.states
  <2>1. 2 * (l.hashSlots \div 2) <= l.hashSlots /\ l.hashSlots \div 2 \in Nat BY <1>1, Half
  <2> QED BY <1>1, <1>2, <2>1 DEF Asked
<1>5. cap - l.region >= ask.words BY <1>1, <1>2 DEF Asked
<1>6. cap >= 1280 BY <1>1, <1>2
<1> QED BY <1>3, <1>4, <1>5, <1>6

LEMMA InitHolds == Init => IInv
<1> SUFFICES ASSUME Init PROVE IInv OBVIOUS
<1>1. Asked
  <2>1. PICK p \in Programs :
          \/ ask = Starting(p)
          \/ \E cap \in Caps, share \in Shares, each \in StateWords :
               Built(p, cap) # <<>> /\ ask = Full(p, cap, share, each)
    BY DEF Init
  <2>2. Counted(p) /\ p.n \in Nat BY PlanConstants DEF Counted
  <2>3. CASE ask = Starting(p)
    <3>1. MinimumWords(p) \in Nat
      <4>1. 64 \in Nat OBVIOUS
      <4>2. /\ MaskWords(p) \in Nat /\ SignatureWords(p) \in Nat /\ Tables(p) \in Nat
            /\ WorkArea(p, 64) \in Nat /\ CaptureArea(p, 64) \in Nat
        BY <2>2, <4>1, PartsTypes
      <4> QED BY <4>2 DEF MinimumWords, Required, FIRST_COLUMNS
    <3>2. p.n + 1 \in Int /\ (p.n + 1) * (2 * FIRST_COLUMNS + 4) \in Int
      BY <2>2 DEF FIRST_COLUMNS
    <3> QED BY <2>2, <2>3, <3>1, <3>2 DEF Asked, Starting
  <2>4. CASE \E cap \in Caps, share \in Shares, each \in StateWords :
               Built(p, cap) # <<>> /\ ask = Full(p, cap, share, each)
    <3>1. PICK cap \in Nat, share \in Nat, each \in Nat \ {0} :
            Built(p, cap) # <<>> /\ ask = Full(p, cap, share, each)
      BY <2>4, PlanConstants
    <3>2. cap - Built(p, cap)[1].region \in Nat
      <4>1. MaskWords(p) \in Nat BY <2>2, PartsTypes, 0 \in Nat
      <4> QED BY <2>2, <3>1, <4>1, BuiltRoom
    <3> DEFINE room == cap - Built(p, cap)[1].region
               words == (room * share) \div 100
    <3>3. room \in Nat BY <3>2
    <3> HIDE DEF room
    <3>4. room * share \in Nat BY <3>1, <3>3
    <3>5. words \in Nat BY <3>4
    <3> HIDE DEF words
    <3>6. words \div each \in Nat BY <3>1, <3>5, Quotient
    <3>7. ask = [program |-> p, states |-> 2 * Most(1, words \div each), words |-> 2 * words,
                 from |-> cap]
      BY <3>1 DEF Full, words, room
    <3> QED BY <2>2, <3>1, <3>5, <3>6, <3>7 DEF Asked, Most
  <2> QED BY <2>1, <2>3, <2>4
<1>2. Sought BY <1>1, BeginType DEF Init, Sought
<1> QED BY <1>1, <1>2 DEF IInv

LEMMA DoubleStep ==
  ASSUME IInv, Double
  PROVE  IInv'
<1>1. Asked /\ Sought /\ phase = "doubling" /\ ask' = ask BY DEF IInv, Double
<1>2. Asked' BY <1>1 DEF Asked
<1>3. low \in Nat /\ high \in Nat /\ MaxWords \in Nat /\ ask.from \in Nat /\ high >= 1
      /\ (high = Begin(ask.from) \/ high \div 2 >= Most(1024, ask.from))
  BY <1>1, PlanConstants DEF Sought, Asked
<1>4. /\ Begin(ask.from) \in Nat /\ Most(1024, ask.from) = Begin(ask.from)
      /\ Begin(ask.from) >= 1024 /\ Begin(ask.from) >= ask.from
  BY <1>1, BeginType
<1>5. CASE Fits(high)
  <2>1. low' = high \div 2 /\ phase' = "bisecting" /\ high' = high BY <1>5 DEF Double
  <2>2. low' \in Nat /\ low' < high BY <1>3, <2>1, Half
  <2>3. Fits(high)' /\ (Fits(ask.from)' <=> Fits(ask.from))
    BY <1>1, <1>5, <2>1 DEF Fits
  <2>4. high >= 1280 BY <1>1, <1>3, <1>5, FitsFacts
  <2>5. Fits(ask.from) \/ (low' >= ask.from /\ high > ask.from)
    <3>1. CASE high = Begin(ask.from)
      <4>1. high = ask.from BY <1>1, <2>4, <3>1, BeginType
      <4> QED BY <1>5, <4>1
    <3>2. CASE high \div 2 >= Most(1024, ask.from)
      <4>1. low' >= ask.from /\ low' < high BY <1>3, <1>4, <2>1, <2>2, <3>2
      <4> QED BY <1>3, <2>2, <4>1
    <3> QED BY <1>3, <3>1, <3>2
  <2>6. Sought' BY <1>1, <1>3, <2>1, <2>2, <2>3, <2>5 DEF Sought
  <2> QED BY <1>2, <2>6 DEF IInv
<1>6. CASE ~Fits(high) /\ high >= MaxWords \div 2
  <2>1. high' = MaxWords - 1 /\ phase' = "told" /\ low' = low BY <1>6 DEF Double
  <2>2. high' \in Nat BY PlanConstants, <2>1
  <2>3. Sought' BY <1>1, <2>1, <2>2 DEF Sought
  <2> QED BY <1>2, <2>3 DEF IInv
<1>7. CASE ~Fits(high) /\ ~(high >= MaxWords \div 2)
  <2>1. high' = 2 * high /\ low' = low /\ phase' = "doubling" BY <1>1, <1>7 DEF Double
  <2>2. high' \in Nat /\ high' >= 1 /\ high' \div 2 = high BY <1>3, <2>1
  <2>3. high >= Most(1024, ask.from)
    <3>1. high >= high \div 2 BY <1>3, Half
    <3>2. high \div 2 \in Nat BY <1>3, Half
    <3> QED BY <1>3, <1>4, <3>1, <3>2
  <2>4. Sought' BY <1>1, <1>3, <2>1, <2>2, <2>3 DEF Sought
  <2> QED BY <1>2, <2>4 DEF IInv
<1> QED BY <1>5, <1>6, <1>7

LEMMA BisectStep ==
  ASSUME IInv, Bisect
  PROVE  IInv'
<1>1. Asked /\ Sought /\ phase = "bisecting" /\ phase' = phase /\ ask' = ask /\ low + 1 < high
  BY DEF IInv, Bisect, Apart
<1>2. Asked' BY <1>1 DEF Asked
<1>3. low \in Nat /\ high \in Nat /\ ask.from \in Nat /\ (Fits(ask.from) \/ low >= ask.from)
  BY <1>1 DEF Sought, Asked
<1>4. PICK middle \in Nat : middle = low + (high - low) \div 2 /\ low < middle /\ middle < high
  <2>1. high - low \in Nat /\ high - low >= 2 BY <1>1, <1>3
  <2>2. PICK half \in Nat : half = (high - low) \div 2 /\ half >= 1 /\ half < high - low
    BY <2>1, Half
  <2> QED BY <1>3, <2>2
<1>5. Fits(ask.from)' <=> Fits(ask.from) BY <1>1 DEF Fits
<1>6. CASE Fits(middle)
  <2>1. high' = middle /\ low' = low BY <1>4, <1>6 DEF Bisect
  <2>2. Fits(high)' BY <1>1, <1>6, <2>1 DEF Fits
  <2>3. Sought' BY <1>1, <1>3, <1>4, <1>5, <2>1, <2>2 DEF Sought
  <2> QED BY <1>2, <2>3 DEF IInv
<1>7. CASE ~Fits(middle)
  <2>1. low' = middle /\ high' = high BY <1>4, <1>7 DEF Bisect
  <2>2. Fits(high)' BY <1>1, <2>1 DEF Fits, Sought
  <2>3. Sought' BY <1>1, <1>3, <1>4, <1>5, <2>1, <2>2 DEF Sought
  <2> QED BY <1>2, <2>3 DEF IInv
<1> QED BY <1>6, <1>7

LEMMA Inductive == IInv /\ [Next]_vars => IInv'
<1> SUFFICES ASSUME IInv, [Next]_vars PROVE IInv' OBVIOUS
<1>1. Asked /\ Sought BY DEF IInv
<1>2. CASE Tell
  <2>1. phase = "bisecting" /\ phase' = "told" /\ UNCHANGED <<ask, low, high>> BY <1>2 DEF Tell
  <2>2. (Fits(high)' <=> Fits(high)) /\ (Fits(ask.from)' <=> Fits(ask.from)) BY <2>1 DEF Fits
  <2>3. Sought' BY <1>1, <2>1, <2>2 DEF Sought
  <2>4. Asked' BY <1>1, <2>1 DEF Asked
  <2> QED BY <2>3, <2>4 DEF IInv
<1>3. CASE UNCHANGED vars
  <2>1. UNCHANGED <<ask, low, high, phase>> BY <1>3 DEF vars
  <2>2. (Fits(high)' <=> Fits(high)) /\ (Fits(ask.from)' <=> Fits(ask.from)) BY <2>1 DEF Fits
  <2>3. Sought' BY <1>1, <2>1, <2>2 DEF Sought
  <2>4. Asked' BY <1>1, <2>1 DEF Asked
  <2> QED BY <2>3, <2>4 DEF IInv
<1> QED BY <1>2, <1>3, DoubleStep, BisectStep DEF Next

(* Wherever dfa.rs looks for a size, the one in hand fits or is still to   *)
(* be doubled, and it has gone above the size it began from.               *)
THEOREM SoughtHolds == Spec => []IInv
BY InitHolds, Inductive, PTL DEF Spec

------------------------------------------------------------------------------
(* Storage that build accepts holds the layout and leaves room for what a  *)
(* search places in it, for every program and size (plan and build of      *)
(* dfa.rs).                                                                *)
THEOREM AcceptedRoom == Spec => []AcceptedHasRoom
<1>1. ASSUME IInv PROVE AcceptedHasRoom
  <2> DEFINE p == ask.program
             cap == IF phase = "told" THEN high ELSE ask.from
  <2>1. Counted(p) /\ cap \in Nat BY <1>1 DEF IInv, Asked, Sought
  <2>2. MaskWords(p) \in Nat /\ MaskWords(p) >= 1
    <3>1. 64 \in Nat OBVIOUS
    <3> QED BY <2>1, <3>1, PartsTypes
  <2>3. SUFFICES ASSUME Built(p, cap) # <<>>
                 PROVE  cap - Built(p, cap)[1].region >=
                          Most(2 * (FIRST_COLUMNS + 2 + 2 * 64),
                               2 * (2 * FIRST_COLUMNS + 4) + 2 + 4 * MaskWords(p))
    BY DEF AcceptedHasRoom
  <2>4. cap - Built(p, cap)[1].region >= 370 + 26 * MaskWords(p)
        /\ Built(p, cap)[1].region \in Nat
    BY <2>1, <2>3, BuiltRoom
  <2> HIDE DEF p, cap
  <2>5. PICK room \in Int : room = cap - Built(p, cap)[1].region BY <2>1, <2>4
  <2>6. Most(2 * (8 + 2 + 2 * 64), 2 * (2 * 8 + 4) + 2 + 4 * MaskWords(p))
          <= 370 + 26 * MaskWords(p)
    BY <2>2 DEF Most
  <2>7. Most(2 * (8 + 2 + 2 * 64), 2 * (2 * 8 + 4) + 2 + 4 * MaskWords(p)) \in Int
    BY <2>2 DEF Most
  <2> QED BY <2>2, <2>4, <2>5, <2>6, <2>7 DEF FIRST_COLUMNS
<1> QED BY <1>1, SoughtHolds, PTL

(* A size a host is told builds, with a hash and a region for what was     *)
(* asked, and is larger than the storage that was too small                *)
(* (initial_words and Dfa::required_words).                                *)
THEOREM ToldServes == Spec => []ToldSizeServes
<1>1. ASSUME IInv PROVE ToldSizeServes
  <2>1. Asked /\ Sought BY <1>1 DEF IInv
  <2>2. SUFFICES ASSUME phase = "told"
        PROVE  /\ high < MaxWords - 1 =>
                    LET built == Built(ask.program, high) IN
                      /\ built # <<>>
                      /\ high - built[1].region >= ask.words /\ built[1].hashSlots > 2 * ask.states
               /\ ~Fits(ask.from) /\ ask.from < MaxWords - 1 => high > ask.from
    BY DEF ToldSizeServes
  <2>3. /\ high \in Nat /\ MaxWords \in Nat
        /\ high = MaxWords - 1 \/ (Fits(high) /\ (Fits(ask.from) \/ high > ask.from))
    BY <2>1, <2>2, PlanConstants DEF Sought
  <2>4. CASE high = MaxWords - 1
    <3>1. ~(high < MaxWords - 1) BY <2>3, <2>4
    <3> QED BY <2>4, <3>1
  <2>5. CASE high # MaxWords - 1
    <3>1. high < MaxWords - 1 => high < MaxWords BY <2>3
    <3> QED BY <2>1, <2>3, <2>5, <3>1, FitsFacts
  <2> QED BY <2>4, <2>5
<1> QED BY <1>1, SoughtHolds, PTL
================================================================================
