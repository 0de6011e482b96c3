----------------------------- MODULE SessionProofs -----------------------------
(***************************************************************************)
(* What Session.tla's run checks for ten jobs, two starts and two budgets, *)
(* proved for every job, start, budget, quantum and buffer: in whatever    *)
(* order the host calls, a search spends and answers what one              *)
(* uninterrupted search of its subject does.                               *)
(*                                                                         *)
(* The invariant says at each phase what is still owed: what is spent and  *)
(* what the rest of the search costs make up the whole (Owes).             *)
(***************************************************************************)
EXTENDS Session, WellFoundedInduction, FiniteSetTheorems, TLAPS

(* Every nonempty set of natural numbers has a least element.              *)
LEMMA LeastOf ==
  ASSUME NEW T \in SUBSET Nat, T # {}
  PROVE  \E n \in T : \A m \in T : n <= m
<1>1. \E n \in T : \A m \in T : ~(m < n)
  <2>1. \E n \in T : \A m \in T : ~(<<m, n>> \in OpToRel(<, Nat))
    BY NatLessThanWellFounded, WFMin
  <2>2. \A m, n \in Nat : m < n => <<m, n>> \in OpToRel(<, Nat)
    BY DEF OpToRel
  <2>3. \A m, n \in T : m < n => <<m, n>> \in OpToRel(<, Nat)
    BY <2>2
  <2> QED BY <2>1, <2>3, Zenon
<1> QED BY <1>1

Ends == {Fails} \cup Nat
Outcomes == [work : Nat, end : Ends, at : Ends]
From == FromStart(Job, op.boolean)

(* Where the requested start comes to lie, and the characters admission    *)
(* has before it up to the one of the class.                               *)
Origin == Aligned(Job, op.requested)
Ahead == Reads(Job, Job.admits) - Reads(Job, op.current)

(* A place past one of the characters up to that one.                      *)
Looked(job, at) == \E c \in 0 .. job.admits : c \notin job.inside /\ at = After(job, c)

(* After n more, the search has the outcome x still before it.             *)
Owes(n, x) == Right = Plus(Spent + n, x)

(* The same for an admission that has n more to look at.                   *)
Awaits(n) ==
  IF Job.admits = Job.length THEN Owes(n, Nothing(0))
  ELSE Owes(n + 2 + Walk(Job, op.requested, begun.near), From[Origin])

Now == Tried(Job, op.boolean, op.start, From[op.start + 1])

Before == {"Admission", "AdmitClass", "AdmitRange", "Start"}
Coming == Before \cup {"Seek"}
Found == {"Validate", "Matched"}

Owed ==
  /\ op.phase = "Admission" => Spent = 0
  /\ op.phase = "AdmitClass" => Awaits(2 * Ahead)
  /\ op.phase = "AdmitRange" => Awaits(2 * Ahead + 1)
  /\ op.phase = "Start" => Owes(Walk(Job, op.requested, begun.near), From[Origin])
  /\ op.phase = "Seek" => Owes(Distance(op.current, op.requested), From[Origin])
  /\ op.phase = "Candidate" => Owes(0, From[op.current])
  /\ op.phase \in {"Trial", "Execute"} => Owes(0 - op.done, Now)
  /\ op.phase = "NextStart" => Owes(0, Failing(Job, op.start, From[op.start + 1]))
  /\ op.phase = "Validate" => Owes(2, Outcome(0, op.current, op.start))
  /\ op.phase = "Matched" => Owes(0, Outcome(0, op.current, op.start))
  /\ op.phase = "NoMatch" => Owes(0, Nothing(0))
  /\ op.phase = "WorkLimit" => op.budget = 0 /\ begun.budget < Right.work

(* Where the evaluator stands in each phase.                               *)
Placed ==
  /\ op.phase \in Before => op.near = begun.near
  /\ op.phase \in Coming => ~op.started /\ op.requested <= Job.length
  /\ op.phase = "AdmitClass" => op.current <= Job.admits /\ op.current \notin Job.inside
  /\ op.phase = "AdmitRange" => Looked(Job, op.current)
  /\ op.phase = "Start" => Job.admits # Job.length
  /\ op.phase = "Candidate" => Job.scans /\ op.done = 0 /\ op.current \notin Job.inside
  /\ op.phase = "Trial" => op.done < Job.trial[op.start].work
  /\ op.phase = "Execute" => op.done = Job.trial[op.start].work
  /\ op.blocked => op.phase = "Execute"
  /\ call.is # "none" => layout = op.shape

(* From the start a search has come to on, its subject holds what it holds *)
(* from the first one on; a sticky search has no other.                    *)
Standing ==
  op.started =>
    /\ From[op.start].end = Right.end /\ From[op.start].at = Right.at
    /\ Job.sticky => op.start = Origin /\ (op.phase = "Candidate" => op.current = Origin)

(* What is in the registers, and what was read of them.                    *)
Lent ==
  /\ op.phase \in Found /\ ~op.boolean => registers = <<op.start, op.current>>
  /\ op.phase = "Validate" => ~op.boolean
  /\ read # <<>> => op.phase = "Matched" /\ read = <<op.start, op.current>>

IInv == TypeOK /\ Owed /\ Placed /\ Standing /\ Lent

------------------------------------------------------------------------------
(* Outcomes and what is put before them.                                   *)
LEMMA PlusFacts ==
  ASSUME NEW x \in [work : Int, end : Ends, at : Ends], NEW n \in Int, NEW m \in Int
  PROVE  /\ Plus(n, x).work = n + x.work /\ Plus(n, x).end = x.end /\ Plus(n, x).at = x.at
         /\ Plus(n, x) \in [work : Int, end : Ends, at : Ends]
         /\ n + x.work \in Nat => Plus(n, x) \in Outcomes
         /\ Plus(n, Plus(m, x)) = Plus(n + m, x)
         /\ Plus(0, x) = x
<1>1. x = Outcome(x.work, x.end, x.at) BY DEF Outcome
<1>2. n + (m + x.work) = (n + m) + x.work /\ 0 + x.work = x.work OBVIOUS
<1> QED BY <1>1, <1>2 DEF Plus, Outcome, Outcomes

LEMMA OutcomeFacts ==
  ASSUME NEW n \in Int, NEW m \in Int, NEW e \in Ends, NEW a \in Ends
  PROVE  /\ Outcome(n, e, a).work = n /\ Outcome(n, e, a).end = e /\ Outcome(n, e, a).at = a
         /\ n \in Nat => Outcome(n, e, a) \in Outcomes
         /\ Plus(m, Outcome(n, e, a)) = Outcome(m + n, e, a)
         /\ Nothing(n) = Outcome(n, Fails, Fails) /\ Fails \in Ends
BY DEF Plus, Outcomes, Ends, Outcome, Nothing

------------------------------------------------------------------------------
(* Characters: no two places within pairs are neighbours.                  *)
LEMMA PairFacts ==
  ASSUME NEW job, IsJob(job), NEW a \in 0 .. job.length
  PROVE  /\ Aligned(job, a) \in 0 .. job.length /\ Aligned(job, a) \notin job.inside
         /\ After(job, a) \in Nat /\ a < After(job, a) /\ After(job, a) \notin job.inside
         /\ a # job.length => After(job, a) \in 0 .. job.length
         /\ \A b \in 0 .. job.length : a < b /\ b \notin job.inside => After(job, a) <= b
<1>1. job.length \in Nat /\ job.inside \subseteq 1 .. job.length - 1 BY DEF IsJob
<1>2. \A p \in job.inside : p + 1 \notin job.inside BY DEF IsJob
<1>3. (a - 1) + 1 = a /\ (a + 1) + 1 = a + 2 BY <1>1
<1>4. a \in job.inside => a - 1 \notin job.inside BY <1>2, <1>3
<1>5. a + 1 \in job.inside => a + 2 \notin job.inside /\ a + 2 <= job.length BY <1>1, <1>2, <1>3
<1>6. Aligned(job, a) \in 0 .. job.length /\ Aligned(job, a) \notin job.inside
  BY <1>1, <1>4 DEF Aligned
<1>7. /\ After(job, a) \in Nat /\ a < After(job, a) /\ After(job, a) \notin job.inside
      /\ a # job.length => After(job, a) \in 0 .. job.length
  BY <1>1, <1>5 DEF After
<1>8. ASSUME NEW b \in 0 .. job.length, a < b, b \notin job.inside PROVE After(job, a) <= b
  BY <1>1, <1>8 DEF After
<1> QED BY <1>6, <1>7, <1>8

LEMMA ReadsFacts ==
  ASSUME NEW job, IsJob(job), NEW a \in 0 .. job.length
  PROVE  /\ Reads(job, 0) = 0 /\ Reads(job, a) \in Nat
         /\ \A b \in 0 .. job.length : a <= b => Reads(job, a) <= Reads(job, b)
         /\ a # job.length /\ a \notin job.inside => Reads(job, After(job, a)) = Reads(job, a) + 1
<1>1. job.length \in Nat /\ job.inside \subseteq 1 .. job.length - 1 BY DEF IsJob
<1>2. \A n \in Nat : IsFiniteSet((0 .. n - 1) \ job.inside)
  <2> TAKE n \in Nat
  <2>1. 0 \in Int /\ n - 1 \in Int OBVIOUS
  <2>2. IsFiniteSet(0 .. n - 1) BY <2>1, FS_Interval
  <2> QED BY <2>2, FS_Subset
<1>3. (0 .. 0 - 1) \ job.inside = {} OBVIOUS
<1>4. Reads(job, 0) = 0 BY <1>3, FS_EmptySet DEF Reads
<1>5. Reads(job, a) \in Nat BY <1>1, <1>2, FS_CardinalityType DEF Reads
<1>6. ASSUME NEW b \in 0 .. job.length, a <= b PROVE Reads(job, a) <= Reads(job, b)
  <2>1. (0 .. a - 1) \ job.inside \subseteq (0 .. b - 1) \ job.inside BY <1>1, <1>6
  <2> QED BY <1>1, <1>2, <2>1, FS_Subset DEF Reads
<1>7. ASSUME a # job.length, a \notin job.inside
      PROVE  Reads(job, After(job, a)) = Reads(job, a) + 1
  <2>1. a \notin (0 .. a - 1) \ job.inside BY <1>1
  <2>2. (0 .. After(job, a) - 1) \ job.inside = ((0 .. a - 1) \ job.inside) \cup {a}
    <3>1. CASE a + 1 \in job.inside
      <4>1. After(job, a) - 1 = a + 1 BY <1>1, <3>1 DEF After
      <4>2. 0 .. a + 1 = (0 .. a - 1) \cup {a, a + 1} BY <1>1
      <4> QED BY <1>7, <3>1, <4>1, <4>2
    <3>2. CASE a + 1 \notin job.inside
      <4>1. After(job, a) - 1 = a BY <1>1, <3>2 DEF After
      <4>2. 0 .. a = (0 .. a - 1) \cup {a} BY <1>1
      <4> QED BY <1>7, <4>1, <4>2
    <3> QED BY <3>1, <3>2
  <2>3. Cardinality(((0 .. a - 1) \ job.inside) \cup {a}) = Cardinality((0 .. a - 1) \ job.inside) + 1
    <3> DEFINE S == (0 .. a - 1) \ job.inside
    <3>1. IsFiniteSet(S) /\ a \notin S BY <1>1, <1>2, <2>1
    <3> HIDE DEF S
    <3>2. Cardinality(S \cup {a}) = Cardinality(S) + 1 BY <3>1, FS_AddElement
    <3> QED BY <3>2 DEF S
  <2> QED BY <2>2, <2>3 DEF Reads
<1> QED BY <1>4, <1>5, <1>6, <1>7

(* Where a subject ends no start comes after.                              *)
LEMMA LastCome ==
  ASSUME NEW job, IsJob(job), NEW boolean, NEW x, NEW y
  PROVE  Come(job, boolean, job.length, x) = Come(job, boolean, job.length, y)
<1>1. Failing(job, job.length, x) = Failing(job, job.length, y) BY DEF Failing
<1>2. Tried(job, boolean, job.length, x) = Tried(job, boolean, job.length, y) BY <1>1 DEF Tried
<1>3. job.length \in Nat /\ job.length \notin job.inside BY DEF IsJob
<1>4. job.length + 1 >= job.length BY <1>3
<1> QED BY <1>2, <1>3, <1>4 DEF Come

(* There is a function of what each start comes to: a table from any start *)
(* on can be begun one start earlier.                                      *)
LEMMA ComeExists ==
  ASSUME NEW job, IsJob(job), NEW boolean
  PROVE  \E f : f = [s \in 0 .. job.length |-> Come(job, boolean, s, f[s + 1])]
<1> DEFINE L == job.length
           Table(k, f) == f = [s \in (L - k) .. L |-> Come(job, boolean, s, f[s + 1])]
           T == {k \in 0 .. L : ~ \E f : Table(k, f)}
<1>1. L \in Nat BY DEF IsJob
<1>2. CASE T = {}
  <2>1. L \in 0 .. L /\ L - L = 0 BY <1>1
  <2>2. \E f : Table(L, f) BY <1>2, <2>1
  <2> QED BY <2>1, <2>2
<1>3. CASE T # {}
  <2>1. T \in SUBSET Nat BY <1>1
  <2>2. PICK k \in T : \A m \in T : k <= m
    <3> HIDE DEF T
    <3> QED BY <1>3, <2>1, LeastOf
  <2>3. k \in 0 .. L /\ ~ \E f : Table(k, f) BY <2>2
  <2>4. CASE k = 0
    <3> DEFINE g == [s \in (L - k) .. L |-> Come(job, boolean, L, 0)]
    <3>1. \A s \in (L - k) .. L : s = L BY <1>1, <2>4
    <3>2. \A s \in (L - k) .. L : Come(job, boolean, L, 0) = Come(job, boolean, s, g[s + 1])
      <4> HIDE DEF g
      <4> QED BY <3>1, LastCome
    <3>3. Table(k, g) BY <3>2
    <3> QED BY <2>3, <3>3
  <2>5. CASE k # 0
    <3>1. k - 1 \in 0 .. L /\ k - 1 \notin T /\ k \in Nat BY <1>1, <2>2, <2>3, <2>5
    <3>2. PICK f : Table(k - 1, f) BY <3>1
    <3> DEFINE low == L - k
               g == [s \in low .. L |-> IF s = low THEN Come(job, boolean, s, f[s + 1]) ELSE f[s]]
    <3>3. low \in Nat /\ low < L /\ L - (k - 1) = low + 1 BY <1>1, <2>3, <2>5
    <3>4. \A s \in (low + 1) .. L : f[s] = Come(job, boolean, s, f[s + 1])
      BY <3>2, <3>3
    <3>5. \A s \in low .. L : s # L => g[s + 1] = f[s + 1] BY <1>1, <3>3
    <3>6. ASSUME NEW s \in low .. L PROVE g[s] = Come(job, boolean, s, g[s + 1])
      <4>1. CASE s = low
        <5>1. s # L BY <3>3, <4>1
        <5>2. g[s] = Come(job, boolean, s, f[s + 1]) BY <4>1
        <5> HIDE DEF g
        <5> QED BY <5>1, <5>2, <3>5
      <4>2. CASE s # low
        <5>1. s \in (low + 1) .. L BY <1>1, <3>3, <4>2
        <5>2. g[s] = Come(job, boolean, s, f[s + 1]) BY <4>2, <5>1, <3>4
        <5> HIDE DEF g
        <5>3. CASE s = L BY <5>2, <5>3, LastCome
        <5>4. CASE s # L BY <5>2, <5>4, <3>5
        <5> QED BY <5>3, <5>4
      <4> QED BY <4>1, <4>2
    <3>7. Table(k, g)
      <4>1. g = [s \in low .. L |-> g[s]] OBVIOUS
      <4> HIDE DEF g
      <4> QED BY <4>1, <3>6
    <3> QED BY <2>3, <3>7
  <2> QED BY <2>4, <2>5
<1> QED BY <1>2, <1>3

(* What a search comes to from a start, in terms of the start after it.    *)
LEMMA FromStartIs ==
  ASSUME NEW job, IsJob(job), NEW boolean, NEW s \in 0 .. job.length
  PROVE  FromStart(job, boolean)[s] = Come(job, boolean, s, FromStart(job, boolean)[s + 1])
<1> DEFINE Fits(f) == f = [t \in 0 .. job.length |-> Come(job, boolean, t, f[t + 1])]
<1>1. FromStart(job, boolean) = CHOOSE f : Fits(f) BY DEF FromStart
<1>2. \E f : Fits(f) BY ComeExists
<1>3. Fits(CHOOSE f : Fits(f))
  <2> HIDE DEF Fits
  <2> QED BY <1>2
<1>4. Fits(FromStart(job, boolean)) BY <1>1, <1>3
<1> QED BY <1>4

(* What one step of it costs and comes to.                                 *)
LEMMA ComeType ==
  ASSUME NEW job, IsJob(job), NEW boolean \in BOOLEAN, NEW s \in 0 .. job.length, NEW rest,
         s # job.length => rest \in Outcomes
  PROVE  /\ Failing(job, s, rest) \in Outcomes
         /\ ~job.sticky => Failing(job, s, rest).work >= 1
         /\ Tried(job, boolean, s, rest) \in Outcomes
         /\ Tried(job, boolean, s, rest).work >= job.trial[s].work
         /\ Come(job, boolean, s, rest) \in Outcomes
         /\ job.scans /\ s \notin job.inside => Come(job, boolean, s, rest).work >= 1
<1>1. /\ job.trial[s].work \in Nat \ {0} /\ job.trial[s].end \in Ends /\ s \in Ends
      /\ job.sticky \in BOOLEAN /\ job.scans \in BOOLEAN /\ job.length \in Nat
  BY DEF IsJob, Trials, Ends
<1>2. \A n \in Nat, x \in Outcomes : Plus(n, x) \in Outcomes /\ Plus(n, x).work = n + x.work
  BY DEF Plus, Outcome, Outcomes
<1>3. Nothing(0) \in Outcomes /\ Nothing(1) \in Outcomes /\ Nothing(1).work = 1
  BY DEF Nothing, Outcome, Outcomes, Ends
<1>4. Failing(job, s, rest) \in Outcomes /\ (~job.sticky => Failing(job, s, rest).work >= 1)
  BY <1>2, <1>3 DEF Failing, Outcomes
<1>5. /\ Tried(job, boolean, s, rest) \in Outcomes
      /\ Tried(job, boolean, s, rest).work >= job.trial[s].work
  <2>1. CASE job.trial[s].end # Fails BY <1>1, <2>1, OutcomeFacts DEF Tried, Outcome, Outcomes
  <2>2. CASE job.trial[s].end = Fails BY <1>1, <1>2, <1>4, <2>2 DEF Tried, Outcomes
  <2> QED BY <2>1, <2>2
<1>6. /\ Come(job, boolean, s, rest) \in Outcomes
      /\ job.scans /\ s \notin job.inside => Come(job, boolean, s, rest).work >= 1
  <2>1. s \in job.inside => s # job.length BY DEF IsJob
  <2> QED BY <1>1, <1>2, <1>3, <1>5, <2>1 DEF Come, Outcomes
<1> QED BY <1>4, <1>5, <1>6

(* From every start a search has an outcome.                               *)
LEMMA FromStartType ==
  ASSUME NEW job, IsJob(job), NEW boolean \in BOOLEAN, NEW s \in 0 .. job.length
  PROVE  FromStart(job, boolean)[s] \in Outcomes
<1> DEFINE L == job.length
           from == FromStart(job, boolean)
           T == {k \in 0 .. L : from[L - k] \notin Outcomes}
<1>1. L \in Nat BY DEF IsJob
<1>2. CASE T = {}
  <2>1. L - s \in 0 .. L /\ L - (L - s) = s BY <1>1
  <2> QED BY <1>2, <2>1
<1>3. CASE T # {}
  <2>1. T \in SUBSET Nat BY <1>1
  <2>2. PICK k \in T : \A m \in T : k <= m
    <3> HIDE DEF T
    <3> QED BY <1>3, <2>1, LeastOf
  <2>3. k \in 0 .. L /\ from[L - k] \notin Outcomes BY <2>2
  <2>4. L - k \in 0 .. L BY <1>1, <2>3
  <2>5. L - k # L => from[L - k + 1] \in Outcomes
    <3>1. SUFFICES ASSUME k # 0 PROVE from[L - k + 1] \in Outcomes BY <1>1, <2>3
    <3>2. k - 1 \in 0 .. L /\ ~(k <= k - 1) /\ L - (k - 1) = L - k + 1 BY <1>1, <2>3, <3>1
    <3> QED BY <2>2, <3>2
  <2>6. from[L - k] \in Outcomes
    <3>1. from[L - k] = Come(job, boolean, L - k, from[L - k + 1]) BY <2>4, FromStartIs
    <3> QED BY <2>4, <2>5, <3>1, ComeType
  <2> QED BY <2>3, <2>6
<1> QED BY <1>2, <1>3

(* The start after a character is that of the place after it.              *)
LEMMA FromAfter ==
  ASSUME NEW job, IsJob(job), NEW boolean \in BOOLEAN, NEW s \in 0 .. job.length, s # job.length
  PROVE  FromStart(job, boolean)[After(job, s)] = FromStart(job, boolean)[s + 1]
<1>1. s + 1 \in 0 .. job.length /\ (s + 1) + 1 = s + 2 BY DEF IsJob
<1>2. CASE s + 1 \in job.inside
  <2>1. FromStart(job, boolean)[s + 1] =
          Come(job, boolean, s + 1, FromStart(job, boolean)[(s + 1) + 1])
    BY <1>1, FromStartIs
  <2>2. FromStart(job, boolean)[s + 1] = FromStart(job, boolean)[s + 2]
    BY <1>1, <1>2, <2>1 DEF Come
  <2> QED BY <1>2, <2>2 DEF After
<1>3. CASE s + 1 \notin job.inside BY <1>3 DEF After
<1> QED BY <1>2, <1>3

------------------------------------------------------------------------------
(* The jobs and the walk to a start.                                       *)
LEMMA JobFacts ==
  ASSUME TypeOK
  PROVE  /\ IsJob(Job) /\ IsJob(world[1]) /\ IsJob(world[2])
         /\ Job.length \in Nat /\ Job.scans \in BOOLEAN /\ Job.sticky \in BOOLEAN
         /\ Job.indexed \in BOOLEAN /\ Job.admits \in {NoScan} \cup 0 .. Job.length
         /\ \A s \in 0 .. Job.length : Job.trial[s] \in Trials(Job.length)
         /\ op.boolean \in BOOLEAN /\ op.budget \in Nat /\ begun.budget \in Nat
         /\ Spent \in Int /\ begun.shape = op.shape
<1>1. IsJob(world[1]) /\ IsJob(world[2]) BY SessionConstants DEF TypeOK
<1>2. IsJob(Job) BY <1>1 DEF TypeOK, Job
<1>3. /\ op.boolean \in BOOLEAN /\ op.budget \in Nat /\ begun.budget \in Nat
      /\ begun.shape = op.shape
  BY DEF TypeOK, Operations
<1>4. Spent \in Int BY <1>3 DEF Spent
<1> QED BY <1>1, <1>2, <1>3, <1>4 DEF IsJob

LEMMA MinFacts ==
  ASSUME NEW a \in Int, NEW b \in Int
  PROVE  /\ Min({a}) = a
         /\ Min({a, b}) = IF a <= b THEN a ELSE b
<1>1. ASSUME NEW S, NEW m \in S, S \subseteq Int, \A y \in S : m <= y PROVE Min(S) = m
  <2>1. \A x \in S : (\A y \in S : x <= y) => x = m BY <1>1
  <2>2. Min(S) = CHOOSE x \in S : \A y \in S : x <= y BY DEF Min
  <2> QED BY <1>1, <2>1, <2>2
<1> QED BY <1>1

LEMMA WalkFacts ==
  ASSUME NEW job, IsJob(job), NEW at \in 0 .. job.length, NEW near \in {NONE} \cup 0 .. job.length
  PROVE  /\ SeekWork(job, at) \in Nat \ {0}
         /\ ~job.indexed => SeekWork(job, at) = 1 + (IF at <= job.length - at THEN at ELSE job.length - at)
         /\ Walk(job, at, near) \in Nat \ {0}
         /\ Walk(job, at, near) <= SeekWork(job, at)
         /\ Walk(job, at, near) =
              IF Nearer(near, at, SeekWork(job, at)) THEN Distance(near, at) + 1 ELSE SeekWork(job, at)
<1>1. job.length \in Nat /\ at \in Int /\ job.length - at \in Int BY DEF IsJob
<1>2. Min({at, job.length - at}) = IF at <= job.length - at THEN at ELSE job.length - at
  BY <1>1, MinFacts
<1>3. /\ SeekWork(job, at) \in Nat \ {0}
      /\ ~job.indexed => SeekWork(job, at) = 1 + (IF at <= job.length - at THEN at ELSE job.length - at)
  BY <1>1, <1>2 DEF SeekWork
<1>4. Min({SeekWork(job, at)}) = SeekWork(job, at) BY <1>3, MinFacts
<1>5. CASE near = NONE
  <2>1. {SeekWork(job, at)} \cup {} = {SeekWork(job, at)} OBVIOUS
  <2>2. Walk(job, at, near) = Min({SeekWork(job, at)} \cup {}) BY <1>5 DEF Walk
  <2> QED BY <1>3, <1>4, <1>5, <2>1, <2>2 DEF Nearer
<1>6. CASE near # NONE
  <2> DEFINE d == Distance(near, at) + 1
             w == SeekWork(job, at)
  <2>1. d \in Nat \ {0} BY <1>1, <1>6 DEF Distance
  <2>2. Walk(job, at, near) = Min({w} \cup {d}) BY <1>6 DEF Walk
  <2>3. {w} \cup {d} = {w, d} OBVIOUS
  <2>4. Min({w, d}) = IF w <= d THEN w ELSE d
    <3>1. w \in Int /\ d \in Int BY <1>3, <2>1
    <3> HIDE DEF w, d
    <3> QED BY <3>1, MinFacts
  <2> QED BY <1>3, <1>6, <2>1, <2>2, <2>3, <2>4 DEF Nearer
<1> QED BY <1>3, <1>5, <1>6

(* What the whole search costs and answers.                                *)
LEMMA RightFacts ==
  ASSUME TypeOK
  PROVE  /\ Right \in Outcomes
         /\ op.requested > Job.length => Right = Nothing(0)
         /\ op.requested <= Job.length =>
              /\ Job.admits = Job.length => Right = Nothing(2 * Reads(Job, Job.length))
              /\ Job.admits # Job.length =>
                   Right = Plus((IF Job.admits = NoScan THEN 0 ELSE 2 * (Reads(Job, Job.admits) + 1))
                                  + Walk(Job, op.requested, begun.near), From[Origin])
<1> USE JobFacts
<1>1. op.requested \in Nat /\ begun.near \in {NONE} \cup 0 .. Job.length BY DEF TypeOK, Operations
<1>2. Right = Whole(Job, op.requested, begun.near, op.boolean) BY DEF Right, Job
<1>0. \A n \in Nat : Nothing(n) \in Outcomes BY DEF Nothing, Outcome, Outcomes, Ends
<1>3. CASE op.requested > Job.length
  <2>1. Right = Nothing(0) BY <1>2, <1>3 DEF Whole
  <2> QED BY <1>0, <1>1, <1>3, <2>1
<1>4. CASE ~(op.requested > Job.length) /\ Job.admits = Job.length
  <2>0. Reads(Job, Job.length) \in Nat
    <3>1. Job.length \in 0 .. Job.length OBVIOUS
    <3> QED BY <3>1, ReadsFacts
  <2>1. Right = Nothing(2 * Reads(Job, Job.length)) /\ 2 * Reads(Job, Job.length) \in Nat
    BY <1>2, <1>4, <2>0 DEF Whole
  <2>2. Right \in Outcomes BY <1>0, <2>1
  <2> QED BY <1>4, <2>1, <2>2
<1>5. CASE ~(op.requested > Job.length) /\ Job.admits # Job.length
  <2> DEFINE n == (IF Job.admits = NoScan THEN 0 ELSE 2 * (Reads(Job, Job.admits) + 1))
                    + Walk(Job, op.requested, begun.near)
  <2>1. op.requested \in 0 .. Job.length BY <1>1, <1>5
  <2>2. From[Origin] \in Outcomes BY <2>1, PairFacts, FromStartType DEF From, Origin
  <2>3. n \in Nat
    <3>1. Walk(Job, op.requested, begun.near) \in Nat BY <1>1, <2>1, WalkFacts
    <3>2. Job.admits # NoScan => Reads(Job, Job.admits) \in Nat BY ReadsFacts
    <3> QED BY <3>1, <3>2
  <2>4. Right = Plus(n, From[Origin]) BY <1>2, <1>5 DEF Whole, From, Origin
  <2>5. Plus(n, From[Origin]) \in Outcomes
    <3> HIDE DEF n
    <3> QED BY <2>2, <2>3 DEF Plus, Outcome, Outcomes
  <2> QED BY <1>5, <2>4, <2>5
<1> QED BY <1>3, <1>4, <1>5

------------------------------------------------------------------------------
(* While a call runs, the operation stays the one it was begun as.         *)
Stays ==
  /\ UNCHANGED <<world, begun>>
  /\ op'.shape = op.shape /\ op'.requested = op.requested /\ op'.boolean = op.boolean

LEMMA Staying ==
  ASSUME Stays
  PROVE  Job' = Job /\ From' = From /\ Right' = Right /\ Origin' = Origin
BY DEF Stays, Job, From, Right, Origin

(* A unit of evaluation goes on, or the budget does not cover it.          *)
GoesOn(k, then) ==
  /\ op.budget >= k /\ op'.budget = op.budget - k /\ Spent' = Spent + k
  /\ op'.phase = then.phase /\ op'.done = then.done /\ op'.start = then.start
  /\ op'.current = then.current /\ op'.near = then.near /\ op'.started = then.started
  /\ op'.blocked = then.blocked

Stops(k) ==
  /\ op.budget < k /\ op'.phase = "WorkLimit" /\ op'.budget = 0
  /\ op'.start = op.start /\ op'.started = op.started /\ op'.blocked = op.blocked

(* Where it leaves the call and what the host reads, in either case.       *)
Lands ==
  TypeOK' /\ Stays /\ call'.is # "none" /\ layout' = op'.shape /\ read' = read

LEMMA Charged ==
  ASSUME TypeOK, Placed, call.is # "none",
         NEW k \in Nat, NEW then \in Operations(Job.length),
         then.requested = op.requested, then.boolean = op.boolean, then.shape = op.shape,
         Spend(k, then), Evaluator
  PROVE  Lands /\ (GoesOn(k, then) \/ Stops(k))
<1>1. op \in Operations(Job.length) /\ op.budget \in Nat /\ call.window \in Int /\ begun.budget \in Nat
  BY DEF TypeOK, Operations
<1>2. world' = world /\ begun' = begun /\ layout' = layout /\ read' = read BY DEF Evaluator, host
<1>3. CASE op.budget < k
  <2>1. op' = [op EXCEPT !.phase = "WorkLimit", !.budget = 0] BY <1>3 DEF Spend
  <2>2. op' \in Operations(Job.length) /\ Stops(k)
    BY <1>1, <1>3, <2>1 DEF Operations, Phases, Stops
  <2>3. op'.shape = op.shape /\ op'.requested = op.requested /\ op'.boolean = op.boolean
    BY <1>1, <2>1 DEF Operations
  <2> QED BY <1>2, <2>2, <2>3 DEF TypeOK, Stays, Spend, Evaluator, host, Job, Placed, Lands
<1>4. CASE ~(op.budget < k)
  <2>1. op' = [then EXCEPT !.budget = op.budget - k] BY <1>4 DEF Spend
  <2>2. op' \in Operations(Job.length) /\ op'.budget = op.budget - k
    BY <1>1, <1>4, <2>1 DEF Operations
  <2>3. Spent' = Spent + k BY <1>1, <1>2, <2>2 DEF Spent
  <2>4. GoesOn(k, then) BY <1>1, <1>4, <2>1, <2>2, <2>3 DEF Operations, GoesOn
  <2>5. op'.shape = op.shape /\ op'.requested = op.requested /\ op'.boolean = op.boolean
    BY <1>1, <2>1 DEF Operations
  <2> QED BY <1>2, <2>2, <2>4, <2>5 DEF TypeOK, Stays, Spend, Evaluator, host, Job, Placed, Lands
<1> QED BY <1>3, <1>4

(* It stops only where the whole costs more than there was.                *)
LEMMA StopsShort ==
  ASSUME IInv, Lands, ~op.blocked, op.phase # "Matched",
         NEW k \in Nat, Stops(k), NEW n \in Int, NEW x \in Outcomes, Owes(n, x), k <= n + x.work
  PROVE  IInv'
<1>0. TypeOK' /\ Stays /\ call'.is # "none" /\ layout' = op'.shape /\ read' = read BY DEF Lands
<1>1. Right' = Right /\ Job' = Job /\ From' = From /\ Origin' = Origin BY <1>0, Staying
<1>2. Right.work = Spent + n + x.work /\ Spent = begun.budget - op.budget /\ begun' = begun
  BY <1>0 DEF Owes, Plus, Outcome, Spent, Stays
<1>3. x.work \in Nat /\ op.budget \in Nat /\ begun.budget \in Nat
  BY JobFacts DEF IInv, Outcomes
<1>4. begun.budget < Right.work BY <1>2, <1>3 DEF Stops
<1>5. Owed' BY <1>1, <1>2, <1>4 DEF Owed, Stops
<1>6. Placed' BY <1>0 DEF Placed, Stops, Before, Coming
<1>7. Standing' BY <1>0, <1>1 DEF Standing, Stops, IInv, Stays
<1>8. Lent' BY <1>0 DEF Lent, Stops, IInv, Found
<1> QED BY <1>0, <1>5, <1>6, <1>7, <1>8 DEF IInv

(* What is paid is no longer owed.                                         *)
LEMMA PaysOff ==
  ASSUME TypeOK, Stays, NEW k \in Nat, Spent' = Spent + k, NEW n \in Int, NEW x, Owes(n, x)
  PROVE  Right' = Plus(Spent' + (n - k), x)
<1>1. Spent \in Int BY JobFacts
<1>2. Spent' + (n - k) = Spent + n BY <1>1
<1> QED BY <1>2, Staying DEF Owes

(* The views a running call reads are those of the search.                 *)
LEMMA InView ==
  ASSUME IInv, call.is # "none"
  PROVE  Seen = Job /\ Length = Job.length
BY DEF IInv, Placed, Seen, Job, Length

(* What a unit of evaluation starts from, and what it leaves alone.        *)
LEMMA Running ==
  ASSUME IInv, NEW phases, Runs(phases)
  PROVE  /\ TypeOK /\ Owed /\ Placed /\ Standing /\ Lent
         /\ op.phase \in phases /\ ~op.blocked /\ call.is # "none" /\ op \in Operations(Job.length)
         /\ Seen = Job /\ Length = Job.length /\ IsJob(Job) /\ Job.length \in Nat
         /\ Job.admits \in {NoScan} \cup 0 .. Job.length
         /\ op.boolean \in BOOLEAN /\ op.budget \in Nat /\ Spent \in Int
         /\ op.start \in 0 .. Job.length /\ op.current \in 0 .. Job.length
         /\ op.requested \in Nat /\ op.done \in Nat
         /\ op.near \in {NONE} \cup 0 .. Job.length
         /\ begun.near \in {NONE} \cup 0 .. Job.length
<1>1. TypeOK /\ Owed /\ Placed /\ Standing /\ Lent BY DEF IInv
<1>2. op.phase \in phases /\ ~op.blocked /\ call.is # "none" BY DEF Runs
<1>3. op \in Operations(Job.length) /\ begun.near \in {NONE} \cup 0 .. Job.length BY <1>1 DEF TypeOK
<1> QED BY <1>1, <1>2, <1>3, InView, JobFacts DEF Operations

LEMMA Landed ==
  ASSUME Lands
  PROVE  /\ op'.requested = op.requested /\ op'.boolean = op.boolean /\ op'.shape = op.shape
         /\ begun' = begun /\ Job' = Job /\ From' = From /\ Right' = Right /\ Origin' = Origin
         /\ TypeOK' /\ Stays /\ layout' = op'.shape /\ read' = read /\ Spent' \in Int
<1>1. TypeOK' /\ Stays BY DEF Lands
<1>2. Spent' \in Int BY <1>1 DEF TypeOK, Operations, Spent
<1> QED BY <1>1, <1>2, Staying DEF Lands, Stays

------------------------------------------------------------------------------
(* Admission: two units for each character it looks at.                    *)
LEMMA AwaitsFacts ==
  ASSUME TypeOK, op.requested <= Job.length, NEW n \in Int, Awaits(n)
  PROVE  \E m \in Int, x \in Outcomes :
           (IF Job.admits = Job.length THEN n ELSE n + 2) <= m + x.work /\ Owes(m, x)
<1>1. CASE Job.admits = Job.length
  <2>1. Nothing(0) \in Outcomes /\ Nothing(0).work = 0 BY DEF Nothing, Outcome, Outcomes, Ends
  <2>2. n \in Int /\ n <= n + Nothing(0).work BY <2>1
  <2> QED BY <1>1, <2>1, <2>2 DEF Awaits
<1>2. CASE Job.admits # Job.length
  <2> DEFINE w == Walk(Job, op.requested, begun.near)
  <2>0. IsJob(Job) /\ op.boolean \in BOOLEAN /\ Job.length \in Nat BY JobFacts
  <2>1. op.requested \in 0 .. Job.length /\ begun.near \in {NONE} \cup 0 .. Job.length
    BY <2>0 DEF TypeOK, Operations
  <2>2. w \in Nat BY <2>0, <2>1, WalkFacts
  <2>3. From[Origin] \in Outcomes BY <2>0, <2>1, PairFacts, FromStartType DEF From, Origin
  <2>4. From[Origin].work \in Nat BY <2>3 DEF Outcomes
  <2>5. n + 2 + w \in Int /\ n + 2 <= n + 2 + w + From[Origin].work
    <3> HIDE DEF w
    <3> QED BY <2>2, <2>4
  <2>6. Owes(n + 2 + w, From[Origin]) BY <1>2 DEF Awaits
  <2> QED BY <1>2, <2>3, <2>5, <2>6
<1> QED BY <1>1, <1>2

LEMMA AwaitsPaid ==
  ASSUME TypeOK, op.requested <= Job.length, Stays, NEW k \in Nat, Spent' = Spent + k,
         NEW n \in Int, Awaits(n), NEW m, m = n - k
  PROVE  IF Job.admits = Job.length THEN Right' = Plus(Spent' + m, Nothing(0))
         ELSE Right' = Plus(Spent' + (m + 2 + Walk(Job, op.requested, begun.near)), From[Origin])
<1>1. CASE Job.admits = Job.length BY <1>1, PaysOff DEF Awaits
<1>2. CASE Job.admits # Job.length
  <2> DEFINE w == Walk(Job, op.requested, begun.near)
  <2>1. op.requested \in 0 .. Job.length /\ begun.near \in {NONE} \cup 0 .. Job.length
    BY JobFacts DEF TypeOK, Operations
  <2>2. w \in Nat BY <2>1, WalkFacts, JobFacts
  <2>3. n + 2 + w \in Int /\ (n + 2 + w) - k = m + 2 + w BY <2>2
  <2>4. Owes(n + 2 + w, From[Origin]) BY <1>2 DEF Awaits
  <2>5. Right' = Plus(Spent' + ((n + 2 + w) - k), From[Origin])
    <3> HIDE DEF w
    <3> QED BY <2>3, <2>4, PaysOff
  <2> QED BY <1>2, <2>3, <2>5
<1> QED BY <1>1, <1>2

LEMMA AdmissionStep ==
  ASSUME IInv, Admission
  PROVE  IInv'
<1> DEFINE then == IF Job.admits = NoScan THEN [op EXCEPT !.phase = "Start"]
                   ELSE [op EXCEPT !.phase = "AdmitClass", !.current = 0]
<1>1. /\ TypeOK /\ Placed /\ Owed /\ Standing /\ Lent
      /\ op.phase = "Admission" /\ ~op.blocked /\ call.is # "none" /\ op \in Operations(Job.length)
  BY DEF IInv, Admission, Runs, TypeOK
<1>2. Job.length \in Nat /\ Job.admits \in {NoScan} \cup 0 .. Job.length /\ op.budget \in Nat
  BY <1>1, JobFacts
<1>3. then \in Operations(Job.length) /\ then.requested = op.requested
      /\ then.boolean = op.boolean /\ then.shape = op.shape
  <2>1. 0 \in 0 .. Job.length BY <1>2
  <2> QED BY <1>1, <2>1 DEF Operations, Phases
<1>4. Spend(0, then) /\ Evaluator /\ registers' = registers
  BY <1>1, InView DEF Admission, Quiet
<1>5. Lands /\ (GoesOn(0, then) \/ Stops(0))
  <2> HIDE DEF then
  <2> QED BY <1>1, <1>3, <1>4, Charged
<1>6. ~Stops(0) BY <1>2 DEF Stops
<1>7. /\ Spent' = Spent + 0 /\ op'.start = op.start /\ op'.started = op.started
      /\ op'.near = op.near /\ op'.blocked = op.blocked
      /\ op'.phase = IF Job.admits = NoScan THEN "Start" ELSE "AdmitClass"
      /\ op'.current = IF Job.admits = NoScan THEN op.current ELSE 0
  BY <1>1, <1>5, <1>6 DEF GoesOn, Operations
<1>8. /\ op'.requested = op.requested /\ begun' = begun /\ Job' = Job /\ From' = From
      /\ Right' = Right /\ Origin' = Origin
  BY <1>5, Staying DEF Stays, Lands
<1>9. op.requested <= Job.length /\ ~op.started /\ op.near = begun.near /\ Spent = 0
  BY <1>1 DEF Placed, Owed, Coming, Before
<1>10. /\ IsJob(Job) /\ Reads(Job, 0) = 0 /\ Reads(Job, Job.length) \in Nat
       /\ Job.admits # NoScan => Reads(Job, Job.admits) \in Nat
  <2>1. Job.length \in 0 .. Job.length BY <1>2
  <2> QED BY <1>1, <1>2, <2>1, JobFacts, ReadsFacts
<1>11. Owed'
  <2> DEFINE w == Walk(Job, op.requested, begun.near)
  <2>1. w \in Nat
    <3>1. op.requested \in 0 .. Job.length /\ begun.near \in {NONE} \cup 0 .. Job.length
      BY <1>1, <1>2, <1>9 DEF TypeOK, Operations
    <3> QED BY <1>1, <3>1, WalkFacts, JobFacts
  <2>2. CASE Job.admits = NoScan
    <3>1. Job.admits # Job.length BY <1>2, <2>2 DEF NoScan
    <3>2. Right = Plus(0 + w, From[Origin]) BY <1>1, <1>9, <2>2, <3>1, RightFacts
    <3>3. Owes(Walk(Job, op.requested, begun.near), From[Origin])'
      BY <1>7, <1>8, <1>9, <2>1, <3>2 DEF Owes
    <3> QED BY <1>7, <2>2, <3>3 DEF Owed
  <2>3. CASE Job.admits # NoScan
    <3>1. Job.admits \in 0 .. Job.length /\ op'.current = 0 /\ Spent' = 0 /\ Reads(Job, Job.admits) \in Nat
           /\ Ahead' = Reads(Job, Job.admits)
      BY <1>2, <1>7, <1>8, <1>9, <1>10, <2>3 DEF Ahead
    <3>2. CASE Job.admits = Job.length
      <4>1. Right = Nothing(2 * Reads(Job, Job.length)) BY <1>1, <1>9, <3>2, RightFacts
      <4>2. \A n \in Nat : Plus(0 + 2 * n, Nothing(0)) = Nothing(2 * n)
        BY DEF Plus, Nothing, Outcome
      <4>3. Right = Plus(Spent' + 2 * Ahead', Nothing(0)) BY <1>10, <3>1, <3>2, <4>1, <4>2
      <4>4. Awaits(2 * Ahead)' BY <1>8, <3>2, <4>3 DEF Awaits, Owes
      <4> QED BY <1>7, <2>3, <4>4 DEF Owed
    <3>3. CASE Job.admits # Job.length
      <4>1. Right = Plus(2 * (Reads(Job, Job.admits) + 1) + w, From[Origin])
        BY <1>1, <1>9, <2>3, <3>3, RightFacts
      <4>2. 2 * (Reads(Job, Job.admits) + 1) + w = Spent' + (2 * Ahead' + 2 + w)
        <5> HIDE DEF w
        <5> QED BY <2>1, <3>1
      <4>3. Awaits(2 * Ahead)'
        BY <1>8, <3>3, <4>1, <4>2 DEF Awaits, Owes
      <4> QED BY <1>7, <2>3, <4>3 DEF Owed
    <3> QED BY <3>2, <3>3
  <2> QED BY <2>2, <2>3
<1>12. Placed'
  <2>1. Job.admits # NoScan => 0 <= Job.admits BY <1>2
  <2>2. NoScan # Job.length /\ 0 \notin Job.inside BY <1>2, <1>10 DEF NoScan, IsJob
  <2> QED BY <1>1, <1>5, <1>7, <1>8, <1>9, <2>1, <2>2 DEF Placed, Before, Coming, Lands
<1>13. Standing' BY <1>1, <1>7, <1>8, <1>9 DEF Standing
<1>14. Lent' BY <1>1, <1>5, <1>7 DEF Lent, Found, Lands
<1> QED BY <1>5, <1>11, <1>12, <1>13, <1>14 DEF IInv, Lands

LEMMA AdmitClassStep ==
  ASSUME IInv, AdmitClass
  PROVE  IInv'
<1> DEFINE then == IF op.current = Job.length THEN [op EXCEPT !.phase = "NoMatch"]
                   ELSE [op EXCEPT !.phase = "AdmitRange", !.current = After(Job, @)]
           k == IF op.current = Job.length THEN 0 ELSE 1
           n == 2 * Ahead
<1>1. Runs({"AdmitClass"}) BY DEF AdmitClass
<1>2. /\ op.phase = "AdmitClass" /\ op.requested <= Job.length /\ ~op.started
      /\ op.near = begun.near /\ op.current <= Job.admits /\ op.current \notin Job.inside
      /\ Awaits(n)
  BY <1>1, Running DEF Placed, Owed, Coming, Before
<1>3. /\ Job.admits \in op.current .. Job.length /\ n \in Nat
      /\ op.current # Job.length =>
           /\ After(Job, op.current) \in 0 .. Job.length
           /\ Reads(Job, After(Job, op.current)) = Reads(Job, op.current) + 1
      /\ op.current # Job.admits => Reads(Job, op.current) + 1 <= Reads(Job, Job.admits)
      /\ Reads(Job, op.current) \in Nat /\ Reads(Job, Job.admits) \in Nat
  <2>1. Job.admits \in op.current .. Job.length /\ Job.admits \in 0 .. Job.length
    BY <1>1, <1>2, Running DEF NoScan
  <2>2. op.current \in 0 .. Job.length /\ IsJob(Job) BY <1>1, Running
  <2>3. Job.admits \notin Job.inside BY <2>2 DEF IsJob
  <2>4. op.current # Job.length =>
           /\ After(Job, op.current) \in 0 .. Job.length
           /\ Reads(Job, After(Job, op.current)) = Reads(Job, op.current) + 1
    BY <1>2, <2>2, PairFacts, ReadsFacts
  <2>5. op.current # Job.admits =>
          op.current # Job.length /\ After(Job, op.current) <= Job.admits
    <3>1. op.current # Job.admits => op.current < Job.admits /\ op.current # Job.length
      BY <2>1, <2>2
    <3> QED BY <2>1, <2>2, <2>3, <3>1, PairFacts
  <2>6. op.current # Job.admits => Reads(Job, After(Job, op.current)) <= Reads(Job, Job.admits)
    BY <2>1, <2>2, <2>4, <2>5, ReadsFacts
  <2>7. /\ Reads(Job, op.current) \in Nat /\ Reads(Job, Job.admits) \in Nat
        /\ Reads(Job, op.current) <= Reads(Job, Job.admits)
    BY <1>2, <2>1, <2>2, ReadsFacts
  <2>8. n \in Nat BY <2>7 DEF Ahead
  <2> QED BY <2>1, <2>4, <2>5, <2>6, <2>7, <2>8
<1>4. then \in Operations(Job.length) /\ then.requested = op.requested
      /\ then.boolean = op.boolean /\ then.shape = op.shape /\ k \in Nat
  <2>1. op.current # Job.length => After(Job, op.current) \in 0 .. Job.length BY <1>3
  <2>2. op \in Operations(Job.length) BY <1>1, Running
  <2> QED BY <2>1, <2>2 DEF Operations, Phases
<1>5. Spend(k, then) /\ Evaluator /\ registers' = registers
  BY <1>1, Running DEF AdmitClass, Quiet
<1>6. Lands /\ (GoesOn(k, then) \/ Stops(k))
  <2> HIDE DEF then, k
  <2> QED BY <1>1, <1>4, <1>5, Running, Charged
<1>7. CASE Stops(k)
  <2>1. k <= (IF Job.admits = Job.length THEN n ELSE n + 2) BY <1>1, <1>3, Running DEF Ahead
  <2>2. PICK m \in Int, x \in Outcomes :
          (IF Job.admits = Job.length THEN n ELSE n + 2) <= m + x.work /\ Owes(m, x)
    BY <1>1, <1>2, <1>3, Running, AwaitsFacts
  <2>3. k <= m + x.work
    <3>1. x.work \in Nat BY DEF Outcomes
    <3> HIDE DEF n, k
    <3> QED BY <1>3, <1>4, <2>1, <2>2, <3>1
  <2> HIDE DEF k
  <2> QED BY <1>1, <1>2, <1>4, <1>6, <1>7, <2>2, <2>3, Running, StopsShort
<1>8. CASE GoesOn(k, then)
  <2>1. /\ Spent' = Spent + k /\ op'.start = op.start /\ op'.started = op.started
        /\ op'.near = op.near /\ op'.blocked = op.blocked
        /\ op'.phase = IF op.current = Job.length THEN "NoMatch" ELSE "AdmitRange"
        /\ op'.current = IF op.current = Job.length THEN op.current ELSE After(Job, op.current)
    BY <1>1, <1>8, Running DEF GoesOn, Operations
  <2>2. n - k \in Int /\ k \in Nat BY <1>3
  <2>3. IF Job.admits = Job.length THEN Right' = Plus(Spent' + (n - k), Nothing(0))
        ELSE Right' = Plus(Spent' + ((n - k) + 2 + Walk(Job, op.requested, begun.near)), From[Origin])
    <3> HIDE DEF n, k
    <3> QED BY <1>1, <1>2, <1>3, <1>6, <2>1, <2>2, Running, Landed, AwaitsPaid
  <2>4. Owed'
    <3>1. CASE op.current = Job.length
      <4>1. Job.admits = Job.length /\ n - k = 0 BY <1>1, <1>3, <3>1, Running DEF Ahead
      <4> QED BY <1>6, <2>1, <2>3, <3>1, <4>1 DEF Owed, Owes
    <3>2. CASE op.current # Job.length
      <4>1. n - k = 2 * Ahead' + 1
        <5>1. Ahead' = Reads(Job, Job.admits) - (Reads(Job, op.current) + 1)
          BY <1>3, <1>6, <2>1, <3>2, Landed DEF Ahead
        <5> QED BY <1>3, <3>2, <5>1 DEF Ahead
      <4>2. Awaits(2 * Ahead + 1)'
        BY <1>6, <2>1, <2>3, <3>2, <4>1, Landed DEF Awaits, Owes
      <4> QED BY <2>1, <3>2, <4>2 DEF Owed
    <3> QED BY <3>1, <3>2
  <2>5. Placed'
    <3>1. op.current # Job.length => Looked(Job, After(Job, op.current))
      BY <1>1, <1>2, <1>3, Running DEF Looked
    <3> QED BY <1>1, <1>2, <1>6, <2>1, <3>1, Running, Landed DEF Placed, Before, Coming
  <2>6. Standing' BY <1>2, <2>1 DEF Standing
  <2>7. Lent' BY <1>1, <1>2, <1>6, <2>1, Running, Landed DEF Lent, Found
  <2> QED BY <1>6, <2>4, <2>5, <2>6, <2>7, Landed DEF IInv
<1> QED BY <1>6, <1>7, <1>8

LEMMA AdmitRangeStep ==
  ASSUME IInv, AdmitRange
  PROVE  IInv'
<1> DEFINE ends == op.current = After(Job, Job.admits)
           then == [op EXCEPT !.phase = IF ends THEN "Start" ELSE "AdmitClass"]
           n == 2 * Ahead + 1
<1>1. Runs({"AdmitRange"}) BY DEF AdmitRange
<1>2. /\ op.phase = "AdmitRange" /\ op.requested <= Job.length /\ ~op.started
      /\ op.near = begun.near /\ Looked(Job, op.current) /\ Awaits(n)
  BY <1>1, Running DEF Placed, Owed, Coming, Before
<1>3. /\ Job.admits \in 0 .. Job.length /\ Ahead \in Int /\ n \in Int
      /\ ends => Job.admits # Job.length /\ Ahead = -1
      /\ ~ends => op.current <= Job.admits /\ op.current \notin Job.inside /\ 0 <= Ahead
  <2>1. PICK c \in 0 .. Job.admits : c \notin Job.inside /\ op.current = After(Job, c)
    BY <1>2 DEF Looked
  <2>2. IsJob(Job) /\ op.current \in 0 .. Job.length BY <1>1, Running
  <2>3. Job.admits \in 0 .. Job.length /\ Job.admits \notin Job.inside /\ c \in 0 .. Job.length
    BY <1>1, <2>1, <2>2, Running DEF NoScan, IsJob
  <2>4. Reads(Job, Job.admits) \in Nat /\ Reads(Job, op.current) \in Nat BY <2>2, <2>3, ReadsFacts
  <2>5. CASE ends
    <3>1. Job.admits # Job.length
      <4>1. Job.admits < op.current BY <2>2, <2>3, <2>5, PairFacts
      <4> QED BY <2>2, <2>3, <4>1
    <3>2. Reads(Job, op.current) = Reads(Job, Job.admits) + 1
      BY <2>2, <2>3, <2>5, <3>1, ReadsFacts
    <3> QED BY <2>3, <2>4, <2>5, <3>1, <3>2 DEF Ahead
  <2>6. CASE ~ends
    <3>1. c < Job.admits BY <2>1, <2>3, <2>6
    <3>2. op.current <= Job.admits /\ op.current \notin Job.inside
      BY <2>1, <2>2, <2>3, <3>1, PairFacts
    <3>3. Reads(Job, op.current) <= Reads(Job, Job.admits) BY <2>2, <2>3, <3>2, ReadsFacts
    <3> QED BY <2>3, <2>4, <2>6, <3>2, <3>3 DEF Ahead
  <2> QED BY <2>5, <2>6
<1>4. then \in Operations(Job.length) /\ then.requested = op.requested
      /\ then.boolean = op.boolean /\ then.shape = op.shape
  BY <1>1, Running DEF Operations, Phases
<1>5. Spend(1, then) /\ Evaluator /\ registers' = registers
  BY <1>1, Running DEF AdmitRange, Quiet
<1>6. Lands /\ (GoesOn(1, then) \/ Stops(1))
  <2> HIDE DEF then
  <2> QED BY <1>1, <1>4, <1>5, Running, Charged
<1>7. CASE Stops(1)
  <2>1. 1 <= (IF Job.admits = Job.length THEN n ELSE n + 2) BY <1>3
  <2>2. PICK m \in Int, x \in Outcomes :
          (IF Job.admits = Job.length THEN n ELSE n + 2) <= m + x.work /\ Owes(m, x)
    BY <1>1, <1>2, <1>3, Running, AwaitsFacts
  <2>3. 1 <= m + x.work
    <3>1. x.work \in Nat BY DEF Outcomes
    <3> HIDE DEF n
    <3> QED BY <1>3, <2>1, <2>2, <3>1
  <2> QED BY <1>1, <1>2, <1>6, <1>7, <2>2, <2>3, Running, StopsShort
<1>8. CASE GoesOn(1, then)
  <2>1. /\ Spent' = Spent + 1 /\ op'.start = op.start /\ op'.started = op.started
        /\ op'.near = op.near /\ op'.blocked = op.blocked /\ op'.current = op.current
        /\ op'.phase = IF ends THEN "Start" ELSE "AdmitClass"
    BY <1>1, <1>8, Running DEF GoesOn, Operations
  <2>2. n - 1 \in Int BY <1>3
  <2>3. IF Job.admits = Job.length THEN Right' = Plus(Spent' + (n - 1), Nothing(0))
        ELSE Right' = Plus(Spent' + ((n - 1) + 2 + Walk(Job, op.requested, begun.near)), From[Origin])
    <3> HIDE DEF n
    <3> QED BY <1>1, <1>2, <1>3, <1>6, <2>1, <2>2, Running, Landed, AwaitsPaid
  <2>4. Owed'
    <3> DEFINE w == Walk(Job, op.requested, begun.near)
    <3>1. CASE ends
      <4>1. Job.admits # Job.length /\ n - 1 = -2 BY <1>3, <3>1
      <4>2. w \in Nat
        <5>1. op.requested \in 0 .. Job.length BY <1>1, <1>2, Running
        <5> QED BY <1>1, <5>1, WalkFacts, Running
      <4>3. (n - 1) + 2 + w = w
        <5> HIDE DEF w, n
        <5> QED BY <4>1, <4>2
      <4>4. Owes(Walk(Job, op.requested, begun.near), From[Origin])'
        BY <1>6, <2>3, <4>1, <4>3, Landed DEF Owes
      <4> QED BY <2>1, <3>1, <4>4 DEF Owed
    <3>2. CASE ~ends
      <4>1. n - 1 = 2 * Ahead /\ Ahead' = Ahead BY <1>3, <1>6, <2>1, Landed DEF Ahead
      <4>2. Awaits(2 * Ahead)'
        BY <1>6, <2>1, <2>3, <4>1, Landed DEF Awaits, Owes
      <4> QED BY <2>1, <3>2, <4>2 DEF Owed
    <3> QED BY <3>1, <3>2
  <2>5. Placed'
    <3>1. ~ends => op.current <= Job.admits /\ op.current \notin Job.inside BY <1>3
    <3>2. ends => Job.admits # Job.length BY <1>3
    <3> HIDE DEF ends
    <3> QED BY <1>1, <1>2, <1>6, <2>1, <3>1, <3>2, Running, Landed DEF Placed, Before, Coming
  <2>6. Standing' BY <1>2, <2>1 DEF Standing
  <2>7. Lent' BY <1>1, <1>2, <1>6, <2>1, Running, Landed DEF Lent, Found
  <2> QED BY <1>6, <2>4, <2>5, <2>6, <2>7, Landed DEF IInv
<1> QED BY <1>6, <1>7, <1>8

------------------------------------------------------------------------------
(* The walk to the requested start, and what a start begins with.          *)
LEMMA Arrives ==
  ASSUME IInv, Lands, op.phase # "Matched", NEW at \in 0 .. Job.length, at \notin Job.inside,
         op'.phase = (IF Job.scans THEN "Candidate" ELSE "Trial"),
         op'.start = at, op'.current = at, op'.done = 0, ~op'.blocked,
         Job.sticky => at = Origin, Right' = Plus(Spent', From[at])
  PROVE  IInv'
<1>1. /\ TypeOK' /\ Job' = Job /\ From' = From /\ op'.boolean = op.boolean
      /\ op'.requested = op.requested /\ layout' = op'.shape /\ read' = read
      /\ Right' = Right /\ Origin' = Origin
  BY Landed
<1>2. IsJob(Job) /\ op.boolean \in BOOLEAN /\ Job.scans \in BOOLEAN /\ Job.trial[at].work \in Nat \ {0}
  BY JobFacts DEF IInv, Trials
<1>3. From[at] = Come(Job, op.boolean, at, From[at + 1]) BY <1>2, FromStartIs DEF From
<1>4. Spent' \in Int BY Landed
<1>5. Owed'
  <2>1. CASE Job.scans
    <3>1. Spent' + 0 = Spent'
      <4>1. \A z \in Int : z + 0 = z OBVIOUS
      <4> QED BY <1>4, <4>1, Zenon
    <3>2. Owes(0, From[op.current])' BY <1>1, <3>1 DEF Owes
    <3> QED BY <2>1, <3>2 DEF Owed
  <2>2. CASE ~Job.scans
    <3>1. From[at] = Tried(Job, op.boolean, at, From[at + 1]) BY <1>3, <2>2 DEF Come
    <3>2. Now' = From[at] BY <1>1, <3>1 DEF Now
    <3>3. Spent' + (0 - op'.done) = Spent'
      <4>1. \A z \in Int : z + (0 - 0) = z OBVIOUS
      <4> QED BY <1>4, <4>1, Zenon
    <3>4. Owes(0 - op.done, Now)' BY <1>1, <3>2, <3>3 DEF Owes
    <3> QED BY <2>2, <3>4 DEF Owed
  <2> QED BY <2>1, <2>2
<1>6. Placed' BY <1>1, <1>2 DEF Placed, Before, Coming
<1>7. Standing'
  <2>1. From[at].end = Right'.end /\ From[at].at = Right'.at BY DEF Plus, Outcome
  <2> QED BY <1>1, <2>1 DEF Standing
<1>8. Lent' BY <1>1 DEF Lent, Found, IInv
<1> QED BY <1>1, <1>5, <1>6, <1>7, <1>8 DEF IInv

(* The end nearer to a position is the one on its side of the middle.      *)
LEMMA NearerEnd ==
  ASSUME NEW L \in Nat, NEW at \in 0 .. L
  PROVE  /\ at <= L \div 2 => at <= L - at /\ Distance(0, at) = at
         /\ ~(at <= L \div 2) => ~(at < L - at) /\ Distance(L, at) = L - at
<1>1. L = 2 * (L \div 2) + (L % 2) /\ L % 2 \in {0, 1} /\ L \div 2 \in Nat OBVIOUS
<1>2. Distance(0, at) = at /\ Distance(L, at) = L - at BY DEF Distance
<1> QED BY <1>1, <1>2

LEMMA StartStep ==
  ASSUME IInv, Start
  PROVE  IInv'
<1> DEFINE at == op.requested
           work == SeekWork(Job, at)
           walk == Walk(Job, at, begun.near)
           x == From[Origin]
<1>1. Runs({"Start"}) BY DEF Start
<1>2. /\ op.phase = "Start" /\ at <= Job.length /\ ~op.started /\ op.near = begun.near
      /\ Owes(walk, x)
  BY <1>1, Running DEF Placed, Owed, Coming, Before
<1>3. /\ at \in 0 .. Job.length /\ x \in Outcomes /\ x.work \in Nat
      /\ Origin \in 0 .. Job.length /\ Origin \notin Job.inside /\ Aligned(Job, at) = Origin
  <2>1. at \in 0 .. Job.length BY <1>1, <1>2, Running
  <2>2. Origin \in 0 .. Job.length /\ Origin \notin Job.inside
    BY <1>1, <2>1, Running, PairFacts DEF Origin
  <2>3. x \in Outcomes BY <1>1, <2>2, Running, FromStartType DEF From
  <2> QED BY <2>1, <2>2, <2>3 DEF Outcomes, Origin
<1>4. /\ work \in Nat \ {0} /\ walk \in Nat \ {0} /\ walk <= work
      /\ ~Job.indexed => work = 1 + (IF at <= Job.length - at THEN at ELSE Job.length - at)
      /\ walk = IF Nearer(op.near, at, work) THEN Distance(op.near, at) + 1 ELSE work
  BY <1>1, <1>2, <1>3, Running, WalkFacts
<1>5. Evaluator /\ registers' = registers BY DEF Start, Quiet
<1>6. ASSUME NEW cur \in 0 .. Job.length, Distance(cur, at) = walk - 1,
             Spend(1, [op EXCEPT !.near = NONE, !.current = cur, !.phase = "Seek"])
      PROVE  IInv'
  <2> DEFINE then == [op EXCEPT !.near = NONE, !.current = cur, !.phase = "Seek"]
  <2>1. then \in Operations(Job.length) /\ then.requested = op.requested
        /\ then.boolean = op.boolean /\ then.shape = op.shape
    BY <1>1, Running DEF Operations, Phases
  <2>2. Lands /\ (GoesOn(1, then) \/ Stops(1))
    <3>1. Spend(1, then) BY <1>6
    <3> HIDE DEF then
    <3> QED BY <1>1, <1>5, <2>1, <3>1, Running, Charged
  <2>3. CASE Stops(1)
    <3>1. walk \in Int /\ 1 <= walk + x.work
      <4> HIDE DEF walk, x
      <4> QED BY <1>3, <1>4
    <3> HIDE DEF walk, x
    <3> QED BY <1>1, <1>2, <1>3, <2>2, <2>3, <3>1, Running, StopsShort
  <2>4. CASE GoesOn(1, then)
    <3>1. /\ Spent' = Spent + 1 /\ op'.phase = "Seek" /\ op'.current = cur
          /\ op'.started = op.started /\ op'.blocked = op.blocked
      BY <1>1, <2>4, Running DEF GoesOn, Operations
    <3>2. Right' = Plus(Spent' + (walk - 1), x)
      <4> HIDE DEF walk, x
      <4> QED BY <1>1, <1>2, <1>4, <2>2, <3>1, Running, Landed, PaysOff
    <3>3. Owes(Distance(op.current, op.requested), From[Origin])'
      BY <1>6, <2>2, <3>1, <3>2, Landed DEF Owes
    <3>4. Owed' BY <3>1, <3>3 DEF Owed
    <3>5. Placed' BY <1>1, <1>2, <2>2, <3>1, Running, Landed DEF Placed, Before, Coming
    <3>6. Standing' BY <1>2, <3>1 DEF Standing
    <3>7. Lent' BY <1>1, <1>2, <2>2, <3>1, Running, Landed DEF Lent, Found
    <3> QED BY <2>2, <3>4, <3>5, <3>6, <3>7, Landed DEF IInv
  <2> QED BY <2>2, <2>3, <2>4
<1>7. ASSUME walk = work, Spend(work, Sought([op EXCEPT !.near = NONE], at))
      PROVE  IInv'
  <2> DEFINE then == Sought([op EXCEPT !.near = NONE], at)
  <2>1. then \in Operations(Job.length) /\ then.requested = op.requested
        /\ then.boolean = op.boolean /\ then.shape = op.shape
    BY <1>1, <1>3, Running DEF Operations, Phases, Sought, AtStart
  <2>2. Lands /\ (GoesOn(work, then) \/ Stops(work))
    <3>1. Spend(work, then) BY <1>7
    <3> HIDE DEF then, work
    <3> QED BY <1>1, <1>4, <1>5, <2>1, <3>1, Running, Charged
  <2>3. CASE Stops(work)
    <3>1. walk \in Int /\ work <= walk + x.work
      <4> HIDE DEF walk, x, work
      <4> QED BY <1>3, <1>4, <1>7
    <3> HIDE DEF walk, x, work
    <3> QED BY <1>1, <1>2, <1>3, <1>4, <2>2, <2>3, <3>1, Running, StopsShort
  <2>4. CASE GoesOn(work, then)
    <3>1. /\ Spent' = Spent + work /\ op'.start = Origin /\ op'.current = Origin /\ op'.done = 0
          /\ op'.phase = (IF Job.scans THEN "Candidate" ELSE "Trial") /\ op'.blocked = op.blocked
      BY <1>1, <1>3, <2>4, Running DEF GoesOn, Operations, Sought, AtStart
    <3>2. Right' = Plus(Spent' + (walk - work), x)
      <4> HIDE DEF walk, x, work
      <4> QED BY <1>1, <1>2, <1>4, <2>2, <3>1, Running, Landed, PaysOff
    <3>3. Spent' + (walk - work) = Spent'
      <4> HIDE DEF walk, work
      <4> QED BY <1>1, <1>4, <1>7, <3>1, Running
    <3> QED BY <1>1, <1>2, <1>3, <2>2, <3>1, <3>2, <3>3, Running, Arrives
  <2> QED BY <2>2, <2>3, <2>4
<1>8. CASE Nearer(op.near, at, work)
  <2>1. op.near \in 0 .. Job.length BY <1>1, <1>8, Running DEF Nearer
  <2>2. Distance(op.near, at) \in Nat BY <1>3, <2>1 DEF Distance
  <2>3. Distance(op.near, at) = walk - 1
    <3> HIDE DEF walk, work
    <3> QED BY <1>4, <1>8, <2>2
  <2>4. [[op EXCEPT !.near = NONE] EXCEPT !.current = op.near, !.phase = "Seek"]
          = [op EXCEPT !.near = NONE, !.current = op.near, !.phase = "Seek"]
    BY <1>1, Running DEF Operations
  <2>5. Spend(1, [op EXCEPT !.near = NONE, !.current = op.near, !.phase = "Seek"])
    BY <1>1, <1>8, <2>4, Running DEF Start
  <2> QED BY <1>6, <2>1, <2>3, <2>5
<1>9. CASE ~Nearer(op.near, at, work) /\ (work = 1 \/ work <= call.window)
  <2>1. Spend(work, Sought([op EXCEPT !.near = NONE], at)) BY <1>1, <1>9, Running DEF Start
  <2>2. walk = work BY <1>4, <1>9
  <2> QED BY <1>7, <2>1, <2>2
<1>10. CASE ~Nearer(op.near, at, work) /\ ~(work = 1 \/ work <= call.window)
  <2> DEFINE cur == IF at <= Job.length \div 2 THEN 0 ELSE Job.length
  <2>1. ~Job.indexed BY <1>10 DEF SeekWork
  <2>2. cur \in 0 .. Job.length BY <1>1, Running
  <2>3. Distance(cur, at) = walk - 1
    <3>1. walk = 1 + (IF at <= Job.length - at THEN at ELSE Job.length - at) BY <1>4, <1>10, <2>1
    <3>2. /\ at <= Job.length \div 2 => at <= Job.length - at /\ Distance(0, at) = at
          /\ ~(at <= Job.length \div 2) =>
               ~(at < Job.length - at) /\ Distance(Job.length, at) = Job.length - at
      BY <1>1, <1>3, Running, NearerEnd
    <3> HIDE DEF walk
    <3> QED BY <1>1, <1>3, <3>1, <3>2, Running
  <2>4. [[op EXCEPT !.near = NONE] EXCEPT !.current = cur, !.phase = "Seek"]
          = [op EXCEPT !.near = NONE, !.current = cur, !.phase = "Seek"]
    BY <1>1, Running DEF Operations
  <2>5. Spend(1, [op EXCEPT !.near = NONE, !.current = cur, !.phase = "Seek"])
    BY <1>1, <1>10, <2>4, Running DEF Start
  <2> QED BY <1>6, <2>2, <2>3, <2>5
<1> QED BY <1>8, <1>9, <1>10

LEMMA SeekStep ==
  ASSUME IInv, Seek
  PROVE  IInv'
<1> DEFINE at == op.requested
           next == IF op.current < at THEN op.current + 1 ELSE op.current - 1
           d == Distance(op.current, at)
           k == IF op.current = at THEN 0 ELSE 1
           then == IF op.current = at \/ next = at THEN Sought(op, at)
                   ELSE [op EXCEPT !.current = next]
           x == From[Origin]
<1>1. Runs({"Seek"}) BY DEF Seek
<1>2. op.phase = "Seek" /\ at <= Job.length /\ ~op.started /\ Owes(d, x)
  BY <1>1, Running DEF Placed, Owed, Coming
<1>3. /\ at \in 0 .. Job.length /\ x \in Outcomes /\ x.work \in Nat
      /\ Origin \in 0 .. Job.length /\ Origin \notin Job.inside /\ Aligned(Job, at) = Origin
  <2>1. at \in 0 .. Job.length BY <1>1, <1>2, Running
  <2>2. Origin \in 0 .. Job.length /\ Origin \notin Job.inside
    BY <1>1, <2>1, Running, PairFacts DEF Origin
  <2>3. x \in Outcomes BY <1>1, <2>2, Running, FromStartType DEF From
  <2> QED BY <2>1, <2>2, <2>3 DEF Outcomes, Origin
<1>4. /\ d \in Nat /\ k \in Nat /\ k <= d /\ (op.current = at \/ next = at => d = k)
      /\ op.current # at => next \in 0 .. Job.length /\ Distance(next, at) = d - k
  BY <1>1, <1>3, Running DEF Distance
<1>5. then \in Operations(Job.length) /\ then.requested = op.requested
      /\ then.boolean = op.boolean /\ then.shape = op.shape
  <2>1. CASE op.current = at \/ next = at
    BY <1>1, <1>3, <2>1, Running DEF Operations, Phases, Sought, AtStart
  <2>2. CASE ~(op.current = at \/ next = at)
    <3> HIDE DEF next
    <3> QED BY <1>1, <1>4, <2>2, Running DEF Operations
  <2> QED BY <2>1, <2>2
<1>6. Spend(k, then) /\ Evaluator /\ registers' = registers
  BY <1>1, Running DEF Seek, Quiet
<1>7. Lands /\ (GoesOn(k, then) \/ Stops(k))
  <2> HIDE DEF then, k
  <2> QED BY <1>1, <1>4, <1>5, <1>6, Running, Charged
<1>8. CASE Stops(k)
  <2>1. d \in Int /\ k <= d + x.work
    <3> HIDE DEF d, k, x
    <3> QED BY <1>3, <1>4
  <2> HIDE DEF d, k, x
  <2> QED BY <1>1, <1>2, <1>3, <1>4, <1>7, <1>8, <2>1, Running, StopsShort
<1>9. CASE GoesOn(k, then)
  <2>1. Spent' = Spent + k BY <1>9 DEF GoesOn
  <2>2. Right' = Plus(Spent' + (d - k), x)
    <3> HIDE DEF d, k, x
    <3> QED BY <1>1, <1>2, <1>4, <1>7, <2>1, Running, Landed, PaysOff
  <2>3. CASE op.current = at \/ next = at
    <3>1. /\ op'.start = Origin /\ op'.current = Origin /\ op'.done = 0
          /\ op'.phase = (IF Job.scans THEN "Candidate" ELSE "Trial") /\ op'.blocked = op.blocked
      BY <1>1, <1>3, <1>9, <2>3, Running DEF GoesOn, Operations, Sought, AtStart
    <3>2. Spent' + (d - k) = Spent'
      <4>1. d - k = 0 BY <1>4, <2>3
      <4>2. \A z \in Int : z + 0 = z OBVIOUS
      <4>3. Spent' \in Int BY <1>7, Landed
      <4> HIDE DEF d, k
      <4> QED BY <4>1, <4>2, <4>3, Zenon
    <3> QED BY <1>1, <1>2, <1>3, <1>7, <2>2, <3>1, <3>2, Running, Arrives
  <2>4. CASE ~(op.current = at \/ next = at)
    <3>1. /\ op'.phase = "Seek" /\ op'.current = next
          /\ op'.started = op.started /\ op'.blocked = op.blocked
      <4> HIDE DEF next
      <4> QED BY <1>1, <1>2, <1>9, <2>4, Running DEF GoesOn, Operations
    <3>2. Owes(Distance(op.current, op.requested), From[Origin])'
      <4> HIDE DEF next, d, k
      <4> QED BY <1>4, <1>7, <2>2, <2>4, <3>1, Landed DEF Owes
    <3>3. Owed' BY <3>1, <3>2 DEF Owed
    <3>4. Placed' BY <1>1, <1>2, <1>7, <3>1, Running, Landed DEF Placed, Before, Coming
    <3>5. Standing' BY <1>2, <3>1 DEF Standing
    <3>6. Lent' BY <1>1, <1>2, <1>7, <3>1, Running, Landed DEF Lent, Found
    <3> QED BY <1>7, <3>3, <3>4, <3>5, <3>6, Landed DEF IInv
  <2> QED BY <2>3, <2>4
<1> QED BY <1>7, <1>8, <1>9

------------------------------------------------------------------------------
(* The trials: what each step of them costs is part of what is owed.       *)
LEMMA Regroup ==
  ASSUME TypeOK, NEW n \in Int, NEW m \in Int, NEW x \in Outcomes, Owes(n, Plus(m, x))
  PROVE  Owes(n + m, x)
<1>1. Spent \in Int /\ x.work \in Nat BY JobFacts DEF Outcomes
<1>2. (Spent + n) + (m + x.work) = (Spent + (n + m)) + x.work BY <1>1
<1> QED BY <1>2 DEF Owes, Plus, Outcome

(* The outcomes from a start and after a failure there.                    *)
LEMMA StartOutcomes ==
  ASSUME NEW job, IsJob(job), NEW boolean \in BOOLEAN, NEW s \in 0 .. job.length
  PROVE  LET rest == FromStart(job, boolean)[s + 1] IN
         /\ s # job.length => rest \in Outcomes
         /\ Failing(job, s, rest) \in Outcomes
         /\ ~job.sticky => Failing(job, s, rest).work >= 1
         /\ Tried(job, boolean, s, rest) \in Outcomes
         /\ Tried(job, boolean, s, rest).work >= job.trial[s].work
         /\ FromStart(job, boolean)[s] = Come(job, boolean, s, rest)
         /\ FromStart(job, boolean)[s] \in Outcomes
         /\ job.scans /\ s \notin job.inside => FromStart(job, boolean)[s].work >= 1
<1> DEFINE rest == FromStart(job, boolean)[s + 1]
<1>1. s # job.length => rest \in Outcomes
  <2>1. job.length \in Nat BY DEF IsJob
  <2>2. s # job.length => s + 1 \in 0 .. job.length BY <2>1
  <2> QED BY <2>2, FromStartType
<1>2. FromStart(job, boolean)[s] = Come(job, boolean, s, rest) BY FromStartIs
<1> HIDE DEF rest
<1>3. /\ Failing(job, s, rest) \in Outcomes
      /\ ~job.sticky => Failing(job, s, rest).work >= 1
      /\ Tried(job, boolean, s, rest) \in Outcomes
      /\ Tried(job, boolean, s, rest).work >= job.trial[s].work
      /\ Come(job, boolean, s, rest) \in Outcomes
      /\ job.scans /\ s \notin job.inside => Come(job, boolean, s, rest).work >= 1
  BY <1>1, ComeType
<1> USE DEF rest
<1> QED BY <1>1, <1>2, <1>3

LEMMA CandidateStep ==
  ASSUME IInv, Candidate
  PROVE  IInv'
<1> DEFINE at == op.current
           here == at < Job.length /\ at \in Job.viable
           last == Job.sticky \/ at + 1 >= Job.length
           then == IF here THEN [op EXCEPT !.start = at, !.phase = "Trial"]
                   ELSE IF last THEN [op EXCEPT !.phase = "NoMatch"]
                   ELSE [op EXCEPT !.current = @ + 1]
           x == From[at]
           rest == From[at + 1]
<1>1. Runs({"Candidate"}) BY DEF Candidate
<1>2. op.phase = "Candidate" /\ Job.scans /\ op.done = 0 /\ at \notin Job.inside /\ Owes(0, x)
  BY <1>1, Running DEF Placed, Owed
<1>3. /\ at \in 0 .. Job.length /\ x \in Outcomes /\ x.work \in Nat /\ x.work >= 1
      /\ x = Come(Job, op.boolean, at, rest) /\ (at # Job.length => rest \in Outcomes)
      /\ Tried(Job, op.boolean, at, rest) \in Outcomes /\ Job.trial[at].work \in Nat \ {0}
  <2>1. at \in 0 .. Job.length BY <1>1, Running
  <2>2. Job.trial[at].work \in Nat \ {0} BY <1>1, <2>1, Running DEF IsJob, Trials
  <2>3. x \in Outcomes => x.work \in Nat BY DEF Outcomes
  <2> QED BY <1>1, <1>2, <2>1, <2>2, <2>3, Running, StartOutcomes DEF From
<1>4. then \in Operations(Job.length) /\ then.requested = op.requested
      /\ then.boolean = op.boolean /\ then.shape = op.shape
  <2>1. ~last => at + 1 \in 0 .. Job.length BY <1>1, <1>3, Running
  <2> HIDE DEF here, last
  <2> QED BY <1>1, <2>1, Running DEF Operations, Phases
<1>5. Spend(1, then) /\ Evaluator /\ registers' = registers
  BY <1>1, Running DEF Candidate, Quiet
<1>6. Lands /\ (GoesOn(1, then) \/ Stops(1))
  <2> HIDE DEF then
  <2> QED BY <1>1, <1>4, <1>5, Running, Charged
<1>7. CASE Stops(1)
  <2>1. PICK n \in Int : n = 0 OBVIOUS
  <2>2. Owes(n, x) /\ 1 <= n + x.work BY <1>2, <1>3, <2>1
  <2> HIDE DEF x
  <2> QED BY <1>1, <1>2, <1>3, <1>6, <1>7, <2>2, Running, StopsShort
<1>8. CASE GoesOn(1, then)
  <2>1. /\ Spent' = Spent + 1 /\ op'.started = op.started /\ op'.blocked = op.blocked
        /\ op'.done = 0 /\ op'.start = (IF here THEN at ELSE op.start)
        /\ op'.phase = IF here THEN "Trial" ELSE IF last THEN "NoMatch" ELSE "Candidate"
        /\ op'.current = IF here \/ last THEN at ELSE at + 1
    <3> HIDE DEF here, last
    <3> QED BY <1>1, <1>2, <1>8, Running DEF GoesOn, Operations
  <2>2. ASSUME NEW y \in Outcomes, x = Plus(1, y) PROVE Right' = Plus(Spent' + 0, y)
    <3>1. Owes(0 + 1, y) BY <1>1, <1>2, <2>2, Running, Regroup
    <3>2. PICK n \in Int : n = 0 + 1 OBVIOUS
    <3>3. Owes(n, y) /\ TypeOK /\ Stays BY <1>1, <1>6, <3>1, <3>2, Running, Landed
    <3>4. Right' = Plus(Spent' + (n - 1), y) BY <2>1, <3>3, PaysOff
    <3>5. n - 1 = 0 BY <3>2
    <3> QED BY <3>4, <3>5
  <2>3. Owed'
    <3>1. CASE here
      <4>1. x = Plus(1, Tried(Job, op.boolean, at, rest)) BY <1>2, <1>3, <3>1 DEF Come
      <4>2. Now' = Tried(Job, op.boolean, at, rest) BY <1>6, <2>1, <3>1, Landed DEF Now
      <4>3. Right' = Plus(Spent' + 0, Tried(Job, op.boolean, at, rest)) BY <1>3, <2>2, <4>1
      <4>4. 0 - op'.done = 0 BY <2>1
      <4>5. Owes(0 - op.done, Now)' BY <2>1, <4>2, <4>3, <4>4 DEF Owes
      <4> QED BY <2>1, <3>1, <4>5 DEF Owed
    <3>2. CASE ~here /\ last
      <4>1. x = Nothing(1) BY <1>2, <1>3, <3>2 DEF Come
      <4>2. Nothing(1) = Plus(1, Nothing(0)) /\ Nothing(0) \in Outcomes
        BY DEF Nothing, Plus, Outcome, Outcomes, Ends
      <4>3. Owes(0, Nothing(0))' BY <2>2, <4>1, <4>2 DEF Owes
      <4> QED BY <2>1, <3>2, <4>3 DEF Owed
    <3>3. CASE ~here /\ ~last
      <4>1. x = Plus(1, rest) BY <1>2, <1>3, <3>3 DEF Come
      <4>2. at # Job.length BY <1>1, <1>3, <3>3, Running
      <4>3. Right' = Plus(Spent' + 0, rest) BY <1>3, <2>2, <4>1, <4>2
      <4>4. Owes(0, From[op.current])' BY <1>6, <2>1, <3>3, <4>3, Landed DEF Owes
      <4> QED BY <2>1, <3>3, <4>4 DEF Owed
    <3> QED BY <3>1, <3>2, <3>3
  <2>4. Placed'
    <3>1. here => 0 < Job.trial[at].work BY <1>3
    <3>2. ~here /\ ~last => at + 1 \notin Job.inside
      <4>1. at \in Nat /\ (at + 1) - 1 = at BY <1>1, <1>3, Running
      <4>2. at + 1 \in Job.inside => (at + 1) - 1 \in Job.viable BY <1>1, <1>2, Running DEF IsJob
      <4> QED BY <1>1, <4>1, <4>2, Running
    <3> HIDE DEF here, last
    <3> QED BY <1>1, <1>2, <1>6, <2>1, <3>1, <3>2, Running, Landed DEF Placed, Before, Coming
  <2>5. Standing'
    <3>1. Job.sticky => last OBVIOUS
    <3>2. x.end = Right.end /\ x.at = Right.at BY <1>2 DEF Owes, Plus, Outcome
    <3> HIDE DEF here, last
    <3> QED BY <1>1, <1>2, <1>6, <2>1, <3>1, <3>2, Running, Landed DEF Standing
  <2>6. Lent' BY <1>1, <1>2, <1>6, <2>1, Running, Landed DEF Lent, Found
  <2> QED BY <1>6, <2>3, <2>4, <2>5, <2>6, Landed DEF IInv
<1> QED BY <1>6, <1>7, <1>8

(* A trial's last instruction: the search has failed here, or has its end. *)
LEMMA Concludes ==
  ASSUME IInv, op.phase \in {"Trial", "Execute"}, Lands, NEW k \in Nat,
         op.done + k = Job.trial[op.start].work, Spent' = Spent + k,
         op'.start = op.start, op'.started = op.started, ~op'.blocked,
         Job.trial[op.start].end = Fails => op'.phase = "NextStart",
         Job.trial[op.start].end # Fails =>
           /\ op'.phase = IF op.boolean THEN "Matched" ELSE "Validate"
           /\ op'.current = Job.trial[op.start].end
           /\ registers' = <<op.start, op'.current>>
  PROVE  IInv'
<1> DEFINE trial == Job.trial[op.start]
           rest == From[op.start + 1]
           now == Tried(Job, op.boolean, op.start, rest)
           n == 0 - op.done
<1>1. TypeOK /\ Placed /\ Owed /\ Standing /\ Lent BY DEF IInv
<1>2. /\ op.start \in 0 .. Job.length /\ IsJob(Job) /\ op.boolean \in BOOLEAN /\ op.done \in Nat
      /\ trial \in Trials(Job.length) /\ Failing(Job, op.start, rest) \in Outcomes
      /\ now \in Outcomes
  <2>1. op.start \in 0 .. Job.length /\ op.done \in Nat BY <1>1 DEF TypeOK, Operations
  <2> QED BY <1>1, <2>1, JobFacts, StartOutcomes DEF From
<1>3. n \in Int /\ trial.work \in Nat /\ n + trial.work = k /\ Owes(n, now)
  <2>1. Owes(n, now) BY <1>1 DEF Owed, Now
  <2>2. trial.work \in Nat BY <1>2 DEF Trials
  <2>3. n \in Int /\ n + trial.work = k
    <3> HIDE DEF trial
    <3> QED BY <1>2, <2>2 DEF trial
  <2> QED BY <2>1, <2>2, <2>3
<1>4. ASSUME NEW m \in Nat, NEW y \in Outcomes, Owes(k + m, y) PROVE Right' = Plus(Spent' + m, y)
  <2>1. PICK z \in Int : z = k + m OBVIOUS
  <2>2. Owes(z, y) /\ TypeOK /\ Stays BY <1>1, <1>4, <2>1, Landed
  <2>3. Right' = Plus(Spent' + (z - k), y) BY <2>2, PaysOff
  <2>4. z - k = m BY <2>1
  <2> QED BY <2>3, <2>4
<1> HIDE DEF n
<1>5. CASE trial.end = Fails
  <2>1. now = Plus(trial.work, Failing(Job, op.start, rest)) BY <1>5 DEF Tried
  <2>2. Owes(n + trial.work, Failing(Job, op.start, rest))
    <3> HIDE DEF now, trial, rest
    <3> QED BY <1>1, <1>2, <1>3, <2>1, Regroup
  <2>3. k + 0 = n + trial.work BY <1>3
  <2>4. Right' = Plus(Spent' + 0, Failing(Job, op.start, rest))
    <3> HIDE DEF trial, rest
    <3>1. Owes(k + 0, Failing(Job, op.start, rest)) BY <2>2, <2>3, Zenon
    <3>2. PICK z \in Nat : z = 0 OBVIOUS
    <3> QED BY <1>2, <1>4, <3>1, <3>2
  <2>5. Owes(0, Failing(Job, op.start, From[op.start + 1]))' BY <2>4, Landed DEF Owes
  <2>6. Owed' BY <1>5, <2>5 DEF Owed
  <2>7. Placed' BY <1>5, Landed DEF Placed, Before, Coming, Lands
  <2>8. Standing' BY <1>1, <1>5, Landed DEF Standing
  <2>9. Lent' BY <1>1, <1>5, Landed DEF Lent, Found
  <2> QED BY <2>6, <2>7, <2>8, <2>9, Landed DEF IInv
<1>6. CASE trial.end # Fails
  <2> DEFINE more == IF op.boolean THEN 0 ELSE 2
             y == Outcome(0, trial.end, op.start)
  <2>1. trial.end \in Ends /\ op.start \in Ends /\ trial.end \in Nat
    BY <1>2, <1>6 DEF Trials, Ends
  <2>2. y \in Outcomes BY <2>1 DEF Outcome, Outcomes
  <2>3. now = Plus(trial.work + more, y)
    <3>1. trial.work + more \in Int /\ (trial.work + more) + 0 = trial.work + more BY <1>3
    <3>2. now = Outcome(trial.work + more, trial.end, op.start) BY <1>6 DEF Tried
    <3> HIDE DEF more, trial
    <3>3. Plus(trial.work + more, y) = Outcome((trial.work + more) + 0, trial.end, op.start)
      BY DEF Plus, Outcome
    <3> QED BY <3>1, <3>2, <3>3
  <2>4. Right' = Plus(Spent' + more, y)
    <3> HIDE DEF y, trial, now
    <3>1. more \in Nat OBVIOUS
    <3> HIDE DEF more
    <3>2. Owes(n + (trial.work + more), y) BY <1>1, <1>3, <2>2, <2>3, <3>1, Regroup
    <3>3. n + (trial.work + more) = k + more BY <1>3, <3>1
    <3> QED BY <1>4, <2>2, <3>1, <3>2, <3>3
  <2>5. Owed'
    <3>1. CASE op.boolean
      <4>1. Owes(0, Outcome(0, op.current, op.start))' BY <1>6, <2>4, <3>1 DEF Owes
      <4> QED BY <1>6, <3>1, <4>1 DEF Owed
    <3>2. CASE ~op.boolean
      <4>1. Owes(2, Outcome(0, op.current, op.start))' BY <1>6, <2>4, <3>2 DEF Owes
      <4> QED BY <1>6, <3>2, <4>1 DEF Owed
    <3> QED BY <3>1, <3>2
  <2>6. Placed' BY <1>6, Landed DEF Placed, Before, Coming, Lands
  <2>7. Standing' BY <1>1, <1>6, Landed DEF Standing
  <2>8. Lent' BY <1>1, <1>6, Landed DEF Lent, Found
  <2> QED BY <2>5, <2>6, <2>7, <2>8, Landed DEF IInv
<1> QED BY <1>5, <1>6

LEMMA TrialStep ==
  ASSUME IInv, Trial
  PROVE  IInv'
<1> DEFINE trial == Job.trial[op.start]
           last == op.done + 1 = trial.work
           o == [op EXCEPT !.done = @ + 1]
           then == IF ~last THEN [o EXCEPT !.current = Min({@ + 1, Job.length})]
                   ELSE IF Refused THEN [o EXCEPT !.phase = "Execute", !.blocked = TRUE]
                   ELSE Conclude(o)
<1>1. Runs({"Trial"}) BY DEF Trial
<1>2. /\ op.phase = "Trial" /\ op.done < trial.work /\ Owes(0 - op.done, Now)
  BY <1>1, Running DEF Placed, Owed
<1>3. /\ trial \in Trials(Job.length) /\ trial.work \in Nat \ {0}
      /\ trial.end \in {Fails} \cup 0 .. Job.length
  BY <1>1, Running DEF IsJob, Trials
<1>4. Now \in Outcomes /\ Now.work \in Nat /\ Now.work >= trial.work
  <2>1. Now \in Outcomes /\ Now.work >= trial.work
    BY <1>1, Running, StartOutcomes DEF Now, From
  <2> QED BY <2>1 DEF Outcomes
<1>5. then \in Operations(Job.length) /\ then.requested = op.requested
      /\ then.boolean = op.boolean /\ then.shape = op.shape
  <2>1. o \in Operations(Job.length) /\ o.start = op.start /\ o.requested = op.requested
        /\ o.boolean = op.boolean /\ o.shape = op.shape /\ o.current = op.current
    BY <1>1, Running DEF Operations
  <2>2. Min({o.current + 1, Job.length}) \in 0 .. Job.length
    <3>1. op.current + 1 \in Int /\ Job.length \in Int BY <1>1, Running
    <3>2. Min({op.current + 1, Job.length}) =
            IF op.current + 1 <= Job.length THEN op.current + 1 ELSE Job.length
      BY <3>1, MinFacts
    <3> QED BY <1>1, <2>1, <3>2, Running
  <2> HIDE DEF o
  <2>3. CASE ~last BY <2>1, <2>2, <2>3 DEF Operations
  <2>4. CASE last /\ Refused BY <2>1, <2>4 DEF Operations, Phases
  <2>5. CASE last /\ ~Refused
    <3>1. then = IF trial.end = Fails THEN [o EXCEPT !.phase = "NextStart", !.frames = 0]
                 ELSE [o EXCEPT !.current = trial.end, !.frames = IF trial.push THEN 1 ELSE 0,
                                !.phase = IF op.boolean THEN "Matched" ELSE "Validate"]
      BY <1>1, <2>1, <2>5, Running DEF Conclude
    <3> HIDE DEF then, trial
    <3>2. CASE trial.end = Fails BY <2>1, <3>1, <3>2 DEF Operations, Phases
    <3>3. CASE trial.end # Fails
      <4>1. trial.end \in 0 .. Job.length BY <1>3, <3>3
      <4> QED BY <2>1, <3>1, <3>3, <4>1 DEF Operations, Phases
    <3> QED BY <3>2, <3>3
  <2> QED BY <2>3, <2>4, <2>5
<1>6. Spend(1, then) /\ Evaluator
  BY <1>1, Running DEF Trial
<1>7. registers' = IF op.budget = 0 THEN registers
                   ELSE IF last /\ ~Refused THEN Written
                   ELSE IF op.done = 0 THEN <<>> ELSE registers
  BY <1>1, Running DEF Trial
<1>8. Lands /\ (GoesOn(1, then) \/ Stops(1))
  <2> HIDE DEF then
  <2> QED BY <1>1, <1>5, <1>6, Running, Charged
<1>9. CASE Stops(1)
  <2>1. PICK n \in Int : n = 0 - op.done BY <1>1, Running
  <2>2. Owes(n, Now) /\ 1 <= n + Now.work
    <3>1. 1 <= (0 - op.done) + Now.work
      <4> HIDE DEF trial
      <4> QED BY <1>1, <1>2, <1>3, <1>4, Running
    <3> QED BY <1>2, <2>1, <3>1
  <2> QED BY <1>1, <1>2, <1>4, <1>8, <1>9, <2>2, Running, StopsShort
<1>10. CASE GoesOn(1, then) /\ last /\ ~Refused
  <2>1. then = IF trial.end = Fails THEN [o EXCEPT !.phase = "NextStart", !.frames = 0]
               ELSE [o EXCEPT !.current = trial.end, !.frames = IF trial.push THEN 1 ELSE 0,
                              !.phase = IF op.boolean THEN "Matched" ELSE "Validate"]
    BY <1>1, <1>10, Running DEF Conclude, Operations
  <2>2. /\ then.start = op.start /\ then.started = op.started /\ then.blocked = op.blocked
        /\ trial.end = Fails => then.phase = "NextStart"
        /\ trial.end # Fails =>
             /\ then.phase = IF op.boolean THEN "Matched" ELSE "Validate"
             /\ then.current = trial.end
    <3> HIDE DEF then, trial
    <3> QED BY <1>1, <2>1, Running DEF Operations
  <2>3. Spent' = Spent + 1 /\ op.budget >= 1 BY <1>10 DEF GoesOn
  <2>4. trial.end # Fails => registers' = <<op.start, trial.end>>
    BY <1>1, <1>7, <1>10, <2>3, Running DEF Written
  <2> HIDE DEF then
  <2> QED BY <1>1, <1>2, <1>8, <1>10, <2>2, <2>3, <2>4, Running, Concludes DEF GoesOn
<1>11. CASE GoesOn(1, then) /\ ~(last /\ ~Refused)
  <2>1. /\ op'.done = op.done + 1 /\ op'.start = op.start /\ op'.started = op.started
        /\ op'.phase = IF last THEN "Execute" ELSE "Trial"
        /\ op'.blocked = (IF last THEN TRUE ELSE op.blocked)
    <3>1. /\ then.done = op.done + 1 /\ then.start = op.start /\ then.started = op.started
          /\ then.phase = IF last THEN "Execute" ELSE "Trial"
          /\ then.blocked = (IF last THEN TRUE ELSE op.blocked)
      <4> HIDE DEF last
      <4> QED BY <1>1, <1>2, <1>11, Running DEF Operations
    <3> HIDE DEF then
    <3> QED BY <1>11, <3>1 DEF GoesOn
  <2>2. Spent' = Spent + 1 BY <1>11 DEF GoesOn
  <2>3. Right' = Plus(Spent' + (0 - op'.done), Now)
    <3>1. PICK n \in Int : n = 0 - op.done BY <1>1, Running
    <3>2. Owes(n, Now) /\ TypeOK /\ Stays BY <1>1, <1>2, <1>8, <3>1, Running, Landed
    <3>3. Right' = Plus(Spent' + (n - 1), Now) BY <2>2, <3>2, PaysOff
    <3>4. n - 1 = 0 - op'.done BY <1>1, <2>1, <3>1, Running
    <3> QED BY <3>3, <3>4
  <2>4. Now' = Now BY <1>8, <2>1, Landed DEF Now
  <2>5. Owes(0 - op.done, Now)' BY <2>3, <2>4 DEF Owes
  <2>6. Owed' BY <2>1, <2>5 DEF Owed
  <2>7. Placed'
    <3>1. ~last => op'.done < trial.work BY <1>1, <1>2, <1>3, <2>1, Running
    <3>2. last => op'.done = trial.work BY <2>1
    <3> HIDE DEF last
    <3> QED BY <1>1, <1>8, <2>1, <3>1, <3>2, Running, Landed DEF Placed, Before, Coming, Lands
  <2>8. Standing' BY <1>1, <1>8, <2>1, Running, Landed DEF Standing
  <2>9. Lent' BY <1>1, <1>2, <1>8, <2>1, Running, Landed DEF Lent, Found
  <2> QED BY <1>8, <2>6, <2>7, <2>8, <2>9, Landed DEF IInv
<1> QED BY <1>8, <1>9, <1>10, <1>11

LEMMA ExecuteStep ==
  ASSUME IInv, Execute
  PROVE  IInv'
<1> DEFINE trial == Job.trial[op.start]
           then == IF Refused THEN [op EXCEPT !.blocked = TRUE] ELSE Conclude(op)
<1>1. Runs({"Execute"}) BY DEF Execute
<1>2. op.phase = "Execute" /\ op.done = trial.work /\ Owes(0 - op.done, Now)
  BY <1>1, Running DEF Placed, Owed
<1>3. trial.end \in {Fails} \cup 0 .. Job.length BY <1>1, Running DEF IsJob, Trials
<1>4. ~Refused =>
        then = IF trial.end = Fails THEN [op EXCEPT !.phase = "NextStart", !.frames = 0]
               ELSE [op EXCEPT !.current = trial.end, !.frames = IF trial.push THEN 1 ELSE 0,
                               !.phase = IF op.boolean THEN "Matched" ELSE "Validate"]
  BY <1>1, Running DEF Conclude
<1>5. then \in Operations(Job.length) /\ then.requested = op.requested
      /\ then.boolean = op.boolean /\ then.shape = op.shape
  <2>1. CASE Refused BY <1>1, <2>1, Running DEF Operations
  <2>2. CASE ~Refused
    <3> HIDE DEF then, trial
    <3>1. CASE trial.end = Fails BY <1>1, <1>4, <2>2, <3>1, Running, ZenonT(60) DEF Operations, Phases
    <3>2. CASE trial.end # Fails
      <4>1. trial.end \in 0 .. Job.length BY <1>3, <3>2
      <4> QED BY <1>1, <1>4, <2>2, <3>2, <4>1, Running, ZenonT(60) DEF Operations, Phases
    <3> QED BY <3>1, <3>2
  <2> QED BY <2>1, <2>2
<1>6. /\ Spend(0, then) /\ Evaluator
      /\ registers' = IF Refused THEN registers ELSE Written
  BY <1>1, Running DEF Execute
<1>7. Lands /\ (GoesOn(0, then) \/ Stops(0))
  <2> HIDE DEF then
  <2> QED BY <1>1, <1>5, <1>6, Running, Charged
<1>8. ~Stops(0) BY <1>1, Running DEF Stops
<1>9. GoesOn(0, then) /\ Spent' = Spent + 0 BY <1>7, <1>8 DEF GoesOn
<1>10. CASE ~Refused
  <2>1. /\ then.start = op.start /\ then.started = op.started /\ then.blocked = op.blocked
        /\ trial.end = Fails => then.phase = "NextStart"
        /\ trial.end # Fails =>
             /\ then.phase = IF op.boolean THEN "Matched" ELSE "Validate"
             /\ then.current = trial.end
    <3> HIDE DEF then, trial
    <3> QED BY <1>1, <1>4, <1>10, Running DEF Operations
  <2>2. trial.end # Fails => registers' = <<op.start, trial.end>>
    BY <1>1, <1>6, <1>10, Running DEF Written
  <2>3. PICK k \in Nat : k = 0 OBVIOUS
  <2>4. op.done + k = trial.work /\ Spent' = Spent + k BY <1>1, <1>2, <1>9, <2>3, Running
  <2> HIDE DEF then
  <2> QED BY <1>1, <1>2, <1>7, <1>9, <2>1, <2>2, <2>4, Running, Concludes DEF GoesOn
<1>11. CASE Refused
  <2>1. then = [op EXCEPT !.blocked = TRUE] BY <1>11
  <2>2. /\ op'.done = op.done /\ op'.start = op.start /\ op'.started = op.started
        /\ op'.phase = "Execute"
    <3> HIDE DEF then
    <3> QED BY <1>1, <1>2, <1>9, <2>1, Running DEF GoesOn, Operations
  <2>3. Spent' = Spent BY <1>1, <1>9, Running
  <2>4. Owes(0 - op.done, Now)' BY <1>2, <1>7, <2>2, <2>3, Landed DEF Owes, Now
  <2>5. Owed' BY <2>2, <2>4 DEF Owed
  <2>6. Placed' BY <1>1, <1>2, <1>7, <2>2, Running, Landed DEF Placed, Before, Coming, Lands
  <2>7. Standing' BY <1>1, <1>7, <2>2, Running, Landed DEF Standing
  <2>8. Lent' BY <1>1, <1>2, <1>7, <2>2, Running, Landed DEF Lent, Found
  <2> QED BY <1>7, <2>5, <2>6, <2>7, <2>8, Landed DEF IInv
<1> QED BY <1>10, <1>11

LEMMA NextStartStep ==
  ASSUME IInv, NextStart
  PROVE  IInv'
<1> DEFINE rest == From[op.start + 1]
           x == Failing(Job, op.start, rest)
           ended == op.start = Job.length
           k == IF Job.sticky THEN 0 ELSE 1
           then == IF Job.sticky THEN [op EXCEPT !.phase = "NoMatch"]
                   ELSE IF ended THEN [op EXCEPT !.phase = "NoMatch", !.current = op.start]
                   ELSE AtStart(op, After(Job, op.start))
<1>1. Runs({"NextStart"}) BY DEF NextStart
<1>2. op.phase = "NextStart" /\ Owes(0, x) BY <1>1, Running DEF Owed
<1>3. /\ x \in Outcomes /\ x.work \in Nat /\ k <= x.work /\ k \in Nat /\ k \in Int
      /\ ~ended => After(Job, op.start) \in 0 .. Job.length
      /\ After(Job, op.start) \notin Job.inside
      /\ ~ended => From[After(Job, op.start)] = rest
      /\ ~ended => rest \in Outcomes
  <2>1. x \in Outcomes /\ (~Job.sticky => x.work >= 1) /\ (~ended => rest \in Outcomes)
    BY <1>1, Running, StartOutcomes DEF From
  <2>2. x.work \in Nat BY <2>1 DEF Outcomes
  <2>3. /\ ~ended => After(Job, op.start) \in 0 .. Job.length
        /\ After(Job, op.start) \notin Job.inside
        /\ ~ended => From[After(Job, op.start)] = rest
    BY <1>1, Running, PairFacts, FromAfter DEF From
  <2> HIDE DEF x
  <2> QED BY <2>1, <2>2, <2>3
<1>4. then \in Operations(Job.length) /\ then.requested = op.requested
      /\ then.boolean = op.boolean /\ then.shape = op.shape
  <2>1. CASE Job.sticky \/ ended BY <1>1, <2>1, Running DEF Operations, Phases
  <2>2. CASE ~(Job.sticky \/ ended)
    <3> HIDE DEF ended
    <3> QED BY <1>1, <1>3, <2>2, Running DEF Operations, Phases, AtStart
  <2> QED BY <2>1, <2>2
<1>5. Spend(k, then) /\ Evaluator /\ registers' = registers
  BY <1>1, Running DEF NextStart, Quiet, LastStart, AtStart
<1>6. Lands /\ (GoesOn(k, then) \/ Stops(k))
  <2> HIDE DEF then, k
  <2> QED BY <1>1, <1>3, <1>4, <1>5, Running, Charged
<1>7. CASE Stops(k)
  <2>1. PICK n \in Int : n = 0 OBVIOUS
  <2>2. Owes(n, x) /\ k <= n + x.work
    <3> HIDE DEF x, k
    <3> QED BY <1>2, <1>3, <2>1
  <2> HIDE DEF x, k
  <2> QED BY <1>1, <1>2, <1>3, <1>6, <1>7, <2>2, Running, StopsShort
<1>8. CASE GoesOn(k, then)
  <2>1. Spent' = Spent + k /\ op'.started = op.started /\ op'.blocked = op.blocked
    BY <1>1, <1>8, Running DEF GoesOn, AtStart, Operations
  <2>2. ASSUME NEW y \in Outcomes, x = Plus(k, y) PROVE Right' = Plus(Spent' + 0, y)
    <3> HIDE DEF x, k
    <3>1. Owes(0 + k, y) BY <1>1, <1>2, <1>3, <2>2, Running, Regroup
    <3>2. 0 + k = k BY <1>3
    <3>3. Owes(k, y) /\ TypeOK /\ Stays BY <1>1, <1>6, <3>1, <3>2, Running, Landed, Zenon
    <3>4. Right' = Plus(Spent' + (k - k), y) BY <1>3, <2>1, <3>3, PaysOff
    <3>5. k - k = 0 BY <1>3
    <3> QED BY <3>4, <3>5
  <2>3. CASE Job.sticky \/ ended
    <3>1. op'.phase = "NoMatch" /\ op'.start = op.start
      BY <1>1, <1>8, <2>3, Running DEF GoesOn, Operations
    <3>2. Nothing(0) \in Outcomes /\ x = Plus(k, Nothing(0))
      BY <2>3 DEF Failing, Nothing, Plus, Outcome, Outcomes, Ends
    <3>3. Owes(0, Nothing(0))' BY <2>2, <3>2 DEF Owes
    <3>4. Owed' BY <3>1, <3>3 DEF Owed
    <3>5. Placed' BY <1>1, <1>6, <2>1, <3>1, Running, Landed DEF Placed, Before, Coming, Lands
    <3>6. Standing' BY <1>1, <1>6, <2>1, <3>1, Running, Landed DEF Standing
    <3>7. Lent' BY <1>1, <1>2, <1>6, <3>1, Running, Landed DEF Lent, Found
    <3> QED BY <1>6, <3>4, <3>5, <3>6, <3>7, Landed DEF IInv
  <2>4. CASE ~(Job.sticky \/ ended)
    <3>1. /\ op'.start = After(Job, op.start) /\ op'.current = After(Job, op.start) /\ op'.done = 0
          /\ op'.phase = (IF Job.scans THEN "Candidate" ELSE "Trial")
      <4> HIDE DEF ended
      <4> QED BY <1>1, <1>8, <2>4, Running DEF GoesOn, Operations, AtStart
    <3>2. x = Plus(k, rest) BY <2>4 DEF Failing
    <3>3. Right' = Plus(Spent' + 0, From[After(Job, op.start)])
      <4> HIDE DEF x, k
      <4> QED BY <1>3, <2>2, <2>4, <3>2
    <3>4. Spent' + 0 = Spent'
      <4>1. \A z \in Int : z + 0 = z OBVIOUS
      <4>2. Spent' \in Int BY <1>6, Landed
      <4> QED BY <4>1, <4>2, Zenon
    <3>5. After(Job, op.start) \in 0 .. Job.length /\ After(Job, op.start) \notin Job.inside
      BY <1>3, <2>4
    <3> HIDE DEF ended
    <3> QED BY <1>1, <1>2, <1>6, <2>1, <2>4, <3>1, <3>3, <3>4, <3>5, Running, Arrives
  <2> QED BY <2>3, <2>4
<1> QED BY <1>6, <1>7, <1>8

LEMMA ValidateStep ==
  ASSUME IInv, Validate
  PROVE  IInv'
<1> DEFINE then == [op EXCEPT !.phase = "Matched"]
           x == Outcome(0, op.current, op.start)
<1>1. Runs({"Validate"}) BY DEF Validate
<1>2. op.phase = "Validate" /\ ~op.boolean /\ Owes(2, x) /\ registers = <<op.start, op.current>>
  BY <1>1, Running DEF Owed, Lent, Found
<1>3. x \in Outcomes /\ x.work = 0 BY <1>1, Running DEF Outcome, Outcomes, Ends
<1>4. then \in Operations(Job.length) /\ then.requested = op.requested
      /\ then.boolean = op.boolean /\ then.shape = op.shape
  BY <1>1, Running DEF Operations, Phases
<1>5. Spend(2, then) /\ Evaluator /\ registers' = registers
  BY <1>1, Running DEF Validate, Quiet
<1>6. Lands /\ (GoesOn(2, then) \/ Stops(2))
  <2> HIDE DEF then
  <2> QED BY <1>1, <1>4, <1>5, Running, Charged
<1>7. CASE Stops(2)
  <2>1. 2 <= 2 + x.work BY <1>3
  <2> HIDE DEF x
  <2> QED BY <1>1, <1>2, <1>3, <1>6, <1>7, <2>1, Running, StopsShort
<1>8. CASE GoesOn(2, then)
  <2>1. /\ Spent' = Spent + 2 /\ op'.start = op.start /\ op'.started = op.started
        /\ op'.blocked = op.blocked /\ op'.phase = "Matched" /\ op'.current = op.current
    BY <1>1, <1>8, Running DEF GoesOn, Operations
  <2>2. Right' = Plus(Spent' + (2 - 2), x)
    <3> HIDE DEF x
    <3>1. PICK n \in Int : n = 2 OBVIOUS
    <3>2. PICK k \in Nat : k = 2 OBVIOUS
    <3>3. Owes(n, x) /\ TypeOK /\ Stays BY <1>1, <1>2, <1>6, <3>1, Running, Landed
    <3>4. Right' = Plus(Spent' + (n - k), x) BY <2>1, <3>2, <3>3, PaysOff
    <3> QED BY <3>1, <3>2, <3>4
  <2>3. Owes(0, Outcome(0, op.current, op.start))' BY <2>1, <2>2 DEF Owes
  <2>4. Owed' BY <2>1, <2>3 DEF Owed
  <2>5. Placed' BY <1>1, <1>6, <2>1, Running, Landed DEF Placed, Before, Coming, Lands
  <2>6. Standing' BY <1>1, <1>6, <2>1, Running, Landed DEF Standing
  <2>7. Lent' BY <1>1, <1>2, <1>5, <1>6, <2>1, Running, Landed DEF Lent, Found
  <2> QED BY <1>6, <2>4, <2>5, <2>6, <2>7, Landed DEF IInv
<1> QED BY <1>6, <1>7, <1>8

LEMMA EvaluateStep ==
  ASSUME IInv, Evaluate
  PROVE  IInv'
BY AdmissionStep, AdmitClassStep, AdmitRangeStep, StartStep, SeekStep, CandidateStep, TrialStep,
   ExecuteStep, NextStartStep, ValidateStep DEF Evaluate

------------------------------------------------------------------------------
(* What the host does between the calls.                                   *)

(* Nothing that the invariant speaks of changes, or only what is lent.     *)
LEMMA Untouched ==
  ASSUME IInv, TypeOK', UNCHANGED <<world, op, registers, begun>>,
         call'.is # "none" => layout' = op.shape,
         read' # <<>> => op.phase = "Matched" /\ read' = <<op.start, op.current>>
  PROVE  IInv'
<1>1. Job' = Job /\ From' = From /\ Right' = Right /\ Spent' = Spent /\ Now' = Now
      /\ Origin' = Origin /\ Ahead' = Ahead
  BY DEF Job, From, Right, Spent, Now, Origin, Ahead
<1>2. Owed' BY <1>1 DEF IInv, Owed, Owes, Awaits
<1>3. Placed' BY <1>1 DEF IInv, Placed
<1>4. Standing' BY <1>1 DEF IInv, Standing
<1>5. Lent' BY DEF IInv, Lent
<1> QED BY <1>2, <1>3, <1>4, <1>5 DEF IInv

(* A position is a place in the subject.                                   *)
LEMMA PositionType ==
  ASSUME TypeOK
  PROVE  PositionOf(op) \in 0 .. Job.length
BY DEF TypeOK, Operations, PositionOf

(* A search begins: it owes the whole of what its subject costs.           *)
LEMMA Begins ==
  ASSUME NEW start \in Nat, NEW budget \in Nat, NEW shape \in {1, 2},
         NEW near \in {NONE} \cup 0 .. world[shape].length, NEW boolean \in BOOLEAN,
         TypeOK, UNCHANGED world,
         op' = [Begin(start, world[shape].length, budget, shape) EXCEPT
                  !.near = near, !.boolean = boolean],
         begun' = [budget |-> budget, near |-> near, shape |-> shape],
         layout' \in 0 .. 2, turns' \in Nat, capacity' \in Nat,
         handle' \in {"none", "search", "finished"},
         call' \in [is : {"none", "run", "advance"}, window : Int],
         call'.is # "none" => layout' = shape, hint' = hint, read' = <<>>
  PROVE  IInv'
<1> DEFINE L == world[shape].length
<1>1. L \in Nat BY JobFacts DEF IsJob
<1>2. /\ op'.phase = (IF start > L THEN "NoMatch" ELSE "Admission")
      /\ op'.requested = start /\ op'.near = near /\ op'.boolean = boolean
      /\ op'.budget = budget /\ op'.shape = shape /\ ~op'.started /\ ~op'.blocked
      /\ op' \in Operations(L)
  <2>1. 0 \in 0 .. L BY <1>1
  <2> QED BY <2>1 DEF Begin, Operations, Phases
<1>3. Job' = world[shape] BY <1>2 DEF Job
<1>4. TypeOK' BY <1>2, <1>3 DEF TypeOK
<1>5. Owed'
  <2>1. Spent' = 0
    <3>1. op'.budget = budget /\ begun'.budget = budget BY <1>2
    <3> QED BY <3>1 DEF Spent
  <2>2. CASE start > L
    <3>1. op'.phase = "NoMatch" /\ op'.requested = start BY <1>2, <2>2
    <3>2. Right' = Nothing(0)
      <4>1. Right' = Whole(world[shape], start, near, boolean) BY <1>2 DEF Right
      <4> QED BY <2>2, <4>1 DEF Whole
    <3>3. Owes(0, Nothing(0))' BY <2>1, <3>2 DEF Owes, Nothing, Plus, Outcome
    <3> QED BY <3>1, <3>3 DEF Owed
  <2>3. CASE ~(start > L)
    <3>1. op'.phase = "Admission" BY <1>2, <2>3
    <3> QED BY <2>1, <3>1 DEF Owed
  <2> QED BY <2>2, <2>3
<1>6. Placed'
  <2>1. /\ op'.phase \in {"NoMatch", "Admission"} /\ op'.near = begun'.near /\ ~op'.started
        /\ ~op'.blocked /\ op'.shape = shape
        /\ op'.phase = "Admission" => op'.requested <= Job.length'
    BY <1>1, <1>2, <1>3
  <2> QED BY <1>3, <2>1 DEF Placed, Before, Coming
<1>7. Standing'
  <2>1. ~op'.started BY <1>2
  <2> QED BY <2>1 DEF Standing
<1>8. Lent'
  <2>1. op'.phase \in {"NoMatch", "Admission"} BY <1>2
  <2> QED BY <2>1 DEF Lent, Found
<1> QED BY <1>4, <1>5, <1>6, <1>7, <1>8 DEF IInv

(* Where the position a host gives belongs to the views it gives, it is a  *)
(* place in their subject.                                                 *)
LEMMA MarkType ==
  ASSUME TypeOK, layout # 0, NEW near \in Hints, ~Foreign(near)
  PROVE  MarkOf(near) \in {NONE} \cup 0 .. world[layout].length
BY DEF TypeOK, Hints, Foreign, MarkOf

LEMMA InitHolds == Init => IInv
<1> SUFFICES ASSUME Init PROVE IInv OBVIOUS
<1>1. IsJob(world[1]) BY SessionConstants DEF Init
<1>2. world[1].length \in Nat BY <1>1 DEF IsJob
<1>3. op = [phase |-> "Admission", done |-> 0,
            requested |-> 0, start |-> 0, current |-> 0, near |-> NONE, started |-> FALSE,
            blocked |-> FALSE, boolean |-> FALSE, frames |-> 0, budget |-> 0, shape |-> 1]
  BY DEF Init, Begin
<1>4. op \in Operations(world[1].length) /\ Job = world[1]
  <2>1. 0 \in 0 .. world[1].length BY <1>2
  <2> QED BY <1>3, <2>1 DEF Operations, Phases, Job
<1>5. TypeOK BY <1>3, <1>4 DEF Init, TypeOK, Idle
<1>6. Owed BY <1>3 DEF Owed, Spent, Init
<1>7. Placed BY <1>2, <1>3, <1>4 DEF Placed, Before, Coming, Init, Idle
<1>8. Standing BY <1>3 DEF Standing
<1>9. Lent BY <1>3 DEF Lent, Found, Init
<1> QED BY <1>5, <1>6, <1>7, <1>8, <1>9 DEF IInv

(* A search the host stops where it is undecided owes nothing more.        *)
LEMMA Abandoned ==
  ASSUME IInv, TypeOK', ~Decided(op), UNCHANGED <<world, begun, read>>,
         op'.phase \in {"Cancelled", "ChangedResources"}, op'.shape = op.shape,
         op'.start = op.start, op'.started = op.started, op'.requested = op.requested,
         op'.boolean = op.boolean, ~op'.blocked, call'.is = "none"
  PROVE  IInv'
<1>1. Owed' BY DEF Owed
<1>2. Placed' BY DEF Placed, Before, Coming
<1>3. Standing'
  <2>1. Job' = Job /\ From' = From /\ Right' = Right /\ Origin' = Origin
    BY DEF Job, From, Right, Origin
  <2> QED BY <2>1 DEF IInv, Standing
<1>4. Lent' BY DEF IInv, Lent, Found, Decided
<1> QED BY <1>1, <1>2, <1>3, <1>4 DEF IInv

LEMMA HostStep ==
  ASSUME IInv, New \/ Run \/ Restart
  PROVE  IInv'
<1>1. TypeOK /\ turns + 1 \in Nat BY DEF IInv, TypeOK
<1>2. CASE New
  <2>1. /\ Host /\ layout # 0 /\ turns' = turns + 1 /\ read' = <<>>
        /\ UNCHANGED <<call, registers, world, layout, hint>>
    BY <1>2 DEF New, Remains
  <2>2. PICK start \in Starts, near \in Hints, budget \in Budgets, boolean \in BOOLEAN,
             room \in Capacities :
          IF Foreign(near)
            THEN answered' = "ChangedResources" /\ UNCHANGED <<handle, op, capacity, begun>>
            ELSE /\ handle' = "search" /\ capacity' = room
                 /\ op' = [Begin(start, Length, budget, layout) EXCEPT
                             !.near = MarkOf(near), !.boolean = boolean]
                 /\ begun' = [budget |-> budget, near |-> MarkOf(near), shape |-> layout]
    BY <1>2 DEF New
  <2>3. CASE Foreign(near)
    <3>1. UNCHANGED <<handle, op, capacity, begun>> BY <2>2, <2>3
    <3>2. TypeOK' BY <1>1, <2>1, <3>1 DEF TypeOK, Job
    <3> QED BY <2>1, <3>1, <3>2, Untouched DEF Host
  <2>4. CASE ~Foreign(near)
    <3>1. /\ handle' = "search" /\ capacity' = room
          /\ op' = [Begin(start, world[layout].length, budget, layout) EXCEPT
                      !.near = MarkOf(near), !.boolean = boolean]
          /\ begun' = [budget |-> budget, near |-> MarkOf(near), shape |-> layout]
      BY <2>2, <2>4 DEF Length, Seen
    <3>2. start \in Nat /\ budget \in Nat /\ room \in Nat /\ layout \in {1, 2}
      BY <1>1, <2>1, SessionConstants DEF TypeOK
    <3>3. MarkOf(near) \in {NONE} \cup 0 .. world[layout].length BY <1>1, <2>1, <2>4, MarkType
    <3>4. /\ layout' \in 0 .. 2 /\ turns' \in Nat /\ capacity' \in Nat
          /\ handle' \in {"none", "search", "finished"}
          /\ call' \in [is : {"none", "run", "advance"}, window : Int]
          /\ ~(call'.is # "none") /\ hint' = hint /\ read' = <<>> /\ world' = world
      BY <1>1, <2>1, <3>1, <3>2 DEF TypeOK, Host
    <3> QED BY <1>1, <3>1, <3>2, <3>3, <3>4, Begins
  <2> QED BY <2>3, <2>4
<1>3. CASE Run
  <2>1. /\ Host /\ handle = "none" /\ layout # 0 /\ turns' = turns + 1 /\ read' = <<>>
        /\ UNCHANGED <<registers, world, layout, hint>>
    BY <1>3 DEF Run, Remains
  <2>2. PICK start \in Starts, near \in Hints, budget \in Budgets, quantum \in Quanta,
             boolean \in BOOLEAN, room \in Capacities :
          IF Foreign(near)
            THEN /\ answered' = "ChangedResources"
                 /\ UNCHANGED <<handle, op, call, capacity, begun>>
            ELSE /\ op' = [Begin(start, Length, budget, layout) EXCEPT
                             !.near = MarkOf(near), !.boolean = boolean]
                 /\ begun' = [budget |-> budget, near |-> MarkOf(near), shape |-> layout]
                 /\ capacity' = room
                 /\ IF quantum = 0
                      THEN handle' = "search" /\ answered' = "Paused" /\ UNCHANGED call
                      ELSE /\ call' = [is |-> "run", window |-> quantum]
                           /\ UNCHANGED <<handle, answered>>
    BY <1>3 DEF Run
  <2>3. CASE Foreign(near)
    <3>1. UNCHANGED <<handle, op, call, capacity, begun>> BY <2>2, <2>3
    <3>2. TypeOK' BY <1>1, <2>1, <3>1 DEF TypeOK, Job
    <3> QED BY <2>1, <3>1, <3>2, Untouched DEF Host
  <2>4. CASE ~Foreign(near)
    <3>1. /\ capacity' = room
          /\ op' = [Begin(start, world[layout].length, budget, layout) EXCEPT
                      !.near = MarkOf(near), !.boolean = boolean]
          /\ begun' = [budget |-> budget, near |-> MarkOf(near), shape |-> layout]
      BY <2>2, <2>4 DEF Length, Seen
    <3>2. start \in Nat /\ budget \in Nat /\ room \in Nat /\ quantum \in Nat /\ layout \in {1, 2}
      BY <1>1, <2>1, SessionConstants DEF TypeOK
    <3>3. MarkOf(near) \in {NONE} \cup 0 .. world[layout].length BY <1>1, <2>1, <2>4, MarkType
    <3>4. /\ handle' \in {"none", "search", "finished"}
          /\ call' \in [is : {"none", "run", "advance"}, window : Int]
      <4>1. CASE quantum = 0 BY <1>1, <2>2, <2>4, <4>1 DEF TypeOK
      <4>2. CASE quantum # 0
        <5>1. handle' = handle /\ call' = [is |-> "run", window |-> quantum] BY <2>2, <2>4, <4>2
        <5> QED BY <1>1, <3>2, <5>1 DEF TypeOK
      <4> QED BY <4>1, <4>2
    <3>5. /\ layout' \in 0 .. 2 /\ turns' \in Nat /\ capacity' \in Nat
          /\ layout' = layout /\ hint' = hint /\ read' = <<>> /\ world' = world
      BY <1>1, <2>1, <3>1, <3>2 DEF TypeOK
    <3> QED BY <1>1, <3>1, <3>2, <3>3, <3>4, <3>5, Begins
  <2> QED BY <2>3, <2>4
<1>4. CASE Restart
  <2>1. /\ Host /\ turns' = turns + 1 /\ read' = <<>>
        /\ UNCHANGED <<handle, call, registers, capacity, world, layout, hint>>
        /\ begun' = [budget |-> op.budget, near |-> PositionOf(op), shape |-> op.shape]
    BY <1>4 DEF Restart, Remains
  <2>2. PICK start \in Starts :
          op' = [Begin(start, world[op.shape].length, op.budget, op.shape) EXCEPT
                   !.near = PositionOf(op), !.boolean = op.boolean]
    BY <1>4 DEF Restart, Job
  <2>3. start \in Nat BY SessionConstants
  <2>4. op.budget \in Nat /\ op.shape \in {1, 2} /\ op.boolean \in BOOLEAN
    BY <1>1 DEF TypeOK, Operations
  <2>5. PositionOf(op) \in {NONE} \cup 0 .. world[op.shape].length
    BY <1>1, PositionType DEF Job
  <2>6. /\ layout' \in 0 .. 2 /\ turns' \in Nat /\ capacity' \in Nat
        /\ handle' \in {"none", "search", "finished"}
        /\ call' \in [is : {"none", "run", "advance"}, window : Int]
        /\ ~(call'.is # "none") /\ hint' = hint /\ read' = <<>> /\ world' = world
    BY <1>1, <2>1 DEF TypeOK, Host
  <2> QED BY <1>1, <2>1, <2>2, <2>3, <2>4, <2>5, <2>6, Begins
<1> QED BY <1>2, <1>3, <1>4

LEMMA CallStep ==
  ASSUME IInv, Advance \/ Return
  PROVE  IInv'
<1>1. TypeOK /\ Placed /\ Lent BY DEF IInv
<1>2. CASE Advance
  <2>1. Host /\ UNCHANGED <<world, layout, hint, turns, handle, registers, capacity, begun, read>>
    BY <1>2 DEF Advance, host
  <2>2. CASE UNCHANGED <<op, call>>
    <3>1. TypeOK' BY <1>1, <2>1, <2>2 DEF TypeOK, Job
    <3> QED BY <1>1, <2>1, <2>2, <3>1, Untouched DEF Host, Lent
  <2>3. CASE /\ op' = [op EXCEPT !.phase = "ChangedResources"] /\ UNCHANGED call
             /\ ~op.blocked /\ ~Decided(op)
    <3>1. /\ op' \in Operations(Job.length) /\ op'.shape = op.shape /\ op'.start = op.start
          /\ op'.started = op.started /\ op'.requested = op.requested /\ ~op'.blocked
          /\ op'.boolean = op.boolean /\ op'.phase = "ChangedResources"
      BY <1>1, <2>3 DEF TypeOK, Operations, Phases
    <3>2. TypeOK' BY <1>1, <2>1, <2>3, <3>1 DEF TypeOK, Job
    <3> QED BY <2>1, <2>3, <3>1, <3>2, Abandoned DEF Host
  <2>4. CASE \E quantum \in Quanta : /\ call' = [is |-> "advance", window |-> quantum]
                                     /\ SameShape /\ op' = op
    <3>1. PICK quantum \in Nat : call' = [is |-> "advance", window |-> quantum]
      BY <2>4, SessionConstants
    <3>2. TypeOK' BY <1>1, <2>1, <2>4, <3>1 DEF TypeOK, Job
    <3> QED BY <1>1, <2>1, <2>4, <3>2, Untouched DEF SameShape, Lent
  <2> QED BY <1>2, <2>2, <2>3, <2>4 DEF Advance
<1>3. CASE Return
  <2>1. /\ call' = Idle /\ UNCHANGED <<world, layout, hint, turns, op, registers, capacity, begun, read>>
        /\ handle' \in {"none", "search", "finished"}
    BY <1>3 DEF Return, host
  <2>2. TypeOK' BY <1>1, <2>1 DEF TypeOK, Job, Idle
  <2> QED BY <1>1, <2>1, <2>2, Untouched DEF Idle, Lent
<1> QED BY <1>2, <1>3

LEMMA HandleStep ==
  ASSUME IInv, Rebuffer \/ Cancel \/ Capture \/ Position \/ IntoBuffers \/ Rebind
  PROVE  IInv'
<1>1. TypeOK /\ Placed /\ Lent /\ Owed /\ Standing BY DEF IInv
<1>2. CASE Rebuffer
  <2>1. /\ Host /\ op' = [op EXCEPT !.blocked = FALSE]
        /\ UNCHANGED <<world, layout, hint, turns, handle, call, registers, begun, read>>
        /\ capacity' \in Nat
    BY <1>2, SessionConstants DEF Rebuffer, host
  <2>2. /\ op' \in Operations(Job.length) /\ op'.shape = op.shape /\ op'.phase = op.phase
        /\ op'.done = op.done /\ op'.requested = op.requested /\ op'.start = op.start
        /\ op'.current = op.current /\ op'.near = op.near /\ op'.started = op.started
        /\ op'.boolean = op.boolean /\ op'.budget = op.budget /\ ~op'.blocked
    BY <1>1, <2>1 DEF TypeOK, Operations
  <2>3. TypeOK' BY <1>1, <2>1, <2>2 DEF TypeOK, Job
  <2>4. Job' = Job /\ From' = From /\ Right' = Right /\ Spent' = Spent /\ Now' = Now
        /\ Origin' = Origin /\ Ahead' = Ahead
    BY <2>1, <2>2 DEF Job, From, Right, Spent, Now, Origin, Ahead
  <2>5. Owed' BY <1>1, <2>1, <2>2, <2>4 DEF Owed, Owes, Awaits
  <2>6. Placed' BY <1>1, <2>1, <2>2, <2>4 DEF Placed, Host
  <2>7. Standing' BY <1>1, <2>2, <2>4 DEF Standing
  <2>8. Lent' BY <1>1, <2>1, <2>2 DEF Lent
  <2> QED BY <2>3, <2>5, <2>6, <2>7, <2>8 DEF IInv
<1>3. CASE Cancel
  <2>1. /\ Host /\ ~Decided(op) /\ op' = [op EXCEPT !.phase = "Cancelled", !.blocked = FALSE]
        /\ UNCHANGED <<world, layout, hint, turns, handle, call, registers, capacity, begun, read>>
    BY <1>3 DEF Cancel, Cancels, host
  <2>2. /\ op' \in Operations(Job.length) /\ op'.shape = op.shape /\ op'.start = op.start
        /\ op'.started = op.started /\ op'.requested = op.requested /\ ~op'.blocked
        /\ op'.boolean = op.boolean /\ op'.phase = "Cancelled"
    BY <1>1, <2>1 DEF TypeOK, Operations, Phases
  <2>3. TypeOK' BY <1>1, <2>1, <2>2 DEF TypeOK, Job
  <2> QED BY <2>1, <2>2, <2>3, Abandoned DEF Host
<1>4. CASE Capture
  <2>1. /\ Host /\ UNCHANGED <<world, layout, hint, turns, handle, op, call, registers, capacity, begun>>
        /\ read' = IF Readable(op) THEN registers ELSE <<>>
    BY <1>4 DEF Capture, host
  <2>2. TypeOK' BY <1>1, <2>1 DEF TypeOK, Job
  <2>3. read' # <<>> => op.phase = "Matched" /\ read' = <<op.start, op.current>>
    BY <1>1, <2>1 DEF Readable, Lent, Found
  <2> QED BY <2>1, <2>2, <2>3, Untouched DEF Host
<1>5. CASE Position
  <2>1. /\ Host /\ hint' = [mark |-> PositionOf(op), layout |-> op.shape]
        /\ UNCHANGED <<world, layout, turns, handle, op, call, registers, capacity, begun, read>>
    BY <1>5 DEF Position
  <2>2. TypeOK'
    <3>1. PositionOf(op) \in 0 .. world[op.shape].length BY <1>1, PositionType DEF Job
    <3> QED BY <1>1, <2>1, <3>1 DEF TypeOK, Job
  <2> QED BY <1>1, <2>1, <2>2, Untouched DEF Host, Lent
<1>6. CASE IntoBuffers
  <2>1. /\ Host /\ handle' = "none" /\ read' = <<>>
        /\ UNCHANGED <<world, layout, hint, turns, op, call, registers, capacity, begun>>
    BY <1>6 DEF IntoBuffers, host
  <2>2. TypeOK' BY <1>1, <2>1 DEF TypeOK, Job
  <2> QED BY <2>1, <2>2, Untouched DEF Host
<1>7. CASE Rebind
  <2>1. /\ Host /\ layout' \in 0 .. 2
        /\ UNCHANGED <<world, hint, turns, handle, op, call, registers, capacity, begun, read>>
    BY <1>7 DEF Rebind
  <2>2. TypeOK' BY <1>1, <2>1 DEF TypeOK, Job
  <2> QED BY <1>1, <2>1, <2>2, Untouched DEF Host, Lent
<1> QED BY <1>2, <1>3, <1>4, <1>5, <1>6, <1>7

LEMMA Inductive == IInv /\ [Next]_vars => IInv'
<1> SUFFICES ASSUME IInv, [Next]_vars PROVE IInv' OBVIOUS
<1>1. CASE Next BY <1>1, EvaluateStep, HostStep, CallStep, HandleStep DEF Next
<1>2. CASE UNCHANGED vars
  <2>1. UNCHANGED <<world, layout, hint, turns, handle, op, call, registers, capacity, begun, read>>
    BY <1>2 DEF vars, host
  <2>2. TypeOK' BY <2>1 DEF IInv, TypeOK, Job
  <2> QED BY <2>1, <2>2, Untouched DEF IInv, Placed, Lent
<1> QED BY <1>1, <1>2

(* Whatever the jobs, the budgets and the host's calls, what a search has  *)
(* spent and what it still owes make up the whole its subject costs, at    *)
(* every step of src/executor.rs.                                          *)
THEOREM OwedHolds == Spec => []IInv
BY InitHolds, Inductive, PTL DEF Spec

------------------------------------------------------------------------------
(* The state is well typed, and every place in it lies in its subject.     *)
THEOREM TypeCorrect == Spec => []TypeOK
<1>1. IInv => TypeOK BY DEF IInv
<1> QED BY <1>1, OwedHolds, PTL

(* What has been spent never exceeds the whole while nothing has failed.   *)
LEMMA WithinTheWhole ==
  ASSUME IInv, ~Failed(op)
  PROVE  Spent <= Right.work
<1>1. TypeOK /\ Owed /\ Placed BY DEF IInv
<1>2. /\ IsJob(Job) /\ op.boolean \in BOOLEAN /\ Spent \in Int /\ Job.length \in Nat
      /\ Job.admits \in {NoScan} \cup 0 .. Job.length
  BY <1>1, JobFacts
<1>3. /\ op \in Operations(Job.length) /\ op.start \in 0 .. Job.length
      /\ op.current \in 0 .. Job.length /\ op.requested \in Nat /\ op.done \in Nat
      /\ begun.near \in {NONE} \cup 0 .. Job.length /\ op.phase \in Phases
  BY <1>1 DEF TypeOK, Operations
<1>4. ASSUME NEW n \in Int, NEW x \in Outcomes, Owes(n, x), 0 <= n + x.work
      PROVE  Spent <= Right.work
  <2>1. Right.work = (Spent + n) + x.work /\ x.work \in Nat BY <1>4 DEF Owes, Plus, Outcome, Outcomes
  <2> QED BY <1>2, <1>4, <2>1
<1>5. ASSUME NEW x \in Outcomes, NEW n \in Nat, Owes(n, x) PROVE Spent <= Right.work
  <2>1. x.work \in Nat BY DEF Outcomes
  <2>2. n \in Int /\ 0 <= n + x.work BY <2>1
  <2> QED BY <1>4, <1>5, <2>2
<1>6. CASE op.phase = "Admission"
  <2>1. Spent = 0 BY <1>1, <1>6 DEF Owed
  <2>2. Right.work \in Nat BY <1>1, RightFacts DEF Outcomes
  <2> QED BY <2>1, <2>2
<1>7. CASE op.phase \in {"AdmitClass", "AdmitRange"}
  <2> DEFINE n == 2 * Ahead + (IF op.phase = "AdmitClass" THEN 0 ELSE 1)
  <2>1. /\ op.requested <= Job.length
        /\ op.phase = "AdmitClass" => op.current <= Job.admits
        /\ op.phase = "AdmitRange" => Looked(Job, op.current)
    BY <1>1, <1>7 DEF Placed, Coming, Before
  <2>2. Job.admits \in 0 .. Job.length BY <1>2, <1>3, <1>7, <2>1 DEF NoScan, Looked
  <2>3. n \in Int /\ 0 <= (IF Job.admits = Job.length THEN n ELSE n + 2)
    <3>1. Reads(Job, Job.admits) \in Nat /\ Reads(Job, op.current) \in Nat
      BY <1>2, <1>3, <2>2, ReadsFacts
    <3>2. CASE op.current <= Job.admits
      <4>1. Reads(Job, op.current) <= Reads(Job, Job.admits)
        BY <1>2, <1>3, <2>2, <3>2, ReadsFacts
      <4> QED BY <3>1, <4>1 DEF Ahead
    <3>3. CASE ~(op.current <= Job.admits)
      <4>1. PICK c \in 0 .. Job.admits : c \notin Job.inside /\ op.current = After(Job, c)
        BY <1>7, <2>1, <3>3 DEF Looked
      <4>2. Job.admits \notin Job.inside /\ c \in 0 .. Job.length BY <1>2, <2>2 DEF IsJob
      <4>3. c = Job.admits BY <1>2, <2>2, <3>3, <4>1, <4>2, PairFacts
      <4>4. Job.admits # Job.length BY <1>2, <1>3, <2>2, <3>3
      <4>5. Reads(Job, op.current) = Reads(Job, Job.admits) + 1
        BY <1>2, <2>2, <4>1, <4>2, <4>3, <4>4, ReadsFacts
      <4>6. op.phase = "AdmitRange" BY <1>7, <2>1, <3>3
      <4> QED BY <3>1, <4>4, <4>5, <4>6 DEF Ahead
    <3> QED BY <3>2, <3>3
  <2>4. Awaits(n)
    <3>1. \A z \in Int : z + 0 = z OBVIOUS
    <3>2. 2 * Ahead \in Int
      <4>1. Reads(Job, Job.admits) \in Nat /\ Reads(Job, op.current) \in Nat
        BY <1>2, <1>3, <2>2, ReadsFacts
      <4> QED BY <4>1 DEF Ahead
    <3>3. CASE op.phase = "AdmitClass"
      <4>1. n = 2 * Ahead BY <3>1, <3>2, <3>3
      <4>2. Awaits(2 * Ahead) BY <1>1, <3>3 DEF Owed
      <4> HIDE DEF n
      <4> QED BY <4>1, <4>2
    <3>4. CASE op.phase = "AdmitRange" BY <1>1, <3>4 DEF Owed
    <3> QED BY <1>7, <3>3, <3>4
  <2> HIDE DEF n
  <2>5. PICK m \in Int, x \in Outcomes :
          (IF Job.admits = Job.length THEN n ELSE n + 2) <= m + x.work /\ Owes(m, x)
    BY <1>1, <2>1, <2>3, <2>4, AwaitsFacts
  <2>6. x.work \in Nat BY DEF Outcomes
  <2>7. 0 <= m + x.work BY <2>3, <2>5, <2>6
  <2> QED BY <1>4, <2>5, <2>7
<1>8. CASE op.phase \in {"Start", "Seek"}
  <2>1. op.requested \in 0 .. Job.length BY <1>1, <1>3, <1>8 DEF Placed, Coming, Before
  <2>2. From[Origin] \in Outcomes BY <1>2, <2>1, PairFacts, FromStartType DEF From, Origin
  <2>3. Walk(Job, op.requested, begun.near) \in Nat BY <1>2, <1>3, <2>1, WalkFacts
  <2>4. Distance(op.current, op.requested) \in Nat BY <1>3, <2>1 DEF Distance
  <2> QED BY <1>1, <1>5, <1>8, <2>2, <2>3, <2>4 DEF Owed
<1>9. CASE op.phase = "Candidate"
  <2>1. From[op.current] \in Outcomes BY <1>2, <1>3, FromStartType DEF From
  <2>2. PICK n \in Nat : n = 0 OBVIOUS
  <2>3. Owes(n, From[op.current]) BY <1>1, <1>9, <2>2 DEF Owed
  <2> QED BY <1>5, <2>1, <2>3
<1>10. CASE op.phase \in {"Trial", "Execute"}
  <2>1. Now \in Outcomes /\ Now.work >= Job.trial[op.start].work
    BY <1>2, <1>3, StartOutcomes DEF Now, From
  <2>2. op.done <= Job.trial[op.start].work /\ Job.trial[op.start].work \in Nat
    <3>1. Job.trial[op.start].work \in Nat BY <1>2, <1>3 DEF IsJob, Trials
    <3> QED BY <1>1, <1>3, <1>10, <3>1 DEF Placed
  <2>3. PICK n \in Int : n = 0 - op.done BY <1>3
  <2>4. Owes(n, Now) BY <1>1, <1>10, <2>3 DEF Owed
  <2>5. Now.work \in Nat BY <2>1 DEF Outcomes
  <2>6. 0 <= n + Now.work BY <1>3, <2>1, <2>2, <2>3, <2>5
  <2> QED BY <1>4, <2>1, <2>4, <2>6
<1>11. CASE op.phase = "NextStart"
  <2>1. Failing(Job, op.start, From[op.start + 1]) \in Outcomes
    BY <1>2, <1>3, StartOutcomes DEF From
  <2>2. PICK n \in Nat : n = 0 OBVIOUS
  <2>3. Owes(n, Failing(Job, op.start, From[op.start + 1])) BY <1>1, <1>11, <2>2 DEF Owed
  <2> QED BY <1>5, <2>1, <2>3
<1>12. CASE op.phase \in {"Validate", "Matched", "NoMatch"}
  <2>1. Outcome(0, op.current, op.start) \in Outcomes /\ Nothing(0) \in Outcomes
    BY <1>3 DEF Nothing, Outcome, Outcomes, Ends
  <2>2. PICK n \in Nat : n = IF op.phase = "Validate" THEN 2 ELSE 0 OBVIOUS
  <2>3. \/ Owes(n, Outcome(0, op.current, op.start)) \/ Owes(n, Nothing(0))
    BY <1>1, <1>12, <2>2 DEF Owed
  <2> QED BY <1>5, <2>1, <2>3
<1> QED BY <1>3, <1>6, <1>7, <1>8, <1>9, <1>10, <1>11, <1>12 DEF Phases, Failed

(* However a search was begun and whatever its host called and lent in     *)
(* between, it spends and answers what one uninterrupted search does       *)
(* (charge and execute of src/executor.rs).                                *)
THEOREM WorkExact == Spec => []WorkIsExact
<1>1. ASSUME IInv PROVE WorkIsExact
  <2>1. TypeOK /\ Owed BY <1>1 DEF IInv
  <2>2. Spent \in Int /\ op.current \in Nat
    BY <2>1, JobFacts DEF TypeOK, Operations
  <2>3. (Spent + 0) + 0 = Spent BY <2>2
  <2>4. op.phase = "Matched" => Right.end = op.current /\ Right.work = Spent
    BY <2>1, <2>3 DEF Owed, Owes, Plus, Outcome
  <2>5. op.phase = "NoMatch" => Right.end = Fails /\ Right.work = Spent
    BY <2>1, <2>3 DEF Owed, Owes, Plus, Nothing, Outcome
  <2>6. op.current # Fails BY <2>2 DEF Fails
  <2>7. op.phase = "WorkLimit" => op.budget = 0 /\ begun.budget < Right.work BY <2>1 DEF Owed
  <2> QED BY <1>1, <2>4, <2>5, <2>6, <2>7, WithinTheWhole DEF WorkIsExact
<1> QED BY <1>1, OwedHolds, PTL

(* Starting near a position costs no more than starting near none.         *)
LEMMA WholeNear ==
  ASSUME NEW job, IsJob(job), NEW start \in Nat, NEW near \in {NONE} \cup 0 .. job.length,
         NEW boolean \in BOOLEAN
  PROVE  Whole(job, start, near, boolean).work <= Whole(job, start, NONE, boolean).work
<1>1. /\ Nothing(0).work <= Nothing(0).work
      /\ Nothing(2 * Reads(job, job.length)).work <= Nothing(2 * Reads(job, job.length)).work
  <2>1. Reads(job, job.length) \in Nat
    <3>1. job.length \in 0 .. job.length BY DEF IsJob
    <3> QED BY <3>1, ReadsFacts
  <2> QED BY <2>1 DEF Nothing, Outcome
<1>2. CASE start > job.length BY <1>1, <1>2 DEF Whole
<1>3. CASE ~(start > job.length) /\ job.admits = job.length BY <1>1, <1>3 DEF Whole
<1>4. CASE ~(start > job.length) /\ job.admits # job.length
  <2> DEFINE n == IF job.admits = NoScan THEN 0 ELSE 2 * (Reads(job, job.admits) + 1)
             x == FromStart(job, boolean)[Aligned(job, start)]
             w == Walk(job, start, near)
             v == Walk(job, start, NONE)
  <2>1. start \in 0 .. job.length BY <1>4 DEF IsJob
  <2>2. x \in Outcomes /\ x.work \in Nat
    <3>1. x \in Outcomes BY <2>1, PairFacts, FromStartType
    <3> QED BY <3>1 DEF Outcomes
  <2>3. w \in Nat /\ v \in Nat /\ w <= v
    <3>1. w \in Nat /\ w <= SeekWork(job, start) BY <2>1, WalkFacts
    <3>2. v \in Nat /\ v = SeekWork(job, start) BY <2>1, WalkFacts DEF Nearer
    <3> QED BY <3>1, <3>2
  <2>4. n \in Nat BY ReadsFacts DEF IsJob
  <2>5. /\ Whole(job, start, near, boolean).work = (n + w) + x.work
        /\ Whole(job, start, NONE, boolean).work = (n + v) + x.work
    BY <1>4 DEF Whole, Plus, Outcome
  <2> HIDE DEF n, x, w, v
  <2> QED BY <2>2, <2>3, <2>4, <2>5
<1> QED BY <1>2, <1>3, <1>4

(* A position given is never dearer than none (Vm::seek, and what          *)
(* docs/resumption.md promises of it).                                     *)
THEOREM NeverDearer == Spec => []NearNeverDearer
<1>1. ASSUME IInv, WorkIsExact PROVE NearNeverDearer
  <2>1. TypeOK BY <1>1 DEF IInv
  <2>2. Right.work <= Whole(Job, op.requested, NONE, op.boolean).work
    <3>1. op.requested \in Nat /\ begun.near \in {NONE} \cup 0 .. Job.length
      BY <2>1 DEF TypeOK, Operations
    <3>2. Right = Whole(Job, op.requested, begun.near, op.boolean) BY <2>1, JobFacts DEF Right, Job
    <3> QED BY <2>1, <3>1, <3>2, JobFacts, WholeNear
  <2> QED BY <1>1, <2>2 DEF WorkIsExact, NearNeverDearer
<1> QED BY <1>1, OwedHolds, WorkExact, PTL

(* A capture is only ever read of the match this very search has found     *)
(* (require_match, and the registers a trial clears and writes).           *)
THEOREM CapturesAreOwn == Spec => []CapturesOfThisMatch
<1>1. ASSUME IInv PROVE CapturesOfThisMatch
  <2>1. Owed /\ Lent BY <1>1 DEF IInv
  <2>2. op.phase = "Matched" => Right.end = op.current /\ Right.at = op.start
    BY <2>1 DEF Owed, Owes, Plus, Outcome
  <2> QED BY <2>1, <2>2 DEF Lent, CapturesOfThisMatch
<1> QED BY <1>1, OwedHolds, PTL

(* Once a search has come to a start, what its position tells is a place   *)
(* it may be taken up from: from there on the subject holds what it holds  *)
(* from the requested start on, and a sticky search has not left the       *)
(* character it was asked for (position_of, and the pairs that             *)
(* normalize_unicode_start steps back over).                               *)
THEOREM PositionIsTold == Spec => []PositionTells
<1>1. ASSUME IInv PROVE PositionTells
  <2>1. Standing BY <1>1 DEF IInv
  <2> QED BY <2>1 DEF Standing, PositionOf, PositionTells, From, Origin
<1> QED BY <1>1, OwedHolds, PTL

(* An outcome stays what it is until a search is begun again: no call      *)
(* revives a decided search, and advancing it reports the same             *)
(* (Search::advance, rebuffer and cancel).                                 *)
THEOREM OutcomeStays == Spec => OutcomeKept
<1> DEFINE Kept == op'.phase = op.phase /\ (answered' # answered => answered' = op.phase)
<1>1. ASSUME IInv, [Next]_vars, Decided(op), turns' = turns PROVE Kept
  <2>1. turns \in Nat /\ ~op.blocked /\ op \in Operations(Job.length)
    BY <1>1 DEF IInv, TypeOK, Placed, Decided
  <2>2. CASE Evaluate
    BY <1>1, <2>2 DEF Evaluate, Runs, Admission, AdmitClass, AdmitRange, Start, Seek, Candidate,
       Trial, Execute, NextStart, Validate, Decided
  <2>3. CASE New \/ Run \/ Restart
    <3>1. turns' = turns + 1 BY <2>3 DEF New, Run, Restart
    <3> QED BY <1>1, <2>1, <3>1
  <2>4. CASE Advance BY <1>1, <2>1, <2>4 DEF Advance
  <2>5. CASE Return BY <1>1, <2>1, <2>5 DEF Return
  <2>6. CASE Rebuffer BY <1>1, <2>1, <2>6 DEF Rebuffer, Operations
  <2>7. CASE Cancel BY <1>1, <2>7 DEF Cancel, Cancels
  <2>8. CASE Capture \/ Position \/ IntoBuffers \/ Rebind
    BY <2>8 DEF Capture, Position, IntoBuffers, Rebind
  <2>9. CASE UNCHANGED vars BY <2>9 DEF vars
  <2> QED BY <1>1, <2>2, <2>3, <2>4, <2>5, <2>6, <2>7, <2>8, <2>9 DEF Next
<1>2. IInv /\ [Next]_vars => [Decided(op) /\ turns' = turns => Kept]_vars BY <1>1
<1> QED BY <1>2, OwedHolds, PTL DEF Spec, OutcomeKept
================================================================================
