-------------------------------- MODULE DfaProofs --------------------------------
(***************************************************************************)
(* The cache of the lazy automaton holds only what would be computed, and  *)
(* leads only where it holds something, for every program, subject and     *)
(* size of the storage.                                                    *)
(***************************************************************************)
EXTENDS Dfa, WellFoundedInduction, SequenceTheorems, FiniteSetTheorems, TLAPS

(* Every nonempty set of natural numbers has a least element.              *)
LEMMA LeastOf ==
  ASSUME NEW T \in SUBSET Nat, T # {}
  PROVE  \E n \in T : \A m \in T : n <= m
<1>1. \E n \in T : \A m \in T : ~(m < n)
  <2>1. \E n \in T : \A m \in T : ~(<<m, n>> \in OpToRel(<, Nat))
    BY NatLessThanWellFounded, WFMin
  <2>2. \A m, n \in Nat : m < n => <<m, n>> \in OpToRel(<, Nat)
    BY DEF OpToRel
  <2>3. \A m, n \in T : m < n => <<m, n>> \in OpToRel(<, Nat)
    BY <2>2
  <2> QED BY <2>1, <2>3, Zenon
<1> QED BY <1>1

-----------------------------------------------------------------------------
(* A sequence, of whatever it is of.                                       *)
IsSeq(s) == s \in Seq({s[i] : i \in DOMAIN s})

LEMMA SeqOf ==
  ASSUME NEW s, NEW S, s \in Seq(S)
  PROVE  IsSeq(s)
<1>1. s \in [1..Len(s) -> S] /\ Len(s) \in Nat OBVIOUS
<1>2. DOMAIN s = 1..Len(s) OBVIOUS
<1> DEFINE R == {s[i] : i \in DOMAIN s}
<1>3. \A i \in 1..Len(s) : s[i] \in R BY <1>2
<1>4. s = [i \in 1..Len(s) |-> s[i]] BY <1>1
<1>5. s \in [1..Len(s) -> R] BY <1>3, <1>4
<1>6. s \in Seq(R)
  <2> HIDE DEF R
  <2> QED BY <1>1, <1>5, IsASeq
<1> QED BY <1>6 DEF IsSeq

LEMMA SeqFacts ==
  ASSUME NEW s, IsSeq(s)
  PROVE  Len(s) \in Nat /\ DOMAIN s = 1..Len(s) /\ (s = <<>> <=> Len(s) = 0)
  BY DEF IsSeq

LEMMA SeqAppend ==
  ASSUME NEW s, IsSeq(s), NEW e
  PROVE  /\ IsSeq(Append(s, e)) /\ Len(Append(s, e)) = Len(s) + 1
         /\ DOMAIN Append(s, e) = 1..Len(s) + 1
         /\ \A i \in 1..Len(s) : Append(s, e)[i] = s[i]
         /\ Append(s, e)[Len(s) + 1] = e
<1> DEFINE S == {s[i] : i \in DOMAIN s}
           T == S \cup {e}
<1>1. s \in Seq(T)
  <2>1. s \in Seq(S) BY DEF IsSeq
  <2> HIDE DEF S
  <2> QED BY <2>1
<1>2. e \in T OBVIOUS
<1> HIDE DEF T
<1>3. Append(s, e) \in Seq(T) BY <1>1, <1>2
<1>4. IsSeq(Append(s, e)) BY <1>3, SeqOf
<1> QED BY <1>1, <1>2, <1>4, AppendProperties

LEMMA SeqExcept ==
  ASSUME NEW s, IsSeq(s), NEW k \in DOMAIN s, NEW e
  PROVE  /\ IsSeq([s EXCEPT ![k] = e]) /\ Len([s EXCEPT ![k] = e]) = Len(s)
         /\ DOMAIN [s EXCEPT ![k] = e] = DOMAIN s
         /\ [s EXCEPT ![k] = e][k] = e
         /\ \A i \in DOMAIN s : i # k => [s EXCEPT ![k] = e][i] = s[i]
<1> DEFINE S == {s[i] : i \in DOMAIN s}
           T == S \cup {e}
           u == [s EXCEPT ![k] = e]
<1>1. s \in Seq(T)
  <2>1. s \in Seq(S) BY DEF IsSeq
  <2> HIDE DEF S
  <2> QED BY <2>1
<1>2. e \in T OBVIOUS
<1> HIDE DEF T
<1>3. u \in Seq(T) /\ Len(u) = Len(s) BY <1>1, <1>2, ExceptSeq
<1>4. IsSeq(u) BY <1>3, SeqOf
<1> QED BY <1>1, <1>2, <1>3, <1>4
-----------------------------------------------------------------------------
(* What a transition finds: threads in order, and no ambiguity but of      *)
(* captures.                                                               *)
WorkFields == {"seen", "gone", "out", "path", "match", "flagged", "work", "stop"}
WorkOK(x, w) ==
  DOMAIN w = WorkFields /\ IsSeq(w.out) /\ (w.stop = "Ambiguous" => x.kind = "capture")
AreaOK(x, v) == DOMAIN v = {"w", "stack", "seeds"} /\ WorkOK(x, v.w)

LEMMA ProduceKeeps ==
  ASSUME NEW p, NEW x, NEW w, NEW t, NEW mask, WorkOK(x, w)
  PROVE  WorkOK(x, A(p)!Produce(x, w, t, mask))
<1>1. CASE t \in w.gone
  BY <1>1 DEF A!Produce
<1>2. CASE t \notin w.gone /\ (A(p)!Full(w) \/ Len(w.out) >= Threads)
  BY <1>2 DEF A!Produce, A!Stop, WorkOK, WorkFields
<1>3. CASE t \notin w.gone /\ x.kind = "capture" /\ w.out # <<>>
           /\ ~(A(p)!Full(w) \/ Len(w.out) >= Threads)
  BY <1>3 DEF A!Produce, A!Stop, WorkOK, WorkFields
<1>4. CASE t \notin w.gone /\ ~(A(p)!Full(w) \/ Len(w.out) >= Threads)
           /\ ~(x.kind = "capture" /\ w.out # <<>>)
  <2>1. IsSeq(Append(w.out, t)) BY SeqAppend DEF WorkOK
  <2>2. A(p)!Produce(x, w, t, mask)
          = [w EXCEPT !.gone = @ \cup {t}, !.out = Append(@, t), !.path = mask]
    BY <1>4 DEF A!Produce
  <2> QED BY <2>1, <2>2 DEF WorkOK, WorkFields
<1> QED BY <1>1, <1>2, <1>3, <1>4

LEMMA VisitedKeeps ==
  ASSUME NEW p, NEW x, NEW w, NEW t, WorkOK(x, w)
  PROVE  WorkOK(x, A(p)!Visited(x, w, t))
<1> DEFINE v == [w EXCEPT !.flagged = @ \/ t.pc = 1]
           m == [w EXCEPT !.flagged = TRUE, !.match = t.mask, !.stop = "Match"]
<1>1. WorkOK(x, v) BY DEF WorkOK, WorkFields
<1>2. WorkOK(x, m) BY DEF WorkOK, WorkFields
<1> HIDE DEF v, m
<1>3. \A u, mask : WorkOK(x, A(p)!Produce(x, v, u, mask)) /\ WorkOK(x, A(p)!Produce(x, w, u, mask))
  BY <1>1, ProduceKeeps
<1> QED BY <1>1, <1>2, <1>3 DEF A!Visited, v, m

LEMMA ExploreKeeps ==
  ASSUME NEW p, NEW x, NEW v, AreaOK(x, v)
  PROVE  AreaOK(x, A(p)!Explore(x, v))
<1> DEFINE w == v.w
           t == Head(v.stack)
           marked == [w EXCEPT !.seen = @ \cup {A(p)!Bare(t)}, !.work = @ + 1]
           visited == A(p)!Visited(x, marked, t)
<1>1. WorkOK(x, w) BY DEF AreaOK
<1>2. WorkOK(x, marked) BY <1>1 DEF WorkOK, WorkFields
<1> HIDE DEF marked
<1>3. WorkOK(x, visited) BY <1>2, VisitedKeeps
<1> HIDE DEF visited
<1>4. WorkOK(x, A(p)!Stop(visited, "Capacity")) /\ WorkOK(x, A(p)!Stop(w, "Capacity"))
  BY <1>1, <1>3 DEF WorkOK, WorkFields, A!Stop
<1>5. \A u, stack, seeds : WorkOK(x, u) => AreaOK(x, [v EXCEPT !.w = u, !.stack = stack])
                                           /\ AreaOK(x, [v EXCEPT !.w = u])
                                           /\ AreaOK(x, [v EXCEPT !.stack = stack])
                                           /\ AreaOK(x, [v EXCEPT !.stack = stack, !.seeds = seeds])
  BY <1>1 DEF AreaOK
<1> QED BY <1>1, <1>3, <1>4, <1>5 DEF A!Explore, visited, marked, w, t

(* The rounds of a transition are a function of their number.              *)
LEMMA RoundsExist ==
  ASSUME NEW p, NEW x, NEW first, NEW N \in Nat
  PROVE  \E f : f = [n \in 0..N |-> IF n = 0 THEN first ELSE A(p)!Explore(x, f[n - 1])]
<1> DEFINE Body(f, n) == IF n = 0 THEN first ELSE A(p)!Explore(x, f[n - 1])
           UpTo(f, k) == \A n \in 0..N : n < k => f[n] = Body(f, n)
           Without == {k \in Nat : ~\E f : UpTo(f, k)}
<1>1. 0 \notin Without
  <2>1. UpTo(<<>>, 0) OBVIOUS
  <2> QED BY <2>1
<1>2. ASSUME NEW k \in Nat, NEW f, UpTo(f, k)
      PROVE  \E g : UpTo(g, k + 1)
  <2> DEFINE g == [n \in 0..N |-> Body(f, n)]
  <2>1. ASSUME NEW n \in 0..N, n < k + 1 PROVE g[n] = Body(g, n)
    <3>1. CASE n = 0 BY <3>1
    <3>2. CASE n # 0
      <4>1. n - 1 \in 0..N /\ n - 1 < k BY <2>1, <3>2
      <4>2. f[n - 1] = g[n - 1] BY <4>1, <1>2
      <4> QED BY <4>2, <3>2
    <3> QED BY <3>1, <3>2
  <2> HIDE DEF g
  <2> QED BY <2>1
<1>3. Without = {}
  <2> SUFFICES ASSUME Without # {} PROVE FALSE OBVIOUS
  <2>1. PICK k \in Without : \A j \in Without : k <= j BY LeastOf
  <2>2. k \in Nat /\ k # 0 BY <1>1, <2>1
  <2>3. k - 1 \in Nat /\ k - 1 + 1 = k /\ k - 1 \notin Without
    <3>1. k - 1 \in Nat /\ k - 1 + 1 = k /\ ~(k <= k - 1) BY <2>2
    <3> HIDE DEF Without
    <3> QED BY <2>1, <3>1
  <2>4. PICK f : UpTo(f, k - 1) BY <2>3
  <2>5. \E g : UpTo(g, k - 1 + 1)
    <3> HIDE DEF UpTo
    <3> QED BY <1>2, <2>3, <2>4
  <2> QED BY <2>1, <2>3, <2>5
<1>4. PICK f : UpTo(f, N + 1)
  <2>1. N + 1 \in Nat OBVIOUS
  <2> HIDE DEF UpTo
  <2> QED BY <2>1, <1>3
<1> DEFINE g == [n \in 0..N |-> Body(f, n)]
<1>5. \A n \in 0..N : n # 0 => f[n - 1] = g[n - 1]
  <2> SUFFICES ASSUME NEW n \in 0..N, n # 0 PROVE f[n - 1] = g[n - 1] OBVIOUS
  <2>1. n - 1 \in 0..N /\ n - 1 < N + 1 OBVIOUS
  <2> QED BY <2>1, <1>4
<1>6. g = [n \in 0..N |-> Body(g, n)]
  <2>1. \A n \in 0..N : Body(f, n) = Body(g, n)
    <3> HIDE DEF g
    <3> QED BY <1>5
  <2> HIDE DEF Body
  <2> QED BY <2>1
<1> QED BY <1>6

LEMMA TransitionShape ==
  ASSUME NEW p, NEW st, NEW sig
  PROVE  /\ IsSeq(A(p)!Transition(st, sig).out)
         /\ A(p)!Transition(st, sig).stop = "Ambiguous" => st.kind = "capture"
<1> DEFINE x == A(p)!Reading(st, sig)
           N == A(p)!MostRounds
           first == [w |-> A(p)!Nothing, stack |-> <<>>, seeds |-> A(p)!Seeds(st)]
           F == CHOOSE f : f = [n \in 0..N |-> IF n = 0 THEN first ELSE A(p)!Explore(x, f[n - 1])]
           last == CHOOSE n \in A(p)!Rounds : A(p)!Over(F[n]) \/ n = N
<1>1. A(p)!Transition(st, sig) = F[last].w
  BY DEF A!Transition
<1>2. N \in Nat BY DfaConstants DEF A!MostRounds
<1>3. last \in 0..N
  <2>1. N \in A(p)!Rounds /\ A(p)!Rounds \subseteq 0..N BY <1>2 DEF A!Rounds
  <2> HIDE DEF F, N
  <2>2. \E n \in A(p)!Rounds : A(p)!Over(F[n]) \/ n = N BY <2>1
  <2>3. last \in A(p)!Rounds BY <2>2
  <2> QED BY <2>1, <2>3
<1>4. x.kind = st.kind BY DEF A!Reading
<1>5. AreaOK(x, first)
  <2>1. IsSeq(<<>>)
    <3>1. <<>> \in Seq({}) OBVIOUS
    <3> QED BY <3>1, SeqOf
  <2> QED BY <2>1 DEF AreaOK, WorkOK, WorkFields, A!Nothing
<1> HIDE DEF last, x, N, first
<1>6. F = [n \in 0..N |-> IF n = 0 THEN first ELSE A(p)!Explore(x, F[n - 1])]
  BY <1>2, RoundsExist
<1> HIDE DEF F
<1> DEFINE Bad == {n \in 0..N : ~AreaOK(x, F[n])}
<1>7. Bad = {}
  <2> SUFFICES ASSUME Bad # {} PROVE FALSE OBVIOUS
  <2>1. PICK n \in Bad : \A m \in Bad : n <= m
    <3>1. Bad \in SUBSET Nat BY <1>2
    <3> HIDE DEF Bad
    <3> QED BY <3>1, LeastOf
  <2>2. n \in 0..N /\ ~AreaOK(x, F[n]) BY <2>1
  <2>3. n # 0 BY <1>2, <1>5, <1>6, <2>2
  <2>4. n - 1 \in 0..N /\ ~(n <= n - 1) BY <1>2, <2>2, <2>3
  <2>5. AreaOK(x, F[n - 1]) BY <2>1, <2>4
  <2>6. F[n] = A(p)!Explore(x, F[n - 1]) BY <1>6, <2>2, <2>3
  <2>7. AreaOK(x, F[n]) BY <2>5, <2>6, ExploreKeeps
  <2> QED BY <2>2, <2>7
<1>8. AreaOK(x, F[last]) BY <1>3, <1>7
<1> QED BY <1>1, <1>4, <1>8 DEF AreaOK, WorkOK

-----------------------------------------------------------------------------
(* The words in use are counted state by state.                            *)
Tally(f, s, columns) ==
  f = [k \in 0..Len(s) |-> IF k = 0 THEN 0 ELSE f[k - 1] + Words(s[k], columns)]

LEMMA TallyExists ==
  ASSUME NEW s, IsSeq(s), NEW columns
  PROVE  \E f : Tally(f, s, columns)
<1> DEFINE N == Len(s)
           Body(f, n) == IF n = 0 THEN 0 ELSE f[n - 1] + Words(s[n], columns)
           UpTo(f, k) == \A n \in 0..N : n < k => f[n] = Body(f, n)
           Without == {k \in Nat : ~\E f : UpTo(f, k)}
<1>n. N \in Nat BY SeqFacts
<1> HIDE DEF N
<1>1. 0 \notin Without
  <2>1. UpTo(<<>>, 0) BY <1>n
  <2> QED BY <2>1
<1>2. ASSUME NEW k \in Nat, NEW f, UpTo(f, k)
      PROVE  \E g : UpTo(g, k + 1)
  <2> DEFINE g == [n \in 0..N |-> Body(f, n)]
  <2>1. ASSUME NEW n \in 0..N, n < k + 1 PROVE g[n] = Body(g, n)
    <3>1. CASE n = 0 BY <3>1
    <3>2. CASE n # 0
      <4>1. n - 1 \in 0..N /\ n - 1 < k BY <1>n, <2>1, <3>2
      <4>2. f[n - 1] = g[n - 1] BY <4>1, <1>2
      <4> QED BY <4>2, <3>2
    <3> QED BY <3>1, <3>2
  <2> HIDE DEF g
  <2> QED BY <2>1
<1>3. Without = {}
  <2> SUFFICES ASSUME Without # {} PROVE FALSE OBVIOUS
  <2>1. PICK k \in Without : \A j \in Without : k <= j BY LeastOf
  <2>2. k \in Nat /\ k # 0 BY <1>1, <2>1
  <2>3. k - 1 \in Nat /\ k - 1 + 1 = k /\ k - 1 \notin Without
    <3>1. k - 1 \in Nat /\ k - 1 + 1 = k /\ ~(k <= k - 1) BY <2>2
    <3> HIDE DEF Without
    <3> QED BY <2>1, <3>1
  <2>4. PICK f : UpTo(f, k - 1) BY <2>3
  <2>5. \E g : UpTo(g, k - 1 + 1)
    <3> HIDE DEF UpTo
    <3> QED BY <1>2, <2>3, <2>4
  <2> QED BY <2>1, <2>3, <2>5
<1>4. PICK f : UpTo(f, N + 1)
  <2>1. N + 1 \in Nat BY <1>n
  <2> HIDE DEF UpTo
  <2> QED BY <2>1, <1>3
<1> DEFINE g == [n \in 0..N |-> Body(f, n)]
<1>5. \A n \in 0..N : n # 0 => f[n - 1] = g[n - 1]
  <2> SUFFICES ASSUME NEW n \in 0..N, n # 0 PROVE f[n - 1] = g[n - 1] OBVIOUS
  <2>1. n - 1 \in 0..N /\ n - 1 < N + 1 BY <1>n
  <2> QED BY <2>1, <1>4
<1>6. g = [n \in 0..N |-> Body(g, n)]
  <2>1. \A n \in 0..N : Body(f, n) = Body(g, n)
    <3> HIDE DEF g
    <3> QED BY <1>5
  <2> HIDE DEF Body
  <2> QED BY <2>1
<1> QED BY <1>6 DEF Tally, N

(* Two counts agree as far as the states are as long.                      *)
Alike(s, u, columns) ==
  /\ IsSeq(s) /\ IsSeq(u) /\ Len(s) <= Len(u)
  /\ \A k \in 1..Len(s) : Words(s[k], columns) = Words(u[k], columns)

LEMMA TalliesAgree ==
  ASSUME NEW s, NEW u, NEW columns, Alike(s, u, columns),
         NEW f, Tally(f, s, columns), NEW g, Tally(g, u, columns)
  PROVE  \A k \in 0..Len(s) : f[k] = g[k]
<1> USE DEF Alike
<1> DEFINE Bad == {k \in 0..Len(s) : f[k] # g[k]}
<1>1. Len(s) \in Nat /\ Len(u) \in Nat BY SeqFacts
<1> SUFFICES ASSUME Bad # {} PROVE FALSE OBVIOUS
<1>2. PICK k \in Bad : \A m \in Bad : k <= m
  <2>1. Bad \in SUBSET Nat BY <1>1
  <2> HIDE DEF Bad
  <2> QED BY <2>1, LeastOf
<1>3. k \in 0..Len(s) /\ k \in 0..Len(u) /\ f[k] # g[k] BY <1>1, <1>2
<1>4. k # 0 BY <1>1, <1>3 DEF Tally
<1>5. k - 1 \in 0..Len(s) /\ ~(k <= k - 1) /\ k \in 1..Len(s) BY <1>1, <1>3, <1>4
<1>6. f[k - 1] = g[k - 1] BY <1>2, <1>5
<1>7. f[k] = f[k - 1] + Words(s[k], columns) BY <1>3, <1>4 DEF Tally
<1>8. g[k] = g[k - 1] + Words(u[k], columns) BY <1>3, <1>4 DEF Tally
<1> QED BY <1>3, <1>5, <1>6, <1>7, <1>8

LEMMA TallyIsNat ==
  ASSUME NEW s, IsSeq(s), NEW columns, \A k \in 1..Len(s) : Words(s[k], columns) \in Nat,
         NEW f, Tally(f, s, columns)
  PROVE  \A k \in 0..Len(s) : f[k] \in Nat
<1> DEFINE Bad == {k \in 0..Len(s) : f[k] \notin Nat}
<1>1. Len(s) \in Nat BY SeqFacts
<1> SUFFICES ASSUME Bad # {} PROVE FALSE OBVIOUS
<1>2. PICK k \in Bad : \A m \in Bad : k <= m
  <2>1. Bad \in SUBSET Nat BY <1>1
  <2> HIDE DEF Bad
  <2> QED BY <2>1, LeastOf
<1>3. k \in 0..Len(s) /\ f[k] \notin Nat BY <1>1, <1>2
<1>4. k # 0 BY <1>1, <1>3 DEF Tally
<1>5. k - 1 \in 0..Len(s) /\ ~(k <= k - 1) /\ k \in 1..Len(s) BY <1>1, <1>3, <1>4
<1>6. f[k - 1] \in Nat BY <1>2, <1>5
<1>7. f[k] = f[k - 1] + Words(s[k], columns) BY <1>3, <1>4 DEF Tally
<1> QED BY <1>3, <1>5, <1>6, <1>7

LEMMA UsedIs ==
  ASSUME NEW c, IsSeq(c.states)
  PROVE  \E f : Tally(f, c.states, c.columns)
                /\ Used(c) = f[Len(c.states)] + TagWords * Cardinality(c.tags)
<1> DEFINE F == CHOOSE f : Tally(f, c.states, c.columns)
<1>1. Tally(F, c.states, c.columns) BY TallyExists
<1>2. Used(c) = F[Len(c.states)] + TagWords * Cardinality(c.tags) BY DEF Used, Tally
<1> QED BY <1>1, <1>2

-----------------------------------------------------------------------------
(* What the storage satisfies between the operations on it.                *)
CacheFields ==
  {"room", "built", "disabled", "noCaptures", "columns", "classes", "table", "memo",
   "states", "tags", "slots", "units", "bad"}
StateFields == {"kind", "inject", "context", "threads", "row"}

(* The state a transition may lead to that is never held is the dead one.  *)
Alive(st) == st.threads # <<>> \/ st.inject
StateOK(st) == DOMAIN st = StateFields /\ IsSeq(st.threads) /\ Alive(st)

Limits(c) ==
  c.room \in Nat /\ c.bad \in 0..ThrashLimit /\ (~c.disabled => c.bad < ThrashLimit)

(* Classes: each has a column, and what is noted of a character is its own.*)
ClassOf(c, column, ch) ==
  column \in 2..Len(c.classes) + 1 /\ c.classes[column - 1] = A(program)!Signature(ch)
Classed(c) ==
  /\ IsSeq(c.classes) /\ Len(c.classes) <= MaxClasses
  /\ c.columns \in Nat /\ Len(c.classes) + 2 <= c.columns
  /\ \A ch \in DOMAIN c.table : ClassOf(c, c.table[ch], ch)
  /\ DOMAIN c.memo = 0..MemoSlots - 1 /\ MemoUsed(c) < MemoSlots
  /\ \A slot \in DOMAIN c.memo : c.memo[slot] # <<>> => ClassOf(c, c.memo[slot][2], c.memo[slot][1])

(* States: each once, its entries what would be computed, and all they     *)
(* lead to held; the start states are where they are looked for.           *)
RowTrue(c, i) ==
  \A column \in DOMAIN c.states[i].row :
    /\ column \in {0} \cup 2..Len(c.classes) + 1
    /\ c.states[i].row[column].next \in DOMAIN c.states \cup {DEAD, AMBIGUOUS}
    /\ EntryTrue(c, i, column)
Stored(c) ==
  /\ IsSeq(c.states)
  /\ \A i \in DOMAIN c.states : StateOK(c.states[i]) /\ RowTrue(c, i)
  /\ \A i, j \in DOMAIN c.states : Plain(c.states[i]) = Plain(c.states[j]) => i = j
  /\ \A slot \in DOMAIN c.slots :
       c.slots[slot] \in DOMAIN c.states
       /\ Plain(c.states[c.slots[slot]]) = StartOf(slot[1], slot[2])

Counted(c) == IsFiniteSet(c.tags) /\ Len(c.states) <= MaxStates /\ Used(c) <= c.room

Good(c) == DOMAIN c = CacheFields /\ Limits(c) /\ Classed(c) /\ Stored(c) /\ Counted(c)

(* Each part depends on some of the fields.                                *)
LEMMA ClassedSame ==
  ASSUME NEW c, NEW e, e.classes = c.classes, e.columns = c.columns, e.table = c.table,
         e.memo = c.memo, Classed(c)
  PROVE  Classed(e)
  BY DEF Classed, ClassOf, MemoUsed

LEMMA EntrySame ==
  ASSUME NEW c, NEW e, NEW i, NEW j, NEW column,
         Plain(e.states[j]) = Plain(c.states[i]),
         e.states[j].row[column] = c.states[i].row[column],
         column # 0 => e.classes[column - 1] = c.classes[column - 1],
         c.states[i].row[column].next > 0 =>
           Plain(e.states[c.states[i].row[column].next]) = Plain(c.states[c.states[i].row[column].next]),
         EntryTrue(c, i, column)
  PROVE  EntryTrue(e, j, column)
<1> DEFINE st == Plain(c.states[i])
           sig == IF column = 0 THEN <<>> ELSE <<c.classes[column - 1]>>
           w == A(program)!Transition(st, sig)
           next == A(program)!Successor(st, sig, w)
<1>1. (IF column = 0 THEN <<>> ELSE <<e.classes[column - 1]>>) = sig OBVIOUS
<1> HIDE DEF sig, st
<1> QED BY <1>1 DEF EntryTrue, sig, st

LEMMA StoredSame ==
  ASSUME NEW c, NEW e, e.states = c.states, e.classes = c.classes, e.slots = c.slots, Stored(c)
  PROVE  Stored(e)
<1>1. \A i, column : EntryTrue(c, i, column) => EntryTrue(e, i, column)
  BY EntrySame
<1>2. \A i : RowTrue(c, i) => RowTrue(e, i) BY <1>1 DEF RowTrue
<1> QED BY <1>2 DEF Stored

LEMMA UsedSame ==
  ASSUME NEW c, NEW e, e.states = c.states, e.columns = c.columns, e.tags = c.tags
  PROVE  Used(e) = Used(c)
  BY DEF Used

LEMMA CountedSame ==
  ASSUME NEW c, NEW e, e.states = c.states, e.columns = c.columns, e.tags = c.tags,
         e.room = c.room, Counted(c)
  PROVE  Counted(e)
  BY UsedSame DEF Counted

(* The words in use: all of a new state, none of a changed entry.          *)
Sized(c) == IsSeq(c.states) /\ c.columns \in Nat /\ \A i \in DOMAIN c.states : IsSeq(c.states[i].threads)

LEMMA StoredSized ==
  ASSUME NEW c, Stored(c), Classed(c)
  PROVE  Sized(c)
  BY DEF Stored, Classed, Sized, StateOK

LEMMA WordsIsNat ==
  ASSUME NEW st, IsSeq(st.threads), NEW columns \in Nat
  PROVE  Words(st, columns) \in Nat
<1> DEFINE n == Len(st.threads)
<1>1. n \in Nat BY SeqFacts
<1>2. Words(st, columns) = columns + 2 + 2 * n + (IF st.kind = "capture" THEN columns ELSE 0)
  BY DEF Words
<1> HIDE DEF n
<1> QED BY <1>1, <1>2

LEMMA UsedIsNat ==
  ASSUME NEW c, Sized(c), IsFiniteSet(c.tags)
  PROVE  Used(c) \in Nat
<1>1. PICK f : Tally(f, c.states, c.columns)
               /\ Used(c) = f[Len(c.states)] + TagWords * Cardinality(c.tags)
  BY UsedIs DEF Sized
<1>2. Len(c.states) \in Nat /\ DOMAIN c.states = 1..Len(c.states) BY SeqFacts DEF Sized
<1>3. \A k \in 1..Len(c.states) : Words(c.states[k], c.columns) \in Nat
  BY <1>2, WordsIsNat DEF Sized
<1>4. f[Len(c.states)] \in Nat
  <2>1. \A k \in 0..Len(c.states) : f[k] \in Nat BY <1>1, <1>3, TallyIsNat DEF Sized
  <2> QED BY <1>2, <2>1
<1>5. Cardinality(c.tags) \in Nat BY FS_CardinalityType
<1> QED BY <1>1, <1>4, <1>5 DEF TagWords

LEMMA UsedNothing ==
  ASSUME NEW c, c.states = <<>>, c.tags = {}
  PROVE  Used(c) = 0
<1>0. IsSeq(c.states)
  <2>1. <<>> \in Seq({}) OBVIOUS
  <2> QED BY <2>1, SeqOf
<1>1. PICK f : Tally(f, c.states, c.columns)
               /\ Used(c) = f[Len(c.states)] + TagWords * Cardinality(c.tags)
  BY <1>0, UsedIs
<1>2. f[0] = 0 /\ Len(c.states) = 0 BY <1>1 DEF Tally
<1>3. Cardinality(c.tags) = 0 BY FS_EmptySet
<1> QED BY <1>1, <1>2, <1>3 DEF TagWords

LEMMA UsedAppend ==
  ASSUME NEW c, Sized(c), IsFiniteSet(c.tags), NEW e, NEW st, IsSeq(st.threads),
         e.states = Append(c.states, st), e.columns = c.columns, e.tags = c.tags
  PROVE  Used(e) = Used(c) + Words(st, c.columns)
<1> DEFINE n == Len(c.states)
<1>1. IsSeq(c.states) /\ c.columns \in Nat BY DEF Sized
<1>2. /\ IsSeq(e.states) /\ Len(e.states) = n + 1 /\ e.states[n + 1] = st
      /\ \A i \in 1..n : e.states[i] = c.states[i]
  BY <1>1, SeqAppend
<1>3. n \in Nat /\ DOMAIN c.states = 1..n BY <1>1, SeqFacts
<1>4. PICK f : Tally(f, c.states, c.columns) /\ Used(c) = f[n] + TagWords * Cardinality(c.tags)
  BY <1>1, UsedIs
<1>5. PICK g : Tally(g, e.states, c.columns)
               /\ Used(e) = g[n + 1] + TagWords * Cardinality(c.tags)
  BY <1>2, UsedIs
<1>6. n <= Len(e.states) /\ \A k \in 1..n : Words(c.states[k], c.columns) = Words(e.states[k], c.columns)
  BY <1>2, <1>3
<1>7. f[n] = g[n]
  <2>1. Alike(c.states, e.states, c.columns) BY <1>1, <1>2, <1>6 DEF Alike
  <2>2. \A k \in 0..n : f[k] = g[k] BY <1>4, <1>5, <2>1, TalliesAgree
  <2> QED BY <1>3, <2>2
<1>8. f[n] \in Nat
  <2>1. \A k \in 1..n : Words(c.states[k], c.columns) \in Nat BY <1>3, WordsIsNat DEF Sized
  <2>2. \A k \in 0..n : f[k] \in Nat BY <1>1, <1>4, <2>1, TallyIsNat
  <2> QED BY <1>3, <2>2
<1>9. g[n + 1] = g[n] + Words(st, c.columns)
  <2>1. n + 1 \in 0..Len(e.states) /\ n + 1 # 0 /\ (n + 1) - 1 = n BY <1>2, <1>3
  <2>2. \A k \in 0..Len(e.states) : k # 0 => g[k] = g[k - 1] + Words(e.states[k], c.columns)
    BY <1>5 DEF Tally
  <2> QED BY <1>2, <2>1, <2>2
<1>10. Words(st, c.columns) \in Nat BY <1>1, WordsIsNat
<1>11. Cardinality(c.tags) \in Nat BY FS_CardinalityType
<1> HIDE DEF n
<1> QED BY <1>4, <1>5, <1>7, <1>8, <1>9, <1>10, <1>11 DEF TagWords

LEMMA UsedLike ==
  ASSUME NEW c, IsSeq(c.states), NEW e, IsSeq(e.states), Len(e.states) = Len(c.states),
         e.columns = c.columns, e.tags = c.tags,
         \A i \in 1..Len(c.states) : e.states[i].threads = c.states[i].threads
                                     /\ e.states[i].kind = c.states[i].kind
  PROVE  Used(e) = Used(c)
<1> DEFINE n == Len(c.states)
<1>1. n \in Nat BY SeqFacts
<1>2. PICK f : Tally(f, c.states, c.columns) /\ Used(c) = f[n] + TagWords * Cardinality(c.tags)
  BY UsedIs
<1>3. PICK g : Tally(g, e.states, c.columns) /\ Used(e) = g[n] + TagWords * Cardinality(c.tags)
  BY UsedIs
<1>4. \A k \in 1..n : Words(c.states[k], c.columns) = Words(e.states[k], c.columns) BY DEF Words
<1>5. n <= Len(e.states) /\ n \in 0..n BY <1>1
<1>6. f[n] = g[n]
  <2>1. Alike(c.states, e.states, c.columns) BY <1>4, <1>5 DEF Alike
  <2>2. \A k \in 0..n : f[k] = g[k] BY <1>2, <1>3, <2>1, TalliesAgree
  <2> QED BY <1>5, <2>2
<1> QED BY <1>2, <1>3, <1>6

LEMMA UsedTag ==
  ASSUME NEW c, Sized(c), IsFiniteSet(c.tags), NEW tag, tag \notin c.tags, NEW e,
         e.states = c.states, e.columns = c.columns, e.tags = c.tags \cup {tag}
  PROVE  Used(e) = Used(c) + TagWords /\ IsFiniteSet(e.tags)
<1> DEFINE n == Len(c.states)
<1>1. PICK f : Tally(f, c.states, c.columns) /\ Used(c) = f[n] + TagWords * Cardinality(c.tags)
  BY UsedIs DEF Sized
<1>2. PICK g : Tally(g, c.states, c.columns) /\ Used(e) = g[n] + TagWords * Cardinality(e.tags)
  BY UsedIs DEF Sized
<1>3. n \in Nat /\ DOMAIN c.states = 1..n BY SeqFacts DEF Sized
<1>4. f[n] = g[n]
  <2>1. Alike(c.states, c.states, c.columns) BY <1>3 DEF Alike, Sized
  <2>2. \A k \in 0..n : f[k] = g[k] BY <1>1, <1>2, <2>1, TalliesAgree DEF Sized
  <2> QED BY <1>3, <2>2
<1>5. f[n] \in Nat
  <2>1. \A k \in 1..n : Words(c.states[k], c.columns) \in Nat BY <1>3, WordsIsNat DEF Sized
  <2>2. \A k \in 0..n : f[k] \in Nat BY <1>1, <2>1, TallyIsNat DEF Sized
  <2> QED BY <1>3, <2>2
<1>6. Cardinality(e.tags) = Cardinality(c.tags) + 1 /\ Cardinality(c.tags) \in Nat /\ IsFiniteSet(e.tags)
  BY FS_AddElement, FS_CardinalityType
<1> HIDE DEF n
<1> QED BY <1>1, <1>2, <1>4, <1>5, <1>6 DEF TagWords

-----------------------------------------------------------------------------
(* A step of a search over such storage: Proper before its states are      *)
(* looked at, as they are being dropped; Sound otherwise.  One that goes   *)
(* no further is declined for a reason that is no answer.                  *)
StepFields == {"cache", "budget", "s", "read", "flushed", "stop", "got"}
Shaped(d) == DOMAIN d = StepFields /\ DOMAIN d.cache = CacheFields
Unanswered(stop) == stop # "Match" /\ stop # "NoMatch"
Proper(d) ==
  /\ Shaped(d) /\ Limits(d.cache) /\ Classed(d.cache)
  /\ (d.stop = "go" => ~d.cache.disabled) /\ Unanswered(d.stop)
Sound(d) == Proper(d) /\ Stored(d.cache) /\ Counted(d.cache)

(* A step that goes on only where the one before it did.                   *)
After(d, e) ==
  /\ e.stop = "go" => d.stop = "go"
  /\ Unanswered(d.stop) => Unanswered(e.stop)

LEMMA SoundSame ==
  ASSUME NEW d, NEW e, Sound(d), DOMAIN e = StepFields, e.cache = d.cache, After(d, e)
  PROVE  Sound(e)
  BY DEF Sound, Proper, Shaped, After, Unanswered

LEMMA ProperSame ==
  ASSUME NEW d, NEW e, Proper(d), DOMAIN e = StepFields, e.cache = d.cache, After(d, e)
  PROVE  Proper(e)
  BY DEF Proper, Shaped, After, Unanswered

LEMMA ChargeFacts ==
  ASSUME NEW d, NEW n, DOMAIN d = StepFields
  PROVE  /\ DOMAIN Charge(d, n) = StepFields /\ Charge(d, n).cache = d.cache
         /\ Charge(d, n).s = d.s /\ Charge(d, n).got = d.got /\ After(d, Charge(d, n))
         /\ d.stop # "go" => Charge(d, n) = d
  BY DEF Charge, IfGo, StepFields, After, Unanswered

LEMMA GotFacts ==
  ASSUME NEW d, NEW what, DOMAIN d = StepFields
  PROVE  /\ DOMAIN Got(d, what) = StepFields /\ Got(d, what).cache = d.cache
         /\ Got(d, what).s = d.s /\ Got(d, what).stop = d.stop /\ After(d, Got(d, what))
         /\ d.stop = "go" => Got(d, what).got = what
         /\ d.stop # "go" => Got(d, what) = d
  BY DEF Got, IfGo, StepFields, After, Unanswered

LEMMA HaltFacts ==
  ASSUME NEW d, NEW why, why # "go", Unanswered(why), DOMAIN d = StepFields
  PROVE  /\ DOMAIN Halt(d, why) = StepFields /\ Halt(d, why).cache = d.cache
         /\ Halt(d, why).s = d.s /\ Halt(d, why).stop # "go" /\ After(d, Halt(d, why))
         /\ d.stop # "go" => Halt(d, why) = d
  BY DEF Halt, IfGo, StepFields, After, Unanswered

-----------------------------------------------------------------------------
(* States: found, or built where there is room.                            *)
IsPlain(st) == st = Plain(st) /\ IsSeq(st.threads)

LEMMA PlainIs ==
  ASSUME NEW st, StateOK(st)
  PROVE  IsPlain(Plain(st)) /\ Alive(Plain(st))
  BY DEF IsPlain, Plain, StateOK, Alive

LEMMA HeldIs ==
  ASSUME NEW st, IsPlain(st), Alive(st)
  PROVE  StateOK(Held(st)) /\ Plain(Held(st)) = st /\ DOMAIN Held(st).row = {}
  BY DEF IsPlain, Plain, StateOK, Alive, Held, StateFields

LEMMA SameIs ==
  ASSUME NEW c, NEW st, IsPlain(st), NEW i
  PROVE  i \in Same(c, st) <=> i \in DOMAIN c.states /\ Plain(c.states[i]) = st
<1>1. DOMAIN st = {"kind", "inject", "context", "threads"} BY DEF IsPlain, Plain
<1>2. i \in Same(c, st) <=> i \in DOMAIN c.states
        /\ c.states[i].kind = st.kind /\ c.states[i].inject = st.inject
        /\ c.states[i].context = st.context /\ c.states[i].threads = st.threads
  BY <1>1 DEF Same
<1> QED BY <1>2 DEF IsPlain, Plain

LEMMA BuiltIsStored ==
  ASSUME NEW c, Stored(c), NEW e, NEW st, IsPlain(st), Alive(st), Same(c, st) = {},
         e.states = Append(c.states, Held(st)), e.classes = c.classes, e.slots = c.slots
  PROVE  /\ Stored(e) /\ Plain(e.states[Len(c.states) + 1]) = st
         /\ DOMAIN e.states = 1..Len(c.states) + 1
         /\ \A i \in DOMAIN c.states : i \in DOMAIN e.states /\ e.states[i] = c.states[i]
<1> DEFINE n == Len(c.states)
<1>1. IsSeq(c.states) /\ n \in Nat /\ DOMAIN c.states = 1..n BY SeqFacts DEF Stored
<1>2. /\ IsSeq(e.states) /\ DOMAIN e.states = 1..n + 1
      /\ \A i \in 1..n : e.states[i] = c.states[i]
      /\ e.states[n + 1] = Held(st)
  BY <1>1, SeqAppend
<1>3. StateOK(e.states[n + 1]) /\ Plain(e.states[n + 1]) = st /\ DOMAIN e.states[n + 1].row = {}
  BY <1>2, HeldIs
<1> HIDE DEF n
<1>4. \A i \in 1..n : Plain(e.states[i]) # st BY <1>1, <1>2, SameIs
<1>5. \A i \in 1..n : StateOK(e.states[i]) BY <1>1, <1>2 DEF Stored
<1>6. \A i, j \in 1..n + 1 : Plain(e.states[i]) = Plain(e.states[j]) => i = j
  <2>1. \A i, j \in 1..n : Plain(e.states[i]) = Plain(e.states[j]) => i = j
    BY <1>1, <1>2 DEF Stored
  <2>2. \A i \in 1..n + 1 : i \in 1..n \/ i = n + 1 BY <1>1
  <2> QED BY <2>1, <2>2, <1>3, <1>4
<1>7. ASSUME NEW i \in 1..n PROVE RowTrue(e, i)
  <2>1. RowTrue(c, i) BY <1>1 DEF Stored
  <2>2. ASSUME NEW column \in DOMAIN e.states[i].row
        PROVE  /\ column \in {0} \cup 2..Len(e.classes) + 1
               /\ e.states[i].row[column].next \in DOMAIN e.states \cup {DEAD, AMBIGUOUS}
               /\ EntryTrue(e, i, column)
    <3> DEFINE next == c.states[i].row[column].next
    <3>1. /\ column \in {0} \cup 2..Len(c.classes) + 1 /\ next \in 1..n \cup {DEAD, AMBIGUOUS}
          /\ EntryTrue(c, i, column)
      BY <1>1, <1>2, <2>1, <2>2 DEF RowTrue
    <3>2. next > 0 => next \in 1..n BY <3>1 DEF DEAD, AMBIGUOUS
    <3>3. next > 0 => Plain(e.states[next]) = Plain(c.states[next]) BY <3>2, <1>2
    <3>4. EntryTrue(e, i, column) BY <1>2, <3>1, <3>3, EntrySame
    <3> QED BY <1>1, <1>2, <3>1, <3>4
  <2> QED BY <2>2 DEF RowTrue
<1>8. RowTrue(e, n + 1) BY <1>3 DEF RowTrue
<1>9. \A i \in 1..n + 1 : StateOK(e.states[i]) /\ RowTrue(e, i)
  <2>1. \A i \in 1..n + 1 : i \in 1..n \/ i = n + 1 BY <1>1
  <2> QED BY <2>1, <1>3, <1>5, <1>7, <1>8
<1>10. \A slot \in DOMAIN e.slots :
         e.slots[slot] \in 1..n + 1 /\ Plain(e.states[e.slots[slot]]) = StartOf(slot[1], slot[2])
  <2> SUFFICES ASSUME NEW slot \in DOMAIN c.slots
               PROVE  c.slots[slot] \in 1..n + 1
                      /\ Plain(e.states[c.slots[slot]]) = StartOf(slot[1], slot[2])
    OBVIOUS
  <2>1. c.slots[slot] \in 1..n /\ Plain(c.states[c.slots[slot]]) = StartOf(slot[1], slot[2])
    BY <1>1 DEF Stored
  <2>2. c.slots[slot] \in 1..n + 1 BY <1>1, <2>1
  <2> QED BY <2>1, <2>2, <1>2
<1>11. Stored(e) BY <1>2, <1>6, <1>9, <1>10 DEF Stored
<1>12. \A i \in 1..n : i \in 1..n + 1 BY <1>1
<1> QED BY <1>1, <1>2, <1>3, <1>11, <1>12 DEF n

(* What an operation found: nothing but the dead state, or one it holds.   *)
Found(e, st) ==
  \/ ~Alive(st) /\ e.got = DEAD
  \/ Alive(st) /\ e.got \in DOMAIN e.cache.states /\ Plain(e.cache.states[e.got]) = st

(* Nothing is dropped.                                                     *)
Grows(c, e) ==
  /\ e.classes = c.classes /\ e.columns = c.columns /\ e.slots = c.slots /\ e.table = c.table
  /\ \A i \in DOMAIN c.states : i \in DOMAIN e.states /\ e.states[i] = c.states[i]

LEMMA InternFacts ==
  ASSUME NEW d, Sound(d), NEW st, IsPlain(st)
  PROVE  /\ Sound(Intern(d, st)) /\ After(d, Intern(d, st)) /\ Intern(d, st).s = d.s
         /\ Grows(d.cache, Intern(d, st).cache)
         /\ Intern(d, st).stop = "go" => Found(Intern(d, st), st) \/ Intern(d, st).got = NONE
<1> DEFINE c == d.cache
           size == Words(st, c.columns)
           paid == Charge(d, size \div 8 + 1)
           built == [paid EXCEPT !.cache.states = Append(@, Held(st)), !.got = Len(c.states) + 1]
<1> SUFFICES ASSUME NEW e, e = Intern(d, st)
             PROVE  /\ Sound(e) /\ After(d, e) /\ e.s = d.s /\ Grows(c, e.cache)
                    /\ e.stop = "go" => Found(e, st) \/ e.got = NONE
  OBVIOUS
<1>0. DOMAIN d = StepFields /\ DOMAIN c = CacheFields BY DEF Sound, Proper, Shaped
<1>1. Grows(c, c) BY DEF Grows
<1>2. CASE d.stop # "go"
  <2>1. e = d BY <1>2 DEF Intern
  <2> QED BY <2>1, <1>1, <1>2 DEF After, Unanswered
<1>3. CASE d.stop = "go" /\ st.threads = <<>> /\ ~st.inject
  <2>1. e = Got(d, DEAD) BY <1>3 DEF Intern
  <2>2. ~Alive(st) BY <1>3 DEF Alive
  <2>3. /\ DOMAIN e = StepFields /\ e.cache = c /\ e.s = d.s /\ After(d, e) /\ e.got = DEAD
    BY <2>1, <1>0, <1>3, GotFacts
  <2> QED BY <2>2, <2>3, <1>1, SoundSame DEF Found
<1>4. CASE d.stop = "go" /\ ~(st.threads = <<>> /\ ~st.inject) /\ Same(c, st) # {}
  <2> DEFINE i == CHOOSE i \in Same(c, st) : TRUE
  <2>1. e = Got(d, i) BY <1>4 DEF Intern
  <2>2. i \in Same(c, st) BY <1>4
  <2> HIDE DEF i
  <2>3. i \in DOMAIN c.states /\ Plain(c.states[i]) = st BY <2>2, SameIs
  <2>4. Alive(st) BY <1>4 DEF Alive
  <2>5. /\ DOMAIN e = StepFields /\ e.cache = c /\ e.s = d.s /\ After(d, e) /\ e.got = i
    BY <2>1, <1>0, <1>4, GotFacts
  <2> QED BY <2>3, <2>4, <2>5, <1>1, SoundSame DEF Found
<1>5. CASE d.stop = "go" /\ ~(st.threads = <<>> /\ ~st.inject) /\ Same(c, st) = {}
  <2>1. CASE Used(c) + size > c.room \/ Len(c.states) + 1 > MaxStates
    <3>1. e = Got(d, NONE) BY <1>5, <2>1 DEF Intern
    <3>2. /\ DOMAIN e = StepFields /\ e.cache = c /\ e.s = d.s /\ After(d, e) /\ e.got = NONE
      BY <3>1, <1>0, <1>5, GotFacts
    <3> QED BY <3>2, <1>1, SoundSame
  <2>2. CASE ~(Used(c) + size > c.room \/ Len(c.states) + 1 > MaxStates) /\ paid.stop # "go"
    <3>1. e = paid BY <1>5, <2>2 DEF Intern
    <3>2. /\ DOMAIN e = StepFields /\ e.cache = c /\ e.s = d.s /\ After(d, e) /\ e.stop # "go"
      BY <3>1, <2>2, <1>0, ChargeFacts
    <3> QED BY <3>2, <1>1, SoundSame
  <2>3. CASE ~(Used(c) + size > c.room \/ Len(c.states) + 1 > MaxStates) /\ paid.stop = "go"
    <3>1. e = built BY <1>5, <2>3 DEF Intern
    <3>2. DOMAIN paid = StepFields /\ paid.cache = c /\ paid.s = d.s BY <1>0, ChargeFacts
    <3> HIDE DEF paid
    <3>3. /\ DOMAIN e = StepFields /\ e.s = d.s /\ e.got = Len(c.states) + 1 /\ After(d, e)
          /\ e.cache = [c EXCEPT !.states = Append(c.states, Held(st))]
      BY <3>1, <3>2, <1>5, <2>3 DEF StepFields, After, Unanswered
    <3>4. /\ DOMAIN e.cache = CacheFields /\ e.cache.states = Append(c.states, Held(st))
          /\ e.cache.room = c.room /\ e.cache.disabled = c.disabled /\ e.cache.columns = c.columns
          /\ e.cache.classes = c.classes /\ e.cache.table = c.table /\ e.cache.memo = c.memo
          /\ e.cache.tags = c.tags /\ e.cache.slots = c.slots /\ e.cache.bad = c.bad
      BY <3>3, <1>0 DEF CacheFields
    <3>5. Alive(st) BY <1>5 DEF Alive
    <3>6. /\ Stored(e.cache) /\ Plain(e.cache.states[Len(c.states) + 1]) = st
          /\ DOMAIN e.cache.states = 1..Len(c.states) + 1
          /\ \A i \in DOMAIN c.states : i \in DOMAIN e.cache.states /\ e.cache.states[i] = c.states[i]
      <4>1. Stored(c) BY DEF Sound
      <4> QED BY <4>1, <3>4, <3>5, <1>5, BuiltIsStored
    <3>7. Classed(e.cache) BY <3>4, ClassedSame DEF Sound, Proper
    <3>8. Proper(e) BY <3>3, <3>4, <3>7, <1>5 DEF Sound, Proper, Shaped, Limits, After
    <3>9. Sized(c) /\ IsFiniteSet(c.tags) BY StoredSized DEF Sound, Proper, Counted
    <3>10. IsSeq(Held(st).threads) /\ Words(Held(st), c.columns) = size
      BY HeldIs, <3>5 DEF StateOK, Held, Words
    <3>11. Used(e.cache) = Used(c) + size BY <3>4, <3>9, <3>10, UsedAppend
    <3>12. Used(c) \in Nat /\ size \in Nat
      BY <3>9, <3>10, UsedIsNat, WordsIsNat DEF Sized
    <3>13. Len(c.states) \in Nat /\ Len(e.cache.states) = Len(c.states) + 1
      BY <3>4, <3>9, SeqAppend, SeqFacts DEF Sized
    <3>14. MaxStates \in Nat /\ c.room \in Nat BY DfaConstants DEF Sound, Proper, Limits
    <3>15. Used(e.cache) <= c.room /\ Len(e.cache.states) <= MaxStates
      <4> HIDE DEF size, c
      <4> QED BY <2>3, <3>11, <3>12, <3>13, <3>14
    <3>16. Counted(e.cache) BY <3>4, <3>9, <3>15 DEF Counted
    <3>17. Found(e, st)
      <4>1. Len(c.states) + 1 \in 1..Len(c.states) + 1 BY <3>13
      <4> QED BY <4>1, <3>3, <3>5, <3>6 DEF Found
    <3>18. Grows(c, e.cache) BY <3>4, <3>6 DEF Grows
    <3> QED BY <3>3, <3>6, <3>8, <3>16, <3>17, <3>18 DEF Sound
  <2> QED BY <2>1, <2>2, <2>3
<1> QED BY <1>2, <1>3, <1>4, <1>5

-----------------------------------------------------------------------------
(* A clear drops every state and every reference to one.                   *)
LEMMA NothingStored ==
  ASSUME NEW c, c.states = <<>>, c.tags = {}, DOMAIN c.slots = {}, c.room \in Nat
  PROVE  Stored(c) /\ Counted(c)
<1>1. IsSeq(c.states)
  <2>1. <<>> \in Seq({}) OBVIOUS
  <2> QED BY <2>1, SeqOf
<1>2. DOMAIN c.states = {} BY <1>1, SeqFacts
<1>3. Stored(c) BY <1>1, <1>2 DEF Stored
<1>4. IsFiniteSet(c.tags) BY FS_EmptySet
<1>5. Used(c) = 0 BY UsedNothing
<1>6. Len(c.states) <= MaxStates BY DfaConstants
<1> QED BY <1>3, <1>4, <1>5, <1>6 DEF Counted

LEMMA FlushFacts ==
  ASSUME NEW d, Shaped(d)
  PROVE  /\ Shaped(Flush(d)) /\ Flush(d).s = d.s /\ Flush(d).stop = d.stop /\ Flush(d).got = d.got
         /\ Flush(d).cache = [d.cache EXCEPT !.units = @ + d.read - d.flushed]
  BY DEF Flush, Shaped, StepFields, CacheFields

LEMMA GoodSame ==
  ASSUME NEW c, NEW e, NEW units, e = [c EXCEPT !.units = units], Good(c)
  PROVE  Good(e)
<1>1. /\ DOMAIN e = CacheFields /\ e.room = c.room /\ e.disabled = c.disabled /\ e.columns = c.columns
      /\ e.classes = c.classes /\ e.table = c.table /\ e.memo = c.memo /\ e.states = c.states
      /\ e.tags = c.tags /\ e.slots = c.slots /\ e.bad = c.bad
  BY DEF Good, CacheFields
<1> QED BY <1>1, ClassedSame, StoredSame, CountedSame DEF Good, Limits

LEMMA SoundIsGood ==
  ASSUME NEW d
  PROVE  Sound(d) <=> /\ DOMAIN d = StepFields /\ Good(d.cache)
                      /\ (d.stop = "go" => ~d.cache.disabled) /\ Unanswered(d.stop)
  BY DEF Sound, Proper, Shaped, Good

LEMMA ThrashedFacts ==
  ASSUME NEW c, DOMAIN c = CacheFields, Limits(c), ~c.disabled
  PROVE  /\ DOMAIN Thrashed(c) = CacheFields /\ Limits(Thrashed(c))
         /\ Thrashed(c).room = c.room /\ Thrashed(c).columns = c.columns
         /\ Thrashed(c).classes = c.classes /\ Thrashed(c).table = c.table
         /\ Thrashed(c).memo = c.memo
<1> DEFINE bad == IF c.units < Len(c.states) * UnitsPerState THEN c.bad + 1 ELSE 0
<1>1. bad \in 0..ThrashLimit
  <2>1. c.bad \in 0..ThrashLimit /\ c.bad < ThrashLimit /\ ThrashLimit \in Nat
    BY DfaConstants DEF Limits
  <2> QED BY <2>1
<1>2. Thrashed(c) = [c EXCEPT !.bad = bad, !.disabled = bad >= ThrashLimit] BY DEF Thrashed
<1> HIDE DEF bad
<1>3. /\ Thrashed(c).bad = bad /\ (~Thrashed(c).disabled => ~(bad >= ThrashLimit))
      /\ DOMAIN Thrashed(c) = CacheFields
      /\ Thrashed(c).room = c.room /\ Thrashed(c).columns = c.columns
      /\ Thrashed(c).classes = c.classes /\ Thrashed(c).table = c.table
      /\ Thrashed(c).memo = c.memo
  BY <1>2 DEF CacheFields
<1>4. ThrashLimit \in Nat BY DfaConstants
<1>5. Limits(Thrashed(c)) BY <1>1, <1>3, <1>4 DEF Limits
<1> QED BY <1>3, <1>5

LEMMA ClearFacts ==
  ASSUME NEW d, Proper(d), d.stop = "go", NEW space
  PROVE  /\ Sound(Clear(d, space)) /\ Clear(d, space).s = d.s /\ After(d, Clear(d, space))
         /\ Clear(d, space).cache.classes = d.cache.classes
         /\ Clear(d, space).cache.columns = d.cache.columns
         /\ Clear(d, space).cache.table = d.cache.table
<1> DEFINE f == Flush(d)
           c == IF space THEN Thrashed(f.cache) ELSE f.cache
           cleared == [f EXCEPT !.cache = Forget(c)]
<1> SUFFICES ASSUME NEW e, e = Clear(d, space)
             PROVE  /\ Sound(e) /\ e.s = d.s /\ After(d, e) /\ e.cache.classes = d.cache.classes
                    /\ e.cache.columns = d.cache.columns /\ e.cache.table = d.cache.table
  OBVIOUS
<1>1. /\ Shaped(f) /\ f.s = d.s /\ f.stop = "go"
      /\ f.cache = [d.cache EXCEPT !.units = @ + d.read - d.flushed]
  BY FlushFacts DEF Proper
<1>2. e = IF c.disabled THEN Halt(cleared, "Disabled") ELSE cleared
  BY DEF Clear, IfGo
<1> HIDE DEF f
<1>3. /\ DOMAIN f.cache = CacheFields /\ Limits(f.cache) /\ ~f.cache.disabled
      /\ f.cache.classes = d.cache.classes /\ f.cache.columns = d.cache.columns
      /\ f.cache.table = d.cache.table /\ f.cache.memo = d.cache.memo
  BY <1>1 DEF Proper, Shaped, CacheFields, Limits
<1>4. /\ DOMAIN c = CacheFields /\ Limits(c)
      /\ c.classes = d.cache.classes /\ c.columns = d.cache.columns
      /\ c.table = d.cache.table /\ c.memo = d.cache.memo
  BY <1>3, ThrashedFacts
<1> HIDE DEF c
<1> DEFINE k == Forget(c)
<1>5. /\ DOMAIN k = CacheFields /\ k.states = <<>> /\ k.tags = {} /\ DOMAIN k.slots = {}
      /\ k.room = c.room /\ k.bad = c.bad /\ k.disabled = c.disabled
      /\ k.classes = c.classes /\ k.columns = c.columns /\ k.table = c.table /\ k.memo = c.memo
  BY <1>4 DEF Forget, CacheFields
<1> HIDE DEF k
<1>6. Good(k)
  <2>1. Limits(k) BY <1>4, <1>5 DEF Limits
  <2>2. Classed(k) BY <1>4, <1>5, ClassedSame DEF Proper
  <2>3. Stored(k) /\ Counted(k) BY <1>5, <2>1, NothingStored DEF Limits
  <2> QED BY <1>5, <2>1, <2>2, <2>3 DEF Good
<1>7. DOMAIN cleared = StepFields /\ cleared.cache = k /\ cleared.s = d.s /\ cleared.stop = "go"
  BY <1>1 DEF Shaped, StepFields, k
<1> HIDE DEF cleared
<1>8. CASE c.disabled
  <2>1. DOMAIN e = StepFields /\ e.cache = k /\ e.s = d.s /\ e.stop # "go" /\ Unanswered(e.stop)
    BY <1>2, <1>7, <1>8, HaltFacts DEF After, Unanswered
  <2> QED BY <2>1, <1>4, <1>5, <1>6, SoundIsGood DEF After
<1>9. CASE ~c.disabled
  <2>1. e = cleared BY <1>2, <1>9
  <2> QED BY <2>1, <1>4, <1>5, <1>6, <1>7, <1>9, SoundIsGood DEF After, Unanswered
<1> QED BY <1>8, <1>9

LEMMA OrCapacityFacts ==
  ASSUME NEW d, DOMAIN d = StepFields
  PROVE  /\ DOMAIN OrCapacity(d) = StepFields /\ OrCapacity(d).cache = d.cache
         /\ OrCapacity(d).s = d.s /\ After(d, OrCapacity(d))
         /\ OrCapacity(d).stop = "go" => d.got # NONE /\ OrCapacity(d) = d
  BY DEF OrCapacity, Then, Halt, IfGo, StepFields, After, Unanswered

(* What is kept of the state a search is in, wherever it is held now.      *)
Kept(d, e) ==
  /\ e.cache.classes = d.cache.classes /\ e.cache.columns = d.cache.columns
  /\ e.stop = "go" => /\ e.s \in DOMAIN e.cache.states
                      /\ Plain(e.cache.states[e.s]) = Plain(d.cache.states[d.s])

LEMMA KeepingFacts ==
  ASSUME NEW d, Proper(d), d.stop = "go", StateOK(d.cache.states[d.s]), NEW space
  PROVE  /\ Sound(Keeping(d, space)) /\ After(d, Keeping(d, space)) /\ Kept(d, Keeping(d, space))
         /\ Keeping(d, space).cache.table = d.cache.table
<1> DEFINE st == Plain(d.cache.states[d.s])
           a == Clear(d, space)
           b == Intern(a, st)
           k == OrCapacity(b)
<1> SUFFICES ASSUME NEW e, e = Keeping(d, space)
             PROVE  /\ Sound(e) /\ After(d, e) /\ Kept(d, e) /\ e.cache.table = d.cache.table
  OBVIOUS
<1>1. e = IF k.stop = "go" THEN [k EXCEPT !.s = k.got] ELSE k
  BY DEF Keeping, Then, IfGo
<1>2. IsPlain(st) /\ Alive(st) BY PlainIs
<1>3. /\ Sound(a) /\ a.cache.classes = d.cache.classes /\ a.cache.columns = d.cache.columns
      /\ a.cache.table = d.cache.table
  BY ClearFacts
<1> HIDE DEF a, st
<1>4. /\ Sound(b) /\ Grows(a.cache, b.cache)
      /\ b.stop = "go" => Found(b, st) \/ b.got = NONE
  BY <1>2, <1>3, InternFacts
<1> HIDE DEF b
<1>5. /\ DOMAIN k = StepFields /\ k.cache = b.cache /\ After(b, k)
      /\ k.stop = "go" => b.got # NONE /\ k = b
  BY <1>4, OrCapacityFacts DEF Sound, Proper, Shaped
<1>6. Sound(k) BY <1>4, <1>5, SoundSame
<1> HIDE DEF k
<1>7. /\ DOMAIN e = StepFields /\ e.cache = k.cache /\ e.stop = k.stop
      /\ e.stop = "go" => e.s = k.got
  BY <1>1, <1>5 DEF StepFields
<1>8. Sound(e) BY <1>6, <1>7, SoundSame DEF After, Unanswered
<1>9. e.stop = "go" => e.s \in DOMAIN e.cache.states /\ Plain(e.cache.states[e.s]) = st
  BY <1>2, <1>4, <1>5, <1>7 DEF Found, After, Unanswered
<1>10. Kept(d, e) BY <1>3, <1>4, <1>5, <1>7, <1>9 DEF Kept, Grows, st
<1> QED BY <1>3, <1>4, <1>5, <1>7, <1>8, <1>10 DEF Grows, After, Sound, Proper

LEMMA InternNextFacts ==
  ASSUME NEW d, Sound(d), d.stop = "go", d.s \in DOMAIN d.cache.states, NEW st, IsPlain(st)
  PROVE  /\ Sound(InternNext(d, st)) /\ After(d, InternNext(d, st)) /\ Kept(d, InternNext(d, st))
         /\ InternNext(d, st).stop = "go" => Found(InternNext(d, st), st)
<1> DEFINE f == Intern(d, st)
           k == Keeping(d, TRUE)
           b == Intern(k, st)
<1> SUFFICES ASSUME NEW e, e = InternNext(d, st)
             PROVE  /\ Sound(e) /\ After(d, e) /\ Kept(d, e)
                    /\ e.stop = "go" => Found(e, st)
  OBVIOUS
<1>1. e = IF f.stop # "go" \/ f.got # NONE THEN f ELSE OrCapacity(b)
  BY DEF InternNext, Then, IfGo
<1>2. /\ Sound(f) /\ After(d, f) /\ f.s = d.s /\ Grows(d.cache, f.cache)
      /\ f.stop = "go" => Found(f, st) \/ f.got = NONE
  BY InternFacts
<1>3. StateOK(d.cache.states[d.s]) /\ Proper(d) BY DEF Sound, Stored
<1>4. Sound(k) /\ After(d, k) /\ Kept(d, k) BY <1>3, KeepingFacts
<1> HIDE DEF f, k
<1>5. /\ Sound(b) /\ After(k, b) /\ b.s = k.s /\ Grows(k.cache, b.cache)
      /\ b.stop = "go" => Found(b, st) \/ b.got = NONE
  BY <1>4, InternFacts
<1> HIDE DEF b
<1>6. CASE f.stop # "go" \/ f.got # NONE
  <2>1. e = f BY <1>1, <1>6
  <2>2. Kept(d, e) BY <2>1, <1>2 DEF Kept, Grows
  <2> QED BY <2>1, <2>2, <1>2, <1>6
<1>7. CASE ~(f.stop # "go" \/ f.got # NONE)
  <2>1. e = OrCapacity(b) BY <1>1, <1>7
  <2>2. DOMAIN b = StepFields BY <1>5 DEF Sound, Proper, Shaped
  <2>3. /\ DOMAIN e = StepFields /\ e.cache = b.cache /\ e.s = b.s /\ After(b, e)
        /\ e.stop = "go" => b.got # NONE /\ e = b
    BY <2>1, <2>2, OrCapacityFacts
  <2>4. Sound(e) BY <2>3, <1>5, SoundSame
  <2>5. After(d, e) BY <2>3, <1>4, <1>5 DEF After, Unanswered
  <2>6. e.stop = "go" => e.s \in DOMAIN k.cache.states /\ Plain(k.cache.states[e.s]) = Plain(d.cache.states[d.s])
    BY <2>3, <1>4, <1>5 DEF After, Kept, Unanswered
  <2>7. Kept(d, e) BY <2>3, <2>6, <1>4, <1>5 DEF Kept, Grows
  <2>8. e.stop = "go" => Found(e, st) BY <2>3, <1>5
  <2> QED BY <2>4, <2>5, <2>7, <2>8
<1> QED BY <1>6, <1>7

-----------------------------------------------------------------------------
(* The start states, each where it is looked for.                          *)
Modes == {"unanchored", "anchored", "capture", "reverse"}

LEMMA StartIs ==
  ASSUME NEW mode \in Modes, NEW context
  PROVE  /\ IsPlain(StartOf(mode, context)) /\ Alive(StartOf(mode, context))
         /\ StartOf(mode, context).kind
              = IF mode \in {"capture", "reverse"} THEN mode ELSE "forward"
<1>1. \A t : IsSeq(<<t>>) /\ <<t>> # <<>>
  <2> SUFFICES ASSUME NEW t PROVE IsSeq(<<t>>) /\ <<t>> # <<>> OBVIOUS
  <2>1. <<t>> \in Seq({t}) OBVIOUS
  <2> QED BY <2>1, SeqOf
<1>2. IsSeq(<<>>)
  <2>1. <<>> \in Seq({}) OBVIOUS
  <2> QED BY <2>1, SeqOf
<1>3. CASE mode = "unanchored"
  BY <1>2, <1>3 DEF StartOf, IsPlain, Plain, Alive, A!State
<1>4. CASE mode = "anchored"
  BY <1>1, <1>4 DEF StartOf, IsPlain, Plain, Alive, A!State
<1>5. CASE mode = "capture"
  BY <1>1, <1>5 DEF StartOf, IsPlain, Plain, Alive, A!State
<1>6. CASE mode = "reverse"
  BY <1>1, <1>6 DEF StartOf, IsPlain, Plain, Alive, A!State
<1> QED BY <1>3, <1>4, <1>5, <1>6 DEF Modes

LEMMA SlotStored ==
  ASSUME NEW c, Good(c), NEW slot, NEW i \in DOMAIN c.states,
         Plain(c.states[i]) = StartOf(slot[1], slot[2]), NEW e,
         e = [c EXCEPT !.slots = With(c.slots, slot, i)]
  PROVE  Good(e)
<1>1. /\ DOMAIN e = CacheFields /\ e.room = c.room /\ e.disabled = c.disabled /\ e.columns = c.columns
      /\ e.classes = c.classes /\ e.table = c.table /\ e.memo = c.memo /\ e.states = c.states
      /\ e.tags = c.tags /\ e.bad = c.bad /\ e.slots = With(c.slots, slot, i)
  BY DEF Good, CacheFields
<1>2. DOMAIN e.slots = DOMAIN c.slots \cup {slot}
      /\ \A x \in DOMAIN e.slots : e.slots[x] = IF x = slot THEN i ELSE c.slots[x]
  BY <1>1 DEF With
<1>3. \A x \in DOMAIN e.slots :
        e.slots[x] \in DOMAIN c.states /\ Plain(c.states[e.slots[x]]) = StartOf(x[1], x[2])
  BY <1>2 DEF Good, Stored
<1>4. \A j : RowTrue(c, j) => RowTrue(e, j)
  <2>1. \A j, column : EntryTrue(c, j, column) => EntryTrue(e, j, column) BY <1>1, EntrySame
  <2> QED BY <1>1, <2>1 DEF RowTrue
<1>5. Stored(e) BY <1>1, <1>3, <1>4 DEF Good, Stored
<1>6. Classed(e) /\ Counted(e) BY <1>1, ClassedSame, CountedSame DEF Good
<1> QED BY <1>1, <1>5, <1>6 DEF Good, Limits

LEMMA StartStateFacts ==
  ASSUME NEW d, Sound(d), NEW mode \in Modes, NEW context
  PROVE  /\ Sound(StartState(d, mode, context)) /\ After(d, StartState(d, mode, context))
         /\ StartState(d, mode, context).stop = "go" =>
              /\ StartState(d, mode, context).s \in DOMAIN StartState(d, mode, context).cache.states
              /\ Plain(StartState(d, mode, context).cache.states[StartState(d, mode, context).s])
                   = StartOf(mode, context)
<1> DEFINE slot == <<mode, context>>
           st == StartOf(mode, context)
           f == Intern(d, st)
           a == Clear(d, TRUE)
           b == Intern(a, st)
           g == IF f.got = NONE THEN OrCapacity(b) ELSE f
           z == [g EXCEPT !.s = g.got, !.cache.slots = With(g.cache.slots, slot, g.got)]
<1> SUFFICES ASSUME NEW e, e = StartState(d, mode, context)
             PROVE  /\ Sound(e) /\ After(d, e)
                    /\ e.stop = "go" => e.s \in DOMAIN e.cache.states
                                        /\ Plain(e.cache.states[e.s]) = st
  OBVIOUS
<1>1. e = IF d.stop # "go" THEN d
          ELSE IF slot \in DOMAIN d.cache.slots THEN [d EXCEPT !.s = d.cache.slots[slot]]
          ELSE IF f.stop # "go" THEN f ELSE IF g.stop = "go" THEN z ELSE g
  BY DEF StartState, IfGo
<1>2. slot[1] = mode /\ slot[2] = context OBVIOUS
<1>3. IsPlain(st) /\ Alive(st) BY StartIs
<1>4. DOMAIN d = StepFields /\ Stored(d.cache) BY DEF Sound, Proper, Shaped
<1>5. /\ Sound(f) /\ After(d, f)
      /\ f.stop = "go" => Found(f, st) \/ f.got = NONE
  BY <1>3, InternFacts
<1>6. ASSUME d.stop = "go" PROVE Sound(a) /\ After(d, a)
  BY <1>6, ClearFacts DEF Sound
<1> HIDE DEF f, a, slot
<1>7. ASSUME d.stop = "go"
      PROVE  /\ Sound(b) /\ After(a, b)
             /\ b.stop = "go" => Found(b, st) \/ b.got = NONE
  BY <1>3, <1>6, <1>7, InternFacts
<1> HIDE DEF b
<1>8. CASE d.stop # "go"
  BY <1>1, <1>8 DEF After, Unanswered
<1>9. CASE d.stop = "go" /\ slot \in DOMAIN d.cache.slots
  <2>1. e = [d EXCEPT !.s = d.cache.slots[slot]] BY <1>1, <1>9
  <2>2. DOMAIN e = StepFields /\ e.cache = d.cache /\ e.s = d.cache.slots[slot] /\ e.stop = d.stop
    BY <2>1, <1>4 DEF StepFields
  <2>3. Sound(e) BY <2>2, SoundSame DEF After, Unanswered
  <2>4. d.cache.slots[slot] \in DOMAIN d.cache.states
        /\ Plain(d.cache.states[d.cache.slots[slot]]) = StartOf(slot[1], slot[2])
    BY <1>4, <1>9 DEF Stored
  <2> QED BY <2>2, <2>3, <2>4, <1>2, <1>9 DEF After, Unanswered
<1>10. CASE d.stop = "go" /\ slot \notin DOMAIN d.cache.slots /\ f.stop # "go"
  BY <1>1, <1>5, <1>10
<1>11. CASE d.stop = "go" /\ slot \notin DOMAIN d.cache.slots /\ f.stop = "go"
  <2>1. e = IF g.stop = "go" THEN z ELSE g BY <1>1, <1>11
  <2>2. Sound(g) /\ (g.stop = "go" => g.got \in DOMAIN g.cache.states /\ Plain(g.cache.states[g.got]) = st)
    <3>1. CASE f.got = NONE
      <4>1. DOMAIN b = StepFields BY <1>7, <1>11 DEF Sound, Proper, Shaped
      <4>2. g = OrCapacity(b) BY <3>1
      <4>3. /\ DOMAIN g = StepFields /\ g.cache = b.cache /\ After(b, g)
            /\ g.stop = "go" => b.got # NONE /\ g = b
        BY <4>1, <4>2, OrCapacityFacts
      <4>4. Sound(g) BY <4>3, <1>7, <1>11, SoundSame
      <4> QED BY <4>3, <4>4, <1>3, <1>7, <1>11 DEF Found
    <3>2. CASE f.got # NONE
      BY <3>2, <1>3, <1>5 DEF Found
    <3> QED BY <3>1, <3>2
  <2> HIDE DEF g
  <2>3. CASE g.stop # "go"
    BY <2>1, <2>2, <2>3 DEF After, Sound, Proper
  <2>4. CASE g.stop = "go"
    <3> DEFINE k == [g.cache EXCEPT !.slots = With(g.cache.slots, slot, g.got)]
    <3>1. Good(g.cache) /\ DOMAIN g = StepFields /\ ~g.cache.disabled BY <2>2, <2>4, SoundIsGood
    <3>2. DOMAIN e = StepFields /\ e.cache = k /\ e.s = g.got /\ e.stop = "go"
      BY <2>1, <2>4, <3>1 DEF StepFields
    <3>3. k.states = g.cache.states /\ k.disabled = g.cache.disabled BY <3>1 DEF Good, CacheFields
    <3>4. Good(k) BY <3>1, <2>2, <2>4, <1>2, SlotStored DEF slot
    <3> HIDE DEF k
    <3>5. Sound(e) BY <3>1, <3>2, <3>3, <3>4, SoundIsGood DEF Unanswered
    <3> QED BY <3>2, <3>3, <3>5, <2>2, <2>4, <1>11 DEF After, Unanswered
  <2> QED BY <2>3, <2>4
<1> QED BY <1>8, <1>9, <1>10, <1>11

-----------------------------------------------------------------------------
(* Classes: the memo always has a slot for a character.                    *)
LEMMA Distances ==
  ASSUME NEW slot \in 0..MemoSlots - 1, NEW ch \in Nat
  PROVE  (slot - Hash(ch) + MemoSlots) % MemoSlots \in Nat
<1>1. MemoSlots \in Nat /\ MemoSlots > 1 BY DfaConstants
<1>2. Hash(ch) \in 0..MemoSlots - 1 BY <1>1 DEF Hash
<1> DEFINE x == slot - Hash(ch) + MemoSlots
<1>3. x \in Int BY <1>1, <1>2
<1> HIDE DEF x
<1>4. x % MemoSlots \in 0..MemoSlots - 1 BY <1>1, <1>3
<1> QED BY <1>1, <1>4 DEF x

LEMMA ProbeFacts ==
  ASSUME NEW memo, DOMAIN memo = 0..MemoSlots - 1, NEW ch \in Nat,
         \E slot \in DOMAIN memo : memo[slot] = <<>>
  PROVE  /\ Probe(memo, ch) \in DOMAIN memo
         /\ memo[Probe(memo, ch)] = <<>> \/ memo[Probe(memo, ch)][1] = ch
<1> DEFINE distance(slot) == (slot - Hash(ch) + MemoSlots) % MemoSlots
           stops == {slot \in DOMAIN memo : memo[slot] = <<>> \/ memo[slot][1] = ch}
           T == {distance(slot) : slot \in stops}
<1>1. T \in SUBSET Nat BY Distances
<1>2. T # {} OBVIOUS
<1>3. \E n \in T : \A m \in T : n <= m
  <2> HIDE DEF T
  <2> QED BY <1>1, <1>2, LeastOf
<1>4. \E slot \in stops : \A other \in stops : distance(slot) <= distance(other)
  <2> HIDE DEF stops, distance
  <2> QED BY <1>3
<1>5. Probe(memo, ch) = CHOOSE slot \in stops : \A other \in stops : distance(slot) <= distance(other)
  BY DEF Probe
<1>6. Probe(memo, ch) \in stops
  <2> HIDE DEF stops, distance
  <2> QED BY <1>4, <1>5
<1> QED BY <1>6

LEMMA FreeSlot ==
  ASSUME NEW c, Classed(c)
  PROVE  \E slot \in DOMAIN c.memo : c.memo[slot] = <<>>
<1> SUFFICES ASSUME \A slot \in DOMAIN c.memo : c.memo[slot] # <<>> PROVE FALSE OBVIOUS
<1>1. {slot \in DOMAIN c.memo : c.memo[slot] # <<>>} = 0..MemoSlots - 1 BY DEF Classed
<1>2. MemoSlots \in Nat /\ MemoSlots > 1 BY DfaConstants
<1>3. Cardinality(0..MemoSlots - 1) = MemoSlots
  <2>1. 0 \in Int /\ MemoSlots - 1 \in Int /\ ~(0 > MemoSlots - 1) /\ MemoSlots - 1 - 0 + 1 = MemoSlots
    BY <1>2
  <2> QED BY <2>1, FS_Interval
<1>4. MemoUsed(c) = MemoSlots BY <1>1, <1>3 DEF MemoUsed
<1> QED BY <1>2, <1>4 DEF Classed

(* A memo with room, and the same with one more character in it.           *)
Roomy(c, memo) ==
  /\ DOMAIN memo = 0..MemoSlots - 1
  /\ \/ memo = c.memo /\ MemoUsed(c) < (MemoSlots * 3) \div 4
     \/ \A slot \in DOMAIN memo : memo[slot] = <<>>
Writes(c, memo, ch, column, e) ==
  /\ e.memo = [memo EXCEPT ![Probe(memo, ch)] = <<ch, column>>]
  /\ e.classes = c.classes /\ e.columns = c.columns /\ e.table = c.table

LEMMA MemoNoted ==
  ASSUME NEW c, Classed(c), NEW ch \in Nat, NEW column, ClassOf(c, column, ch),
         NEW memo, Roomy(c, memo), NEW e, Writes(c, memo, ch, column, e)
  PROVE  Classed(e)
<1> USE DEF Roomy, Writes
<1> DEFINE at == Probe(memo, ch)
           marked(m) == {slot \in 0..MemoSlots - 1 : m[slot] # <<>>}
<1>1. MemoSlots \in Nat /\ MemoSlots > 1 BY DfaConstants
<1>2. \E slot \in DOMAIN memo : memo[slot] = <<>>
  <2>1. 0 \in DOMAIN memo BY <1>1
  <2>2. CASE memo = c.memo BY <2>2, FreeSlot
  <2>3. CASE \A slot \in DOMAIN memo : memo[slot] = <<>> BY <2>1, <2>3
  <2> QED BY <2>2, <2>3
<1>3. at \in DOMAIN memo BY <1>2, ProbeFacts
<1> HIDE DEF at
<1>4. DOMAIN e.memo = 0..MemoSlots - 1 /\ e.memo[at] = <<ch, column>>
      /\ \A slot \in 0..MemoSlots - 1 : slot # at => e.memo[slot] = memo[slot]
  BY <1>3 DEF at
<1>5. \A slot \in 0..MemoSlots - 1 : e.memo[slot] # <<>> => ClassOf(e, e.memo[slot][2], e.memo[slot][1])
  <2> SUFFICES ASSUME NEW slot \in 0..MemoSlots - 1, e.memo[slot] # <<>>
               PROVE  ClassOf(c, e.memo[slot][2], e.memo[slot][1])
    BY DEF ClassOf
  <2>1. CASE slot = at BY <2>1, <1>4
  <2>2. CASE slot # at
    <3>1. memo = c.memo /\ c.memo[slot] # <<>> /\ e.memo[slot] = c.memo[slot] BY <2>2, <1>4
    <3> QED BY <3>1 DEF Classed
  <2> QED BY <2>1, <2>2
<1>6. IsFiniteSet(marked(memo)) /\ Cardinality(marked(memo)) \in Nat
  <2>1. IsFiniteSet(0..MemoSlots - 1)
    <3>1. 0 \in Int /\ MemoSlots - 1 \in Int BY <1>1
    <3> QED BY <3>1, FS_Interval
  <2>2. IsFiniteSet(marked(memo)) BY <2>1, FS_Subset
  <2> QED BY <2>2, FS_CardinalityType
<1>7. Cardinality(marked(memo)) + 1 < MemoSlots
  <2>1. CASE memo = c.memo /\ MemoUsed(c) < (MemoSlots * 3) \div 4
    <3>1. Cardinality(marked(memo)) = MemoUsed(c) BY <2>1 DEF MemoUsed
    <3>2. (MemoSlots * 3) \div 4 < MemoSlots /\ (MemoSlots * 3) \div 4 \in Nat BY <1>1
    <3> QED BY <3>1, <3>2, <2>1, <1>1, <1>6
  <2>2. CASE \A slot \in DOMAIN memo : memo[slot] = <<>>
    <3>1. marked(memo) = {} BY <2>2
    <3> HIDE DEF marked
    <3>2. Cardinality(marked(memo)) = 0 BY <3>1, FS_EmptySet
    <3> QED BY <3>2, <1>1
  <2> QED BY <2>1, <2>2
<1>8. Cardinality(marked(memo) \cup {at}) <= Cardinality(marked(memo)) + 1
      /\ IsFiniteSet(marked(memo) \cup {at})
  <2> HIDE DEF marked
  <2>1. CASE at \in marked(memo)
    <3>1. marked(memo) \cup {at} = marked(memo) BY <2>1
    <3>2. IsFiniteSet(marked(memo) \cup {at}) BY <3>1, <1>6
    <3>3. Cardinality(marked(memo) \cup {at}) = Cardinality(marked(memo)) BY <3>1
    <3> QED BY <3>2, <3>3, <1>6
  <2>2. CASE at \notin marked(memo)
    <3>1. /\ IsFiniteSet(marked(memo) \cup {at})
          /\ Cardinality(marked(memo) \cup {at}) = Cardinality(marked(memo)) + 1
      BY <2>2, <1>6, FS_AddElement
    <3> QED BY <3>1, <1>6
  <2> QED BY <2>1, <2>2
<1>9. marked(e.memo) \subseteq marked(memo) \cup {at} BY <1>4
<1>10. Cardinality(marked(e.memo)) <= Cardinality(marked(memo) \cup {at})
       /\ Cardinality(marked(e.memo)) \in Nat /\ Cardinality(marked(memo) \cup {at}) \in Nat
  BY <1>8, <1>9, FS_Subset, FS_CardinalityType
<1>11. MemoUsed(e) = Cardinality(marked(e.memo)) BY <1>4 DEF MemoUsed
<1>12. MemoUsed(e) < MemoSlots
  <2> HIDE DEF marked
  <2> QED BY <1>1, <1>6, <1>7, <1>8, <1>10, <1>11
<1> QED BY <1>4, <1>5, <1>12 DEF Classed, ClassOf

LEMMA NotedFacts ==
  ASSUME NEW c, Good(c), NEW ch \in Nat, NEW column, ClassOf(c, column, ch)
  PROVE  /\ Good(Noted(c, ch, column)) /\ Noted(c, ch, column).states = c.states
         /\ Noted(c, ch, column).classes = c.classes /\ Noted(c, ch, column).disabled = c.disabled
<1> DEFINE memo == IF MemoUsed(c) >= (MemoSlots * 3) \div 4
                     THEN [slot \in DOMAIN c.memo |-> <<>>] ELSE c.memo
<1> SUFFICES ASSUME NEW e, e = Noted(c, ch, column)
             PROVE  /\ Good(e) /\ e.states = c.states /\ e.classes = c.classes
                    /\ e.disabled = c.disabled
  OBVIOUS
<1>1. /\ DOMAIN e = CacheFields /\ e.room = c.room /\ e.disabled = c.disabled /\ e.columns = c.columns
      /\ e.classes = c.classes /\ e.states = c.states /\ e.tags = c.tags /\ e.slots = c.slots
      /\ e.bad = c.bad
      /\ ch < 128 => e.table = With(c.table, ch, column) /\ e.memo = c.memo
      /\ ~(ch < 128) => e.table = c.table /\ e.memo = [memo EXCEPT ![Probe(memo, ch)] = <<ch, column>>]
  BY DEF Noted, Good, CacheFields
<1>2. Classed(c) BY DEF Good
<1>3. Classed(e)
  <2>1. CASE ch < 128
    <3>1. \A other \in DOMAIN e.table : ClassOf(c, e.table[other], other)
      BY <1>1, <1>2, <2>1 DEF With, Classed
    <3>2. \A other, k : ClassOf(c, k, other) => ClassOf(e, k, other) BY <1>1 DEF ClassOf
    <3>3. MemoUsed(e) = MemoUsed(c) BY <1>1, <2>1 DEF MemoUsed
    <3>4. \A slot \in DOMAIN e.memo : e.memo[slot] # <<>> => ClassOf(e, e.memo[slot][2], e.memo[slot][1])
      <4>1. e.memo = c.memo BY <1>1, <2>1
      <4>2. \A slot \in DOMAIN c.memo : c.memo[slot] # <<>> => ClassOf(c, c.memo[slot][2], c.memo[slot][1])
        BY <1>2 DEF Classed
      <4> HIDE DEF memo
      <4> QED BY <4>1, <4>2, <3>2
    <3>5. /\ IsSeq(e.classes) /\ Len(e.classes) <= MaxClasses /\ e.columns \in Nat
          /\ Len(e.classes) + 2 <= e.columns /\ DOMAIN e.memo = 0..MemoSlots - 1
          /\ MemoUsed(e) < MemoSlots
      BY <3>3, <1>1, <1>2, <2>1 DEF Classed
    <3> HIDE DEF memo
    <3>6. \A other \in DOMAIN e.table : ClassOf(e, e.table[other], other) BY <3>1, <3>2
    <3> QED BY <3>4, <3>5, <3>6 DEF Classed
  <2>2. CASE ~(ch < 128)
    <3>1. DOMAIN memo = 0..MemoSlots - 1 BY <1>2 DEF Classed
    <3>2. \/ memo = c.memo /\ MemoUsed(c) < (MemoSlots * 3) \div 4
          \/ \A slot \in DOMAIN memo : memo[slot] = <<>>
      <4>1. MemoSlots \in Nat BY DfaConstants
      <4>2. MemoUsed(c) \in Nat
        <5>1. 0 \in Int /\ MemoSlots - 1 \in Int BY <4>1
        <5>2. IsFiniteSet(0..MemoSlots - 1) BY <5>1, FS_Interval
        <5>3. IsFiniteSet({slot \in DOMAIN c.memo : c.memo[slot] # <<>>})
          BY <5>2, <1>2, FS_Subset DEF Classed
        <5> QED BY <5>3, FS_CardinalityType DEF MemoUsed
      <4>3. (MemoSlots * 3) \div 4 \in Nat BY <4>1
      <4>4. MemoUsed(c) >= (MemoSlots * 3) \div 4 \/ MemoUsed(c) < (MemoSlots * 3) \div 4
        BY <4>2, <4>3
      <4> QED BY <4>4
    <3> HIDE DEF memo
    <3>3. Writes(c, memo, ch, column, e) BY <1>1, <2>2 DEF Writes
    <3>4. Roomy(c, memo) BY <3>1, <3>2 DEF Roomy
    <3> QED BY <1>2, <3>3, <3>4, MemoNoted
  <2> QED BY <2>1, <2>2
<1>4. Stored(e) /\ Counted(e) BY <1>1, StoredSame, CountedSame DEF Good
<1> QED BY <1>1, <1>3, <1>4 DEF Good, Limits

(* What is known of the classes a step began with is known of more.        *)
Classing(c, signature, e) ==
  /\ Classed(c) /\ Stored(c)
  /\ e.classes = Append(c.classes, signature) /\ e.states = c.states /\ e.slots = c.slots

LEMMA MoreClasses ==
  ASSUME NEW c, NEW signature, NEW e, Classing(c, signature, e)
  PROVE  /\ IsSeq(e.classes) /\ Len(e.classes) = Len(c.classes) + 1
         /\ e.classes[Len(c.classes) + 1] = signature
         /\ \A column, ch : ClassOf(c, column, ch) => ClassOf(e, column, ch)
         /\ Stored(e)
<1> USE DEF Classing
<1> DEFINE n == Len(c.classes)
<1>1. n \in Nat BY SeqFacts DEF Classed
<1>2. /\ IsSeq(e.classes) /\ Len(e.classes) = n + 1 /\ e.classes[n + 1] = signature
      /\ \A k \in 1..n : e.classes[k] = c.classes[k]
  BY SeqAppend DEF Classed
<1> HIDE DEF n
<1>3. \A column \in 2..n + 1 : column \in 2..n + 2 /\ e.classes[column - 1] = c.classes[column - 1]
  <2> SUFFICES ASSUME NEW column \in 2..n + 1
               PROVE  column \in 2..n + 2 /\ e.classes[column - 1] = c.classes[column - 1]
    OBVIOUS
  <2>1. column \in 2..n + 2 /\ column - 1 \in 1..n BY <1>1
  <2> QED BY <2>1, <1>2
<1>4. n + 1 + 1 = n + 2 BY <1>1
<1>5. \A column, ch : ClassOf(c, column, ch) => ClassOf(e, column, ch)
  BY <1>2, <1>3, <1>4 DEF ClassOf, n
<1>6. Stored(e)
  <2>1. ASSUME NEW i \in DOMAIN c.states PROVE RowTrue(e, i)
    <3>1. RowTrue(c, i) BY <2>1 DEF Stored
    <3>2. ASSUME NEW column \in DOMAIN c.states[i].row
          PROVE  column \in {0} \cup 2..n + 2 /\ EntryTrue(e, i, column)
      <4>1. column \in {0} \cup 2..n + 1 /\ EntryTrue(c, i, column)
        BY <3>1, <3>2 DEF RowTrue, n
      <4>2. column # 0 => column \in 2..n + 2 /\ e.classes[column - 1] = c.classes[column - 1]
        BY <4>1, <1>3
      <4>3. EntryTrue(e, i, column) BY <4>1, <4>2, EntrySame
      <4> QED BY <4>1, <4>2, <4>3
    <3> QED BY <1>2, <1>4, <3>1, <3>2 DEF RowTrue
  <2> QED BY <2>1 DEF Stored
<1> QED BY <1>2, <1>5, <1>6 DEF n

(* The state a search is in is the one it was in.                          *)
Stays(d, e) ==
  e.stop = "go" => /\ e.s \in DOMAIN e.cache.states
                   /\ Plain(e.cache.states[e.s]) = Plain(d.cache.states[d.s])

LEMMA WidenedFacts ==
  ASSUME NEW d, Sound(d), d.stop = "go", d.s \in DOMAIN d.cache.states, NEW ch \in Nat,
         Len(d.cache.classes) < MaxClasses, NEW paid, DOMAIN paid = StepFields,
         paid.cache = d.cache, paid.s = d.s, paid.stop = "go",
         NEW g, g = [paid EXCEPT !.cache.classes = Append(d.cache.classes, A(program)!Signature(ch))],
         NEW e, e = Widened(g, Len(d.cache.classes) + 1)
  PROVE  /\ Sound(e) /\ Stays(d, e)
         /\ ClassOf(e.cache, Len(d.cache.classes) + 2, ch)
<1> DEFINE c == d.cache
           n == Len(c.classes)
           k == g.cache
           columns == Smaller(2 * c.columns, MaxClasses + 2)
           wide == [g EXCEPT !.cache.columns = Smaller(2 * @, MaxClasses + 2)]
<1>0. DOMAIN c = CacheFields /\ Classed(c) /\ Stored(c) /\ Limits(c) /\ ~c.disabled /\ Counted(c)
  BY DEF Sound, Proper, Shaped
<1>1. /\ DOMAIN g = StepFields /\ g.s = d.s /\ g.stop = "go" /\ DOMAIN k = CacheFields
      /\ k.classes = Append(c.classes, A(program)!Signature(ch))
      /\ k.room = c.room /\ k.bad = c.bad /\ k.disabled = c.disabled /\ k.columns = c.columns
      /\ k.table = c.table /\ k.memo = c.memo /\ k.states = c.states /\ k.tags = c.tags
      /\ k.slots = c.slots
  BY <1>0 DEF StepFields, CacheFields
<1>2. /\ IsSeq(k.classes) /\ Len(k.classes) = n + 1 /\ k.classes[n + 1] = A(program)!Signature(ch)
      /\ \A column, x : ClassOf(c, column, x) => ClassOf(k, column, x)
      /\ Stored(k)
  <2> DEFINE signature == A(program)!Signature(ch)
  <2>1. Classing(c, signature, k) BY <1>0, <1>1 DEF Classing
  <2> HIDE DEF signature, k, c
  <2>2. /\ IsSeq(k.classes) /\ Len(k.classes) = Len(c.classes) + 1
        /\ k.classes[Len(c.classes) + 1] = signature
        /\ \A column, x : ClassOf(c, column, x) => ClassOf(k, column, x)
        /\ Stored(k)
    BY <2>1, MoreClasses
  <2> QED BY <2>2 DEF signature
<1>3. n \in Nat /\ n < MaxClasses /\ MaxClasses \in Nat /\ n + 2 <= c.columns /\ c.columns \in Nat
  BY <1>0, SeqFacts, DfaConstants DEF Classed
<1> HIDE DEF n, k, c
<1>4. ClassOf(k, n + 2, ch)
  <2>1. n + 2 \in 2..n + 1 + 1 /\ (n + 2) - 1 = n + 1 BY <1>3
  <2>2. k.classes[(n + 2) - 1] = A(program)!Signature(ch) BY <2>1, <1>2
  <2>3. n + 2 \in 2..Len(k.classes) + 1 BY <2>1, <1>2
  <2> QED BY <2>2, <2>3 DEF ClassOf
<1>5. \A x : x.classes = k.classes => ClassOf(x, n + 2, ch)
  BY <1>4 DEF ClassOf
<1>6. ASSUME NEW x, x.classes = k.classes, x.table = c.table, x.memo = c.memo,
             x.columns \in Nat, n + 3 <= x.columns
      PROVE  Classed(x)
  <2>1. \A column, other : ClassOf(c, column, other) => ClassOf(x, column, other)
    BY <1>2, <1>6 DEF ClassOf
  <2>2. Len(x.classes) <= MaxClasses /\ Len(x.classes) + 2 <= x.columns BY <1>2, <1>3, <1>6
  <2>3. MemoUsed(x) = MemoUsed(c) BY <1>6 DEF MemoUsed
  <2> QED BY <1>0, <1>2, <1>6, <2>1, <2>2, <2>3 DEF Classed
<1>7. CASE n + 1 + 1 >= c.columns
  <2>1. e = Keeping(wide, FALSE) BY <1>1, <1>7 DEF Widened, c, n, k
  <2>2. /\ DOMAIN wide = StepFields /\ DOMAIN wide.cache = CacheFields /\ wide.s = d.s /\ wide.stop = "go"
        /\ wide.cache.room = c.room /\ wide.cache.bad = c.bad /\ wide.cache.disabled = c.disabled
        /\ wide.cache.classes = k.classes /\ wide.cache.table = c.table /\ wide.cache.memo = c.memo
        /\ wide.cache.states = c.states /\ wide.cache.columns = columns
    BY <1>1 DEF StepFields, CacheFields, k
  <2> HIDE DEF wide
  <2>3. columns \in Nat /\ n + 3 <= columns BY <1>3, <1>7 DEF Smaller
  <2>4. Classed(wide.cache) BY <1>6, <2>2, <2>3
  <2>5. Proper(wide) BY <1>0, <2>2, <2>4 DEF Proper, Shaped, Limits, Unanswered
  <2>6. StateOK(wide.cache.states[wide.s]) BY <1>0, <2>2 DEF Stored, c
  <2>7. Sound(e) /\ Kept(wide, e) BY <2>1, <2>2, <2>5, <2>6, KeepingFacts
  <2>8. ClassOf(e.cache, n + 2, ch) BY <1>5, <2>2, <2>7 DEF Kept
  <2>9. Stays(d, e) BY <2>2, <2>7 DEF Kept, Stays, c
  <2> QED BY <2>7, <2>8, <2>9 DEF n, c
<1>8. CASE ~(n + 1 + 1 >= c.columns)
  <2>1. e = g BY <1>1, <1>8 DEF Widened, c, n, k
  <2>2. n + 3 <= k.columns BY <1>1, <1>3, <1>8
  <2>3. Classed(k) BY <1>1, <1>3, <1>6, <2>2
  <2>4. Counted(k) BY <1>0, <1>1, CountedSame
  <2>5. Sound(e) BY <1>0, <1>1, <1>2, <2>1, <2>3, <2>4 DEF Sound, Proper, Shaped, Limits, k
  <2>6. Stays(d, e) BY <1>1, <2>1 DEF Stays, c, k
  <2>7. ClassOf(e.cache, n + 2, ch) BY <1>4, <2>1 DEF k
  <2> QED BY <2>5, <2>6, <2>7 DEF n, c
<1> QED BY <1>7, <1>8

LEMMA ClassifyFacts ==
  ASSUME NEW d, Sound(d), d.stop = "go", d.s \in DOMAIN d.cache.states, NEW ch \in Nat
  PROVE  /\ Sound(Classify(d, ch)) /\ Stays(d, Classify(d, ch))
         /\ Classify(d, ch).stop = "go" => ClassOf(Classify(d, ch).cache, Classify(d, ch).got, ch)
<1> DEFINE c == d.cache
           paid == Charge(d, Cardinality(A(program)!Predicates) + 1)
           known == {k \in DOMAIN c.classes : c.classes[k] = A(program)!Signature(ch)}
           class == Len(c.classes) + 1
           g == [paid EXCEPT !.cache.classes = Append(@, A(program)!Signature(ch))]
           wide == Widened(g, class)
<1> SUFFICES ASSUME NEW e, e = Classify(d, ch)
             PROVE  /\ Sound(e) /\ Stays(d, e)
                    /\ e.stop = "go" => ClassOf(e.cache, e.got, ch)
  OBVIOUS
<1>0. DOMAIN d = StepFields BY DEF Sound, Proper, Shaped
<1>1. e = IF paid.stop # "go" THEN paid
          ELSE IF known # {} THEN Got(paid, 1 + CHOOSE k \in known : TRUE)
          ELSE IF Len(c.classes) >= MaxClasses THEN Halt(paid, "Capacity")
          ELSE Got(wide, class + 1)
  BY DEF Classify
<1>2. DOMAIN paid = StepFields /\ paid.cache = c /\ paid.s = d.s /\ After(d, paid)
  BY <1>0, ChargeFacts
<1>3. g = [paid EXCEPT !.cache.classes = Append(d.cache.classes, A(program)!Signature(ch))]
  BY <1>2
<1> HIDE DEF paid, g
<1>4. CASE paid.stop # "go"
  <2>1. e = paid BY <1>1, <1>4
  <2> QED BY <2>1, <1>2, <1>4, SoundSame DEF After, Stays
<1>5. CASE paid.stop = "go" /\ known # {}
  <2> DEFINE k == CHOOSE k \in known : TRUE
  <2>1. e = Got(paid, 1 + k) BY <1>1, <1>5
  <2>2. k \in DOMAIN c.classes /\ c.classes[k] = A(program)!Signature(ch) BY <1>5
  <2> HIDE DEF k
  <2>3. DOMAIN e = StepFields /\ e.cache = c /\ e.s = d.s /\ e.got = 1 + k /\ e.stop = "go"
    BY <2>1, <1>2, <1>5, GotFacts
  <2>4. Len(c.classes) \in Nat /\ DOMAIN c.classes = 1..Len(c.classes)
    BY SeqFacts DEF Sound, Proper, Classed
  <2>5. ClassOf(c, 1 + k, ch)
    <3>1. k \in Nat /\ 1 + k \in 2..Len(c.classes) + 1 /\ (1 + k) - 1 = k BY <2>2, <2>4
    <3> QED BY <3>1, <2>2 DEF ClassOf
  <2>6. Sound(e) BY <2>3, SoundSame DEF After, Unanswered
  <2> QED BY <2>3, <2>5, <2>6 DEF Stays
<1>6. CASE paid.stop = "go" /\ known = {} /\ Len(c.classes) >= MaxClasses
  <2>1. e = Halt(paid, "Capacity") BY <1>1, <1>6
  <2>2. DOMAIN e = StepFields /\ e.cache = c /\ e.stop # "go" /\ After(paid, e)
    BY <2>1, <1>2, HaltFacts DEF Unanswered
  <2>3. Sound(e) BY <2>2, <1>2, SoundSame DEF After
  <2> QED BY <2>2, <2>3 DEF Stays
<1>7. CASE paid.stop = "go" /\ known = {} /\ ~(Len(c.classes) >= MaxClasses)
  <2>1. e = Got(wide, class + 1) BY <1>1, <1>7
  <2>2. Len(c.classes) \in Nat /\ MaxClasses \in Nat
    BY SeqFacts, DfaConstants DEF Sound, Proper, Classed
  <2>3. Len(c.classes) < MaxClasses BY <2>2, <1>7
  <2>4. Sound(wide) /\ Stays(d, wide) /\ ClassOf(wide.cache, Len(c.classes) + 2, ch)
    BY <2>3, <1>2, <1>3, <1>7, WidenedFacts
  <2>5. class + 1 = Len(c.classes) + 2 BY <2>2
  <2> HIDE DEF wide, class
  <2>6. /\ DOMAIN e = StepFields /\ e.cache = wide.cache /\ e.s = wide.s /\ e.stop = wide.stop
        /\ wide.stop = "go" => e.got = class + 1
    BY <2>1, <2>4, GotFacts DEF Sound, Proper, Shaped
  <2>7. Sound(e) BY <2>4, <2>6, SoundSame DEF After, Unanswered
  <2> QED BY <2>4, <2>5, <2>6, <2>7 DEF Stays
<1> QED BY <1>4, <1>5, <1>6, <1>7

LEMMA ColumnFacts ==
  ASSUME NEW d, Sound(d), d.stop = "go", d.s \in DOMAIN d.cache.states, NEW ch \in Nat
  PROVE  /\ Sound(Column(d, ch)) /\ Stays(d, Column(d, ch))
         /\ Column(d, ch).stop = "go" => ClassOf(Column(d, ch).cache, Column(d, ch).got, ch)
<1> DEFINE c == d.cache
           held == c.memo[Probe(c.memo, ch)]
           f == Classify(d, ch)
           z == [f EXCEPT !.cache = Noted(f.cache, ch, f.got)]
<1> SUFFICES ASSUME NEW e, e = Column(d, ch)
             PROVE  /\ Sound(e) /\ Stays(d, e)
                    /\ e.stop = "go" => ClassOf(e.cache, e.got, ch)
  OBVIOUS
<1>0. DOMAIN d = StepFields /\ Classed(c) BY DEF Sound, Proper, Shaped
<1>1. e = IF ch < 128 /\ ch \in DOMAIN c.table THEN Got(d, c.table[ch])
          ELSE IF ch >= 128 /\ held # <<>> THEN Got(d, held[2])
          ELSE IF f.stop = "go" THEN z ELSE f
  BY DEF Column, IfGo
<1>2. ASSUME NEW what, e = Got(d, what), ClassOf(c, what, ch)
      PROVE  Sound(e) /\ Stays(d, e) /\ ClassOf(e.cache, e.got, ch)
  <2>1. DOMAIN e = StepFields /\ e.cache = c /\ e.s = d.s /\ e.got = what /\ After(d, e)
    BY <1>0, <1>2, GotFacts
  <2>2. Sound(e) BY <2>1, SoundSame
  <2> QED BY <1>2, <2>1, <2>2 DEF Stays
<1>3. CASE ch < 128 /\ ch \in DOMAIN c.table
  <2>1. ClassOf(c, c.table[ch], ch) BY <1>0, <1>3 DEF Classed
  <2> QED BY <1>1, <1>2, <1>3, <2>1
<1>4. CASE ch >= 128 /\ held # <<>>
  <2>1. Probe(c.memo, ch) \in DOMAIN c.memo /\ (held = <<>> \/ held[1] = ch)
    <3>1. DOMAIN c.memo = 0..MemoSlots - 1 /\ \E slot \in DOMAIN c.memo : c.memo[slot] = <<>>
      BY <1>0, FreeSlot DEF Classed
    <3> QED BY <3>1, ProbeFacts
  <2>2. ClassOf(c, held[2], held[1])
    <3>1. \A slot \in DOMAIN c.memo : c.memo[slot] # <<>> => ClassOf(c, c.memo[slot][2], c.memo[slot][1])
      BY <1>0 DEF Classed
    <3> QED BY <3>1, <2>1, <1>4
  <2>3. ClassOf(c, held[2], ch) BY <2>1, <2>2, <1>4
  <2>4. e = Got(d, held[2]) BY <1>1, <1>4
  <2> QED BY <1>2, <2>3, <2>4
<1>5. CASE ~(ch < 128 /\ ch \in DOMAIN c.table) /\ ~(ch >= 128 /\ held # <<>>)
  <2>1. e = IF f.stop = "go" THEN z ELSE f BY <1>1, <1>5
  <2>2. Sound(f) /\ Stays(d, f) /\ (f.stop = "go" => ClassOf(f.cache, f.got, ch))
    BY ClassifyFacts
  <2> HIDE DEF f
  <2>3. CASE f.stop # "go" BY <2>1, <2>2, <2>3
  <2>4. CASE f.stop = "go"
    <3> DEFINE k == Noted(f.cache, ch, f.got)
    <3>1. Good(f.cache) /\ DOMAIN f = StepFields /\ ~f.cache.disabled BY <2>2, <2>4, SoundIsGood
    <3>2. Good(k) /\ k.states = f.cache.states /\ k.classes = f.cache.classes
          /\ k.disabled = f.cache.disabled
      BY <2>2, <2>4, <3>1, NotedFacts
    <3> HIDE DEF k
    <3>3. DOMAIN e = StepFields /\ e.cache = k /\ e.s = f.s /\ e.got = f.got /\ e.stop = f.stop
      BY <2>1, <2>4, <3>1 DEF StepFields, k
    <3>4. Sound(e) BY <2>2, <3>1, <3>2, <3>3, SoundIsGood
    <3>5. ClassOf(e.cache, e.got, ch) BY <2>2, <2>4, <3>2, <3>3 DEF ClassOf
    <3> QED BY <2>2, <2>4, <3>2, <3>3, <3>4, <3>5 DEF Stays
  <2> QED BY <2>3, <2>4
<1> QED BY <1>3, <1>4, <1>5

-----------------------------------------------------------------------------
(* What a column of a state leads to, once it is computed.                 *)
Reaches(e, column, st) ==
  IF column = 0 \/ ~Alive(st) THEN e.got = DEAD
  ELSE e.got \in DOMAIN e.cache.states /\ Plain(e.cache.states[e.got]) = st

Tagged(h, tag, e) ==
  /\ Sound(h) /\ h.stop = "go" /\ TagFits(h, tag)
  /\ e = [h EXCEPT !.cache.tags = @ \cup {tag}]

LEMMA TagAdded ==
  ASSUME NEW h, NEW tag, NEW e, Tagged(h, tag, e)
  PROVE  /\ Sound(e) /\ e.s = h.s /\ e.got = h.got /\ e.stop = "go"
         /\ e.cache.states = h.cache.states /\ e.cache.classes = h.cache.classes
         /\ e.cache.columns = h.cache.columns
<1> USE DEF Tagged
<1> DEFINE c == h.cache
           k == e.cache
<1>0. DOMAIN h = StepFields /\ DOMAIN c = CacheFields BY DEF Sound, Proper, Shaped
<1>1. /\ DOMAIN e = StepFields /\ e.s = h.s /\ e.got = h.got /\ e.stop = "go"
      /\ DOMAIN k = CacheFields /\ k.tags = c.tags \cup {tag}
      /\ k.classes = c.classes
      /\ k.room = c.room /\ k.bad = c.bad /\ k.disabled = c.disabled /\ k.columns = c.columns
      /\ k.table = c.table /\ k.memo = c.memo /\ k.states = c.states
      /\ k.slots = c.slots
  BY <1>0 DEF StepFields, CacheFields
<1>2. /\ Limits(c) /\ Classed(c) /\ Stored(c) /\ Counted(c) /\ ~c.disabled
      /\ tag \in c.tags \/ Used(c) + TagWords <= c.room
  BY DEF Sound, Proper, TagFits
<1> HIDE DEF k, c
<1>3. Limits(k) /\ Classed(k) /\ Stored(k)
  BY <1>1, <1>2, ClassedSame, StoredSame DEF Limits
<1>4. Counted(k)
  <2>1. CASE tag \in c.tags
    <3>1. k.tags = c.tags BY <1>1, <2>1
    <3> QED BY <1>1, <1>2, <3>1, CountedSame
  <2>2. CASE tag \notin c.tags
    <3>1. Used(k) = Used(c) + TagWords /\ IsFiniteSet(k.tags)
      BY <1>1, <1>2, <2>2, StoredSized, UsedTag DEF Counted
    <3> QED BY <3>1, <1>1, <1>2, <2>2 DEF Counted
  <2> QED BY <2>1, <2>2
<1> QED BY <1>1, <1>2, <1>3, <1>4 DEF Sound, Proper, Shaped, k, c

LEMMA NotDead ==
  ASSUME NEW c, Stored(c)
  PROVE  DEAD \notin DOMAIN c.states /\ \A i \in DOMAIN c.states : i > 0 /\ i # NONE
<1>1. Len(c.states) \in Nat /\ DOMAIN c.states = 1..Len(c.states) BY SeqFacts DEF Stored
<1> QED BY <1>1 DEF DEAD, NONE

LEMMA InternTagFacts ==
  ASSUME NEW d, Sound(d), d.stop = "go", d.s \in DOMAIN d.cache.states,
         NEW st, IsPlain(st), NEW column, Reaches(d, column, st), NEW tag
  PROVE  /\ Sound(InternTag(d, tag, st)) /\ Kept(d, InternTag(d, tag, st))
         /\ InternTag(d, tag, st).stop = "go" => Reaches(InternTag(d, tag, st), column, st)
<1> DEFINE kept == Keeping(d, TRUE)
           b == Intern(kept, st)
           again == IF d.got = DEAD THEN Got(kept, DEAD) ELSE OrCapacity(b)
           here == IF TagFits(d, tag) THEN d ELSE again
           z == [here EXCEPT !.cache.tags = @ \cup {tag}]
<1> SUFFICES ASSUME NEW e, e = InternTag(d, tag, st)
             PROVE  /\ Sound(e) /\ Kept(d, e)
                    /\ e.stop = "go" => Reaches(e, column, st)
  OBVIOUS
<1>1. e = IF here.stop = "go" THEN (IF TagFits(here, tag) THEN z ELSE Halt(here, "Capacity")) ELSE here
  BY DEF InternTag, IfGo
<1>2. StateOK(d.cache.states[d.s]) /\ Proper(d) BY DEF Sound, Stored
<1>3. Sound(kept) /\ After(d, kept) /\ Kept(d, kept) BY <1>2, KeepingFacts
<1> HIDE DEF kept
<1>4. /\ Sound(b) /\ After(kept, b) /\ b.s = kept.s /\ Grows(kept.cache, b.cache)
      /\ b.stop = "go" => Found(b, st) \/ b.got = NONE
  BY <1>3, InternFacts
<1> HIDE DEF b
<1>5. Sound(again) /\ Kept(d, again) /\ (again.stop = "go" => Reaches(again, column, st))
  <2>1. CASE d.got = DEAD
    <3>1. again = Got(kept, DEAD) BY <2>1
    <3>2. /\ DOMAIN again = StepFields /\ again.cache = kept.cache /\ again.s = kept.s
          /\ again.stop = kept.stop /\ (kept.stop = "go" => again.got = DEAD)
      BY <3>1, <1>3, GotFacts DEF Sound, Proper, Shaped
    <3>3. Sound(again) BY <3>2, <1>3, SoundSame DEF After, Unanswered
    <3>4. column = 0 \/ ~Alive(st) BY <2>1, NotDead DEF Sound, Reaches
    <3> HIDE DEF again
    <3> QED BY <3>2, <3>3, <3>4, <1>3 DEF Kept, Reaches
  <2>2. CASE d.got # DEAD
    <3>1. again = OrCapacity(b) /\ column # 0 /\ Alive(st) BY <2>2 DEF Reaches
    <3>2. DOMAIN b = StepFields BY <1>4 DEF Sound, Proper, Shaped
    <3> HIDE DEF again
    <3>3. /\ DOMAIN again = StepFields /\ again.cache = b.cache /\ again.s = b.s /\ After(b, again)
          /\ again.stop = "go" => b.got # NONE /\ again = b
      BY <3>1, <3>2, OrCapacityFacts
    <3>4. Sound(again) BY <3>3, <1>4, SoundSame
    <3>5. again.stop = "go" => again.s \in DOMAIN kept.cache.states
                               /\ Plain(kept.cache.states[again.s]) = Plain(d.cache.states[d.s])
      BY <3>3, <1>3, <1>4 DEF After, Kept, Unanswered
    <3>6. Kept(d, again) BY <3>3, <3>5, <1>3, <1>4 DEF Kept, Grows
    <3>7. again.stop = "go" => Reaches(again, column, st)
      BY <3>1, <3>3, <1>4 DEF Found, Reaches, After, Unanswered
    <3> QED BY <3>4, <3>6, <3>7
  <2> QED BY <2>1, <2>2
<1> HIDE DEF again
<1>6. Sound(here) /\ Kept(d, here) /\ (here.stop = "go" => Reaches(here, column, st))
  BY <1>5 DEF Kept
<1> HIDE DEF here
<1>7. CASE here.stop # "go"
  BY <1>1, <1>6, <1>7
<1>8. CASE here.stop = "go" /\ TagFits(here, tag)
  <2>1. Tagged(here, tag, e) BY <1>1, <1>6, <1>8 DEF Tagged
  <2>2. /\ Sound(e) /\ e.s = here.s /\ e.got = here.got /\ e.stop = "go"
        /\ e.cache.states = here.cache.states /\ e.cache.classes = here.cache.classes
        /\ e.cache.columns = here.cache.columns
    BY <2>1, TagAdded
  <2> QED BY <2>2, <1>6, <1>8 DEF Kept, Reaches
<1>9. CASE here.stop = "go" /\ ~TagFits(here, tag)
  <2>1. e = Halt(here, "Capacity") BY <1>1, <1>9
  <2>2. /\ DOMAIN e = StepFields /\ e.cache = here.cache /\ e.stop # "go" /\ After(here, e)
    BY <2>1, <1>6, HaltFacts DEF Unanswered, Sound, Proper, Shaped
  <2>3. Sound(e) BY <2>2, <1>6, SoundSame
  <2> QED BY <2>2, <2>3, <1>6 DEF Kept
<1> QED BY <1>7, <1>8, <1>9

-----------------------------------------------------------------------------
(* An entry that is what would be computed may be put in its row.          *)
EntryFor(c, st, column, entry) ==
  LET sig == IF column = 0 THEN <<>> ELSE <<c.classes[column - 1]>>
      w == A(program)!Transition(st, sig)
      next == A(program)!Successor(st, sig, w)
  IN IF w.stop = "Ambiguous" THEN entry.next = AMBIGUOUS
     ELSE /\ w.stop # "Capacity" /\ entry.flag = w.flagged /\ entry.effects = Effects(st, w)
          /\ IF column = 0 \/ ~Alive(next) THEN entry.next = DEAD
             ELSE entry.next > 0 /\ Plain(c.states[entry.next]) = next

LEMMA EntryIs ==
  ASSUME NEW c, NEW i, NEW column
  PROVE  EntryTrue(c, i, column) <=> EntryFor(c, Plain(c.states[i]), column, c.states[i].row[column])
  BY DEF EntryTrue, EntryFor, Alive

SameFor(c, e, entry) ==
  /\ e.classes = c.classes
  /\ entry.next > 0 => Plain(e.states[entry.next]) = Plain(c.states[entry.next])

LEMMA EntryAgain ==
  ASSUME NEW c, NEW e, NEW st, NEW column, NEW entry, SameFor(c, e, entry),
         EntryFor(c, st, column, entry)
  PROVE  EntryFor(e, st, column, entry)
<1> USE DEF SameFor
<1> DEFINE sig == IF column = 0 THEN <<>> ELSE <<c.classes[column - 1]>>
<1>1. (IF column = 0 THEN <<>> ELSE <<e.classes[column - 1]>>) = sig OBVIOUS
<1> HIDE DEF sig
<1> QED BY <1>1 DEF EntryFor, sig

Puts(c, i, column, entry, e) ==
  /\ Good(c) /\ i \in DOMAIN c.states /\ column \in {0} \cup 2..Len(c.classes) + 1
  /\ entry.next \in DOMAIN c.states \cup {DEAD, AMBIGUOUS}
  /\ EntryFor(c, Plain(c.states[i]), column, entry)
  /\ e = [c EXCEPT !.states[i].row = With(c.states[i].row, column, entry)]

LEMMA PutIsGood ==
  ASSUME NEW c, NEW i, NEW column, NEW entry, NEW e, Puts(c, i, column, entry, e)
  PROVE  /\ Good(e) /\ DOMAIN e.states = DOMAIN c.states /\ e.disabled = c.disabled
         /\ e.classes = c.classes
         /\ \A j \in DOMAIN c.states : Plain(e.states[j]) = Plain(c.states[j])
         /\ column \in DOMAIN e.states[i].row /\ e.states[i].row[column] = entry
<1> USE DEF Puts
<1> DEFINE row == With(c.states[i].row, column, entry)
           new == [c.states[i] EXCEPT !.row = row]
<1>1. Stored(c) /\ DOMAIN c = CacheFields /\ Limits(c) /\ Classed(c) /\ Counted(c) BY DEF Good
<1>2. IsSeq(c.states) /\ StateOK(c.states[i]) BY <1>1 DEF Stored
<1>3. /\ DOMAIN e = CacheFields /\ e.room = c.room /\ e.disabled = c.disabled /\ e.columns = c.columns
      /\ e.classes = c.classes /\ e.table = c.table /\ e.memo = c.memo
      /\ e.tags = c.tags /\ e.slots = c.slots /\ e.bad = c.bad
      /\ e.states = [c.states EXCEPT ![i] = new]
  BY <1>1 DEF CacheFields
<1>4. StateOK(new) /\ Plain(new) = Plain(c.states[i]) /\ new.row = row
  BY <1>2 DEF StateOK, StateFields, Plain, Alive
<1> HIDE DEF new
<1>5. /\ IsSeq(e.states) /\ Len(e.states) = Len(c.states) /\ DOMAIN e.states = DOMAIN c.states
      /\ e.states[i] = new /\ \A j \in DOMAIN c.states : j # i => e.states[j] = c.states[j]
  BY <1>2, <1>3, SeqExcept
<1>6. \A j \in DOMAIN c.states : Plain(e.states[j]) = Plain(c.states[j]) /\ StateOK(e.states[j])
  BY <1>1, <1>4, <1>5 DEF Stored
<1>7. DOMAIN row = DOMAIN c.states[i].row \cup {column} /\ row[column] = entry
      /\ \A other \in DOMAIN c.states[i].row : other # column => row[other] = c.states[i].row[other]
  BY DEF With
<1> HIDE DEF row
<1>8. ASSUME NEW j \in DOMAIN c.states, NEW other \in DOMAIN e.states[j].row
      PROVE  /\ other \in {0} \cup 2..Len(e.classes) + 1
             /\ e.states[j].row[other].next \in DOMAIN e.states \cup {DEAD, AMBIGUOUS}
             /\ EntryTrue(e, j, other)
  <2>1. \A k : k \in DOMAIN c.states \cup {DEAD, AMBIGUOUS} /\ k > 0 =>
          Plain(e.states[k]) = Plain(c.states[k])
    BY <1>6 DEF DEAD, AMBIGUOUS
  <2>2. CASE j = i /\ other = column
    <3>1. e.states[j].row[other] = entry BY <2>2, <1>4, <1>5, <1>7
    <3>2. SameFor(c, e, entry) BY <2>1, <1>3 DEF SameFor
    <3>3. EntryFor(e, Plain(c.states[i]), column, entry) BY <3>2, EntryAgain
    <3>4. EntryTrue(e, j, other) BY <2>2, <3>1, <3>3, <1>6, EntryIs
    <3> QED BY <2>2, <3>1, <3>4, <1>3, <1>5
  <2>3. CASE ~(j = i /\ other = column)
    <3>1. other \in DOMAIN c.states[j].row /\ e.states[j].row[other] = c.states[j].row[other]
      <4>1. CASE j = i
        <5>1. e.states[j].row = row BY <4>1, <1>4, <1>5
        <5>2. other # column /\ other \in DOMAIN row BY <4>1, <2>3, <5>1
        <5> QED BY <4>1, <5>1, <5>2, <1>7
      <4>2. CASE j # i BY <4>2, <1>5, <1>8
      <4> QED BY <4>1, <4>2
    <3>2. /\ other \in {0} \cup 2..Len(c.classes) + 1
          /\ c.states[j].row[other].next \in DOMAIN c.states \cup {DEAD, AMBIGUOUS}
          /\ EntryTrue(c, j, other)
      BY <3>1, <1>1 DEF Stored, RowTrue
    <3> DEFINE x == c.states[j].row[other]
    <3>3. EntryFor(c, Plain(c.states[j]), other, x) BY <3>2, EntryIs
    <3>4. SameFor(c, e, x) BY <2>1, <3>2, <1>3 DEF SameFor
    <3>5. EntryFor(e, Plain(c.states[j]), other, x)
      <4> HIDE DEF x
      <4> QED BY <3>3, <3>4, EntryAgain
    <3>6. EntryTrue(e, j, other) BY <3>1, <3>5, <1>6, EntryIs
    <3> QED BY <3>1, <3>2, <3>6, <1>3, <1>5
  <2> QED BY <2>2, <2>3
<1>9. \A j \in DOMAIN e.states : RowTrue(e, j) BY <1>5, <1>8 DEF RowTrue
<1>10. Stored(e)
  <2>1. \A j, k \in DOMAIN e.states : Plain(e.states[j]) = Plain(e.states[k]) => j = k
    BY <1>1, <1>5, <1>6 DEF Stored
  <2>2. \A slot \in DOMAIN e.slots : e.slots[slot] \in DOMAIN e.states
          /\ Plain(e.states[e.slots[slot]]) = StartOf(slot[1], slot[2])
    BY <1>1, <1>3, <1>5, <1>6 DEF Stored
  <2> QED BY <2>1, <2>2, <1>5, <1>6, <1>9 DEF Stored
<1>11. Counted(e)
  <2>1. \A j \in 1..Len(c.states) : e.states[j].threads = c.states[j].threads
                                    /\ e.states[j].kind = c.states[j].kind
    <3>1. DOMAIN c.states = 1..Len(c.states) BY <1>2, SeqFacts
    <3> QED BY <3>1, <1>6 DEF Plain
  <2>2. Used(e) = Used(c) BY <2>1, <1>2, <1>3, <1>5, UsedLike
  <2> QED BY <2>2, <1>1, <1>3, <1>5 DEF Counted
<1>12. Classed(e) /\ Limits(e) BY <1>1, <1>3, ClassedSame DEF Limits
<1> QED BY <1>3, <1>4, <1>5, <1>6, <1>7, <1>10, <1>11, <1>12 DEF Good

(* The entry a step has found is the one in the row of the state it is in. *)
Looked(e, column) ==
  e.stop = "go" => /\ e.s \in DOMAIN e.cache.states
                   /\ column \in DOMAIN e.cache.states[e.s].row
                   /\ e.got = e.cache.states[e.s].row[column]

Stands(d, e) ==
  /\ e.cache.classes = d.cache.classes
  /\ e.stop = "go" => /\ e.s \in DOMAIN e.cache.states
                      /\ Plain(e.cache.states[e.s]) = Plain(d.cache.states[d.s])

Putting(d, column, entry, e) ==
  /\ Sound(d) /\ d.stop = "go" /\ d.s \in DOMAIN d.cache.states
  /\ column \in {0} \cup 2..Len(d.cache.classes) + 1
  /\ entry.next \in DOMAIN d.cache.states \cup {DEAD, AMBIGUOUS}
  /\ EntryFor(d.cache, Plain(d.cache.states[d.s]), column, entry)
  /\ e = [d EXCEPT !.cache.states[d.s].row = With(d.cache.states[d.s].row, column, entry),
                   !.got = entry]

LEMMA PuttingFacts ==
  ASSUME NEW d, NEW column, NEW entry, NEW e, Putting(d, column, entry, e)
  PROVE  Sound(e) /\ Stands(d, e) /\ Looked(e, column)
<1> USE DEF Putting
<1> DEFINE c == d.cache
           k == [c EXCEPT !.states[d.s].row = With(c.states[d.s].row, column, entry)]
<1>1. DOMAIN d = StepFields /\ Good(c) /\ ~c.disabled BY SoundIsGood
<1>2. DOMAIN e = StepFields /\ e.cache = k /\ e.s = d.s /\ e.got = entry /\ e.stop = "go"
  BY <1>1 DEF StepFields
<1>3. Puts(c, d.s, column, entry, k) BY <1>1 DEF Puts
<1> HIDE DEF k
<1>4. /\ Good(k) /\ DOMAIN k.states = DOMAIN c.states /\ k.disabled = c.disabled
      /\ k.classes = c.classes /\ \A j \in DOMAIN c.states : Plain(k.states[j]) = Plain(c.states[j])
      /\ column \in DOMAIN k.states[d.s].row /\ k.states[d.s].row[column] = entry
  BY <1>3, PutIsGood
<1>5. Sound(e) BY <1>1, <1>2, <1>4, SoundIsGood
<1> QED BY <1>2, <1>4, <1>5 DEF Stands, Kept, Looked

(* What a transition of a state it holds leads to.                         *)
Asked(d, column, st, sig, w) ==
  /\ Sound(d) /\ d.stop = "go" /\ d.s \in DOMAIN d.cache.states
  /\ column \in {0} \cup 2..Len(d.cache.classes) + 1
  /\ st = Plain(d.cache.states[d.s])
  /\ sig = (IF column = 0 THEN <<>> ELSE <<d.cache.classes[column - 1]>>)
  /\ w = A(program)!Transition(st, sig)

LEMMA SuccessorIs ==
  ASSUME NEW st, NEW sig, NEW w, w = A(program)!Transition(st, sig)
  PROVE  IsPlain(A(program)!Successor(st, sig, w)) /\ A(program)!Successor(st, sig, w).kind = st.kind
<1>1. IsSeq(w.out) BY TransitionShape
<1> QED BY <1>1 DEF IsPlain, Plain, A!Successor, A!State

LEMMA EntryComputed ==
  ASSUME NEW d, NEW column, NEW st, NEW sig, NEW w, Asked(d, column, st, sig, w), NEW e,
         e.cache.classes = d.cache.classes, Stored(e.cache), w.stop \notin {"Capacity", "Ambiguous"},
         Reaches(e, column, A(program)!Successor(st, sig, w))
  PROVE  /\ EntryFor(e.cache, st, column, Entry(e.got, w.flagged, Effects(st, w)))
         /\ e.got \in DOMAIN e.cache.states \cup {DEAD, AMBIGUOUS}
<1> DEFINE next == A(program)!Successor(st, sig, w)
           entry == Entry(e.got, w.flagged, Effects(st, w))
<1>1. entry.next = e.got /\ entry.flag = w.flagged /\ entry.effects = Effects(st, w) BY DEF Entry
<1> HIDE DEF entry
<1>2. sig = (IF column = 0 THEN <<>> ELSE <<e.cache.classes[column - 1]>>) BY DEF Asked
<1>3. w = A(program)!Transition(st, sig) BY DEF Asked
<1>4. IF column = 0 \/ ~Alive(next) THEN entry.next = DEAD
      ELSE entry.next > 0 /\ Plain(e.cache.states[entry.next]) = next
  BY <1>1, NotDead DEF Reaches
<1>5. EntryFor(e.cache, st, column, entry)
  <2> HIDE DEF next
  <2>1. w.stop # "Ambiguous" /\ w.stop # "Capacity" OBVIOUS
  <2> QED BY <1>1, <1>2, <1>3, <1>4, <2>1 DEF EntryFor, next
<1> QED BY <1>1, <1>5 DEF Reaches, entry

LEMMA LedFacts ==
  ASSUME NEW d, NEW column, NEW st, NEW sig, NEW w, Asked(d, column, st, sig, w)
  PROVE  /\ Sound(Led(d, column, st, sig, w)) /\ Stands(d, Led(d, column, st, sig, w))
         /\ Looked(Led(d, column, st, sig, w), column)
<1> DEFINE next == A(program)!Successor(st, sig, w)
           effects == Effects(st, w)
           paid == Charge(d, w.work)
           l == IF column = 0 THEN Got(paid, DEAD) ELSE InternNext(paid, next)
           t == IF effects = <<>> THEN l ELSE InternTag(l, effects[1], next)
           no == Entry(AMBIGUOUS, FALSE, <<>>)
           yes == Entry(t.got, w.flagged, effects)
           Put(f, entry) == [f EXCEPT !.cache.states[f.s].row = With(f.cache.states[f.s].row, column, entry),
                                      !.got = entry]
<1> SUFFICES ASSUME NEW e, e = Led(d, column, st, sig, w)
             PROVE  Sound(e) /\ Stands(d, e) /\ Looked(e, column)
  OBVIOUS
<1>0. /\ Sound(d) /\ DOMAIN d = StepFields /\ d.stop = "go" /\ d.s \in DOMAIN d.cache.states
      /\ column \in {0} \cup 2..Len(d.cache.classes) + 1
      /\ st = Plain(d.cache.states[d.s])
      /\ sig = (IF column = 0 THEN <<>> ELSE <<d.cache.classes[column - 1]>>)
      /\ w = A(program)!Transition(st, sig)
  BY DEF Asked, Sound, Proper, Shaped
<1>1. e = IF w.stop = "Capacity" THEN Halt(d, "Capacity")
          ELSE IF paid.stop # "go" THEN paid
          ELSE IF w.stop = "Ambiguous" THEN Put(paid, no)
          ELSE IF l.stop # "go" THEN l
          ELSE IF t.stop # "go" THEN t
          ELSE Put(t, yes)
  BY DEF Led, Then, IfGo
<1>2. IsPlain(next) BY <1>0, SuccessorIs
<1>3. DOMAIN paid = StepFields /\ paid.cache = d.cache /\ paid.s = d.s /\ After(d, paid)
  BY <1>0, ChargeFacts
<1>4. Sound(paid) BY <1>0, <1>3, SoundSame
<1> HIDE DEF paid, next
<1>5. CASE w.stop = "Capacity"
  <2>1. e = Halt(d, "Capacity") BY <1>1, <1>5
  <2>2. DOMAIN e = StepFields /\ e.cache = d.cache /\ e.stop # "go" /\ After(d, e)
    BY <2>1, <1>0, HaltFacts DEF Unanswered
  <2> QED BY <2>2, <1>0, SoundSame DEF Stands, Kept, Looked
<1>6. CASE w.stop # "Capacity" /\ paid.stop # "go"
  <2>1. e = paid BY <1>1, <1>6
  <2> QED BY <2>1, <1>3, <1>4, <1>6 DEF Stands, Looked
<1>7. CASE w.stop = "Ambiguous" /\ paid.stop = "go"
  <2>1. e = Put(paid, no) BY <1>1, <1>7
  <2>2. no.next = AMBIGUOUS BY DEF Entry
  <2>3. EntryFor(paid.cache, st, column, no) BY <1>0, <1>3, <1>7, <2>2 DEF EntryFor
  <2> HIDE DEF no
  <2>4. Putting(paid, column, no, e) BY <2>1, <2>2, <2>3, <1>0, <1>3, <1>4, <1>7 DEF Putting
  <2>5. Sound(e) /\ Stands(paid, e) /\ Looked(e, column) BY <2>4, PuttingFacts
  <2> QED BY <2>5, <1>3 DEF Stands
<1>8. CASE w.stop \notin {"Capacity", "Ambiguous"} /\ paid.stop = "go"
  <2>1. e = IF l.stop # "go" THEN l ELSE IF t.stop # "go" THEN t ELSE Put(t, yes)
    BY <1>1, <1>8
  <2>2. Sound(l) /\ Kept(d, l) /\ (l.stop = "go" => Reaches(l, column, next))
    <3>1. CASE column = 0
      <4>1. l = Got(paid, DEAD) BY <3>1
      <4>2. /\ DOMAIN l = StepFields /\ l.cache = d.cache /\ l.s = d.s /\ l.stop = "go" /\ l.got = DEAD
        BY <4>1, <1>3, <1>8, GotFacts
      <4>3. Sound(l) BY <4>2, <1>0, SoundSame DEF After, Unanswered
      <4> HIDE DEF l
      <4> QED BY <3>1, <4>2, <4>3, <1>0 DEF Kept, Reaches
    <3>2. CASE column # 0
      <4>1. l = InternNext(paid, next) BY <3>2
      <4> HIDE DEF l
      <4>2. /\ Sound(l) /\ Kept(paid, l) /\ (l.stop = "go" => Found(l, next))
        BY <4>1, <1>0, <1>2, <1>3, <1>4, <1>8, InternNextFacts
      <4> QED BY <3>2, <4>2, <1>3 DEF Kept, Reaches, Found
    <3> QED BY <3>1, <3>2
  <2> HIDE DEF l
  <2>3. CASE l.stop # "go"
    BY <2>1, <2>2, <2>3 DEF Stands, Kept, Looked
  <2>4. CASE l.stop = "go"
    <3>1. e = IF t.stop # "go" THEN t ELSE Put(t, yes) BY <2>1, <2>4
    <3>2. Sound(t) /\ Kept(d, t) /\ (t.stop = "go" => Reaches(t, column, next))
      <4>1. CASE effects = <<>> BY <4>1, <2>2
      <4>2. CASE effects # <<>>
        <5>1. t = InternTag(l, effects[1], next) BY <4>2
        <5>2. l.s \in DOMAIN l.cache.states BY <2>2, <2>4 DEF Kept
        <5> HIDE DEF t, effects
        <5>3. Sound(t) /\ Kept(l, t) /\ (t.stop = "go" => Reaches(t, column, next))
          BY <5>1, <5>2, <2>2, <2>4, <1>2, InternTagFacts
        <5> QED BY <5>3, <2>2, <2>4 DEF Kept
      <4> QED BY <4>1, <4>2
    <3> HIDE DEF t
    <3>3. CASE t.stop # "go"
      BY <3>1, <3>2, <3>3 DEF Stands, Kept, Looked
    <3>4. CASE t.stop = "go"
      <4>1. e = Put(t, yes) BY <3>1, <3>4
      <4>2. EntryFor(t.cache, st, column, yes) /\ t.got \in DOMAIN t.cache.states \cup {DEAD, AMBIGUOUS}
        <5>1. t.cache.classes = d.cache.classes /\ Stored(t.cache) BY <3>2 DEF Kept, Sound
        <5> QED BY <5>1, <3>2, <3>4, <1>8, EntryComputed DEF next
      <4>3. yes.next = t.got BY DEF Entry
      <4> HIDE DEF yes
      <4>4. t.s \in DOMAIN t.cache.states /\ Plain(t.cache.states[t.s]) = st
            /\ t.cache.classes = d.cache.classes
        BY <3>2, <3>4, <1>0 DEF Kept
      <4>5. Putting(t, column, yes, e) BY <4>1, <4>2, <4>3, <4>4, <3>2, <3>4, <1>0 DEF Putting
      <4>6. Sound(e) /\ Stands(t, e) /\ Looked(e, column) BY <4>5, PuttingFacts
      <4> QED BY <4>4, <4>6, <1>0 DEF Stands
    <3> QED BY <3>3, <3>4
  <2> QED BY <2>3, <2>4
<1> QED BY <1>5, <1>6, <1>7, <1>8

LEMMA ComputeFacts ==
  ASSUME NEW d, Sound(d), d.stop = "go", d.s \in DOMAIN d.cache.states,
         NEW column, column \in {0} \cup 2..Len(d.cache.classes) + 1
  PROVE  Sound(Compute(d, column)) /\ Stands(d, Compute(d, column)) /\ Looked(Compute(d, column), column)
<1> DEFINE st == Plain(d.cache.states[d.s])
           sig == IF column = 0 THEN <<>> ELSE <<d.cache.classes[column - 1]>>
           w == A(program)!Transition(st, sig)
<1>1. Compute(d, column) = Led(d, column, st, sig, w) BY DEF Compute
<1>2. Asked(d, column, st, sig, w) BY DEF Asked
<1> HIDE DEF st, sig, w
<1> QED BY <1>1, <1>2, LedFacts

(* The column of a character, or of the edge.                              *)
ColumnOf(c, column, ch) == IF ch = <<>> THEN column = 0 ELSE ClassOf(c, column, ch[1])

LookedUp(e, ch) ==
  e.stop = "go" => /\ e.s \in DOMAIN e.cache.states
                   /\ \E column \in DOMAIN e.cache.states[e.s].row :
                        ColumnOf(e.cache, column, ch) /\ e.got = e.cache.states[e.s].row[column]

LEMMA LookedIs ==
  ASSUME NEW e, NEW column, NEW ch, Looked(e, column), ColumnOf(e.cache, column, ch)
  PROVE  LookedUp(e, ch)
  BY DEF Looked, LookedUp

(* A column known without probing is the character's, if a row has it.     *)
LEMMA KnownIs ==
  ASSUME NEW c, Classed(c), NEW ch \in Nat, Known(c, ch) \in {0} \cup 2..Len(c.classes) + 1
  PROVE  ClassOf(c, Known(c, ch), ch)
<1>1. CASE ch < 128
  <2>1. CASE ch \in DOMAIN c.table
    <3>1. ClassOf(c, c.table[ch], ch) BY <2>1 DEF Classed
    <3>2. Known(c, ch) = c.table[ch] BY <1>1, <2>1 DEF Known
    <3> QED BY <3>1, <3>2
  <2>2. CASE ch \notin DOMAIN c.table
    <3>1. Known(c, ch) = 1 BY <1>1, <2>2 DEF Known, UNCLASSIFIED
    <3>2. 1 \notin {0} \cup 2..Len(c.classes) + 1 BY DEF Classed
    <3> QED BY <3>1, <3>2
  <2> QED BY <2>1, <2>2
<1>2. CASE ~(ch < 128)
  <2> DEFINE held == c.memo[Hash(ch)]
  <2>0. MemoSlots \in Nat \ {0} /\ DOMAIN c.memo = 0..MemoSlots - 1 BY DfaConstants DEF Classed
  <2>1. Hash(ch) \in DOMAIN c.memo BY <2>0 DEF Hash
  <2>2. CASE held # <<>> /\ held[1] = ch
    <3>1. ClassOf(c, held[2], held[1]) BY <2>1, <2>2 DEF Classed
    <3>2. Known(c, ch) = held[2] BY <1>2, <2>2 DEF Known
    <3> QED BY <2>2, <3>1, <3>2
  <2>3. CASE ~(held # <<>> /\ held[1] = ch)
    <3>1. Known(c, ch) = 1 BY <1>2, <2>3 DEF Known, UNCLASSIFIED
    <3>2. 1 \notin {0} \cup 2..Len(c.classes) + 1 BY DEF Classed
    <3> QED BY <3>1, <3>2
  <2> QED BY <2>2, <2>3
<1> QED BY <1>1, <1>2

LEMMA LookFacts ==
  ASSUME NEW d, Sound(d), d.stop = "go", d.s \in DOMAIN d.cache.states,
         NEW ch, ch = <<>> \/ ch[1] \in Nat, NEW read
  PROVE  Sound(Look(d, ch, read)) /\ Stays(d, Look(d, ch, read)) /\ LookedUp(Look(d, ch, read), ch)
<1> DEFINE row == d.cache.states[d.s].row
           quick == IF ch = <<>> THEN 0 ELSE Known(d.cache, ch[1])
           slowly == [d EXCEPT !.read = read]
           at == IF ch = <<>> THEN Got(slowly, 0) ELSE Column(slowly, ch[1])
           slow == at.cache.states[at.s].row
<1> SUFFICES ASSUME NEW e, e = Look(d, ch, read)
             PROVE  Sound(e) /\ Stays(d, e) /\ LookedUp(e, ch)
  OBVIOUS
<1>0. DOMAIN d = StepFields BY DEF Sound, Proper, Shaped
<1>1. e = IF quick \in DOMAIN row THEN Got(d, row[quick])
          ELSE IF at.stop # "go" THEN at
          ELSE IF at.got \in DOMAIN slow THEN Got(at, slow[at.got]) ELSE Compute(at, at.got)
  BY DEF Look, Then, IfGo
<1> HIDE DEF quick
<1>2. DOMAIN slowly = StepFields /\ slowly.cache = d.cache /\ slowly.s = d.s /\ slowly.stop = "go"
  BY <1>0 DEF StepFields
<1>3. Sound(slowly) BY <1>2, SoundSame DEF After, Unanswered
<1> HIDE DEF slowly
<1>4. /\ Sound(at) /\ Stays(d, at)
      /\ at.stop = "go" => at.got \in {0} \cup 2..Len(at.cache.classes) + 1
                            /\ ColumnOf(at.cache, at.got, ch)
  <2>1. CASE ch = <<>>
    <3>1. at = Got(slowly, 0) BY <2>1
    <3> HIDE DEF at
    <3>2. DOMAIN at = StepFields /\ at.cache = d.cache /\ at.s = d.s /\ at.got = 0 /\ at.stop = "go"
      BY <3>1, <1>2, GotFacts
    <3>3. Sound(at) BY <3>2, SoundSame DEF After, Unanswered
    <3> QED BY <2>1, <3>2, <3>3 DEF Stays, ColumnOf
  <2>2. CASE ch # <<>>
    <3>1. at = Column(slowly, ch[1]) BY <2>2
    <3> HIDE DEF at
    <3>2. Sound(at) /\ Stays(slowly, at) /\ (at.stop = "go" => ClassOf(at.cache, at.got, ch[1]))
      BY <2>2, <3>1, <1>2, <1>3, ColumnFacts
    <3> QED BY <2>2, <3>2, <1>2 DEF Stays, ClassOf, ColumnOf
  <2> QED BY <2>1, <2>2
<1> HIDE DEF at
<1>5. CASE quick \in DOMAIN row
  <2>1. e = Got(d, row[quick]) BY <1>1, <1>5
  <2>2. DOMAIN e = StepFields /\ e.cache = d.cache /\ e.s = d.s /\ e.got = row[quick] /\ e.stop = "go"
    <3> DEFINE entry == row[quick]
    <3>1. e = Got(d, entry) BY <2>1
    <3> HIDE DEF entry
    <3>2. DOMAIN e = StepFields /\ e.cache = d.cache /\ e.s = d.s /\ e.got = entry /\ e.stop = "go"
      BY <3>1, <1>0, GotFacts
    <3> QED BY <3>2 DEF entry
  <2>3. Sound(e) BY <2>2, SoundSame DEF After, Unanswered
  <2>4. ColumnOf(d.cache, quick, ch)
    <3>1. quick \in {0} \cup 2..Len(d.cache.classes) + 1 /\ Classed(d.cache)
      BY <1>5 DEF Sound, Proper, Stored, RowTrue
    <3> QED BY <3>1, KnownIs DEF ColumnOf, quick
  <2>5. LookedUp(e, ch) BY <2>2, <2>4, <1>5 DEF LookedUp
  <2> QED BY <2>2, <2>3, <2>5 DEF Stays
<1>6. CASE quick \notin DOMAIN row /\ at.stop # "go"
  <2>1. e = at BY <1>1, <1>6
  <2> QED BY <2>1, <1>4, <1>6 DEF LookedUp
<1>7. CASE quick \notin DOMAIN row /\ at.stop = "go" /\ at.got \in DOMAIN slow
  <2>1. e = Got(at, slow[at.got]) BY <1>1, <1>7
  <2>2. /\ DOMAIN e = StepFields /\ e.cache = at.cache /\ e.s = at.s /\ e.got = slow[at.got]
        /\ e.stop = "go"
    <3> DEFINE entry == slow[at.got]
    <3>1. DOMAIN at = StepFields BY <1>4 DEF Sound, Proper, Shaped
    <3>2. e = Got(at, entry) BY <2>1
    <3> HIDE DEF entry
    <3>3. e.got = entry /\ DOMAIN e = StepFields /\ e.cache = at.cache /\ e.s = at.s /\ e.stop = "go"
      BY <3>1, <3>2, <1>7, GotFacts
    <3> QED BY <3>3 DEF entry
  <2>3. Sound(e) BY <2>2, <1>4, <1>7, SoundSame DEF After, Unanswered
  <2>4. at.s \in DOMAIN at.cache.states BY <1>4, <1>7 DEF Stays
  <2>5. LookedUp(e, ch) BY <2>2, <2>4, <1>4, <1>7 DEF LookedUp
  <2> QED BY <2>2, <2>3, <2>4, <2>5, <1>4, <1>7 DEF Stays
<1>8. CASE quick \notin DOMAIN row /\ at.stop = "go" /\ at.got \notin DOMAIN slow
  <2>1. e = Compute(at, at.got) BY <1>1, <1>8
  <2>2. at.s \in DOMAIN at.cache.states BY <1>4, <1>8 DEF Stays
  <2>3. Sound(e) /\ Stands(at, e) /\ Looked(e, at.got)
    BY <2>1, <2>2, <1>4, <1>8, ComputeFacts
  <2>4. ColumnOf(e.cache, at.got, ch) BY <2>3, <1>4, <1>8 DEF Stands, ColumnOf, ClassOf
  <2>5. LookedUp(e, ch) BY <2>3, <2>4, LookedIs
  <2> QED BY <2>3, <2>5, <1>4, <1>8 DEF Stays, Stands
<1> QED BY <1>5, <1>6, <1>7, <1>8

(* What a character's class takes, nothing at the edge.                    *)
SignOf(ch) == IF ch = <<>> THEN <<>> ELSE <<A(program)!Signature(ch[1])>>

(* The entry found for a character is what a state without a cache would   *)
(* compute of it, and the state it leads to is held.                       *)
Computes(c, st, ch, entry) ==
  LET w == A(program)!Transition(st, SignOf(ch))
      next == A(program)!Successor(st, SignOf(ch), w)
  IN /\ entry.flag = w.flagged /\ entry.effects = Effects(st, w)
     /\ IF ch = <<>> \/ ~Alive(next) THEN entry.next = DEAD
        ELSE entry.next \in DOMAIN c.states /\ Plain(c.states[entry.next]) = next

LEMMA LookedComputes ==
  ASSUME NEW e, NEW ch, Sound(e), LookedUp(e, ch), e.stop = "go", NEW st,
         Plain(e.cache.states[e.s]) = st
  PROVE  (e.got.next = AMBIGUOUS /\ st.kind = "capture") \/ Computes(e.cache, st, ch, e.got)
<1> DEFINE c == e.cache
<1>1. PICK column \in DOMAIN c.states[e.s].row :
        ColumnOf(c, column, ch) /\ e.got = c.states[e.s].row[column]
  BY DEF LookedUp
<1>2. Stored(c) /\ e.s \in DOMAIN c.states BY DEF Sound, LookedUp
<1>3. /\ e.got.next \in DOMAIN c.states \cup {DEAD, AMBIGUOUS}
      /\ EntryTrue(c, e.s, column)
  BY <1>1, <1>2 DEF Stored, RowTrue
<1> DEFINE sig == IF column = 0 THEN <<>> ELSE <<c.classes[column - 1]>>
           w == A(program)!Transition(st, sig)
           next == A(program)!Successor(st, sig, w)
<1>4. w.stop = "Ambiguous" => st.kind = "capture" BY TransitionShape
<1>5. IF w.stop = "Ambiguous" THEN e.got.next = AMBIGUOUS
      ELSE /\ e.got.flag = w.flagged /\ e.got.effects = Effects(st, w)
           /\ IF column = 0 \/ ~Alive(next) THEN e.got.next = DEAD
              ELSE e.got.next > 0 /\ Plain(c.states[e.got.next]) = next
  BY <1>1, <1>3, EntryIs DEF EntryFor
<1>6. sig = SignOf(ch) /\ (column = 0 <=> ch = <<>>)
  <2>1. CASE ch = <<>> BY <1>1, <2>1 DEF ColumnOf, SignOf
  <2>2. CASE ch # <<>>
    <3>1. column \in 2..Len(c.classes) + 1 /\ c.classes[column - 1] = A(program)!Signature(ch[1])
      BY <1>1, <2>2 DEF ColumnOf, ClassOf
    <3>2. column # 0 BY <3>1
    <3> QED BY <2>2, <3>1, <3>2 DEF SignOf
  <2> QED BY <2>1, <2>2
<1>7. e.got.next > 0 => e.got.next \in DOMAIN c.states
  <2>1. ~(-1 > 0) /\ ~(0 > 0) OBVIOUS
  <2> QED BY <2>1, <1>3 DEF DEAD, AMBIGUOUS
<1>8. CASE w.stop = "Ambiguous" BY <1>4, <1>5, <1>8
<1>9. CASE w.stop # "Ambiguous"
  <2> HIDE DEF sig
  <2>1. Computes(c, st, ch, e.got) BY <1>5, <1>6, <1>7, <1>9 DEF Computes
  <2> QED BY <2>1
<1> QED BY <1>8, <1>9

-----------------------------------------------------------------------------
(* The steady path: the match end it finds is a place of the subject.      *)
Ends(text) == {<<>>} \cup {<<p>> : p \in 0..Len(text)}
PlaceOK(text, v) ==
  DOMAIN v = {"at", "s", "last", "goes"} /\ v.at \in 1..Len(text) + 1 /\ v.last \in Ends(text)

LEMMA SkipFacts ==
  ASSUME NEW c, NEW s, NEW text \in Seq(Nat), NEW i \in 1..Len(text)
  PROVE  Skip(c, s, text, i) \in i..Len(text) + 1
<1> DEFINE admitted == Admits(text, i)
           stops == IF Ascii(text) \/ AsciiStart THEN admitted
                    ELSE admitted \cup {j \in i..Len(text) : text[j] >= 128 /\ ~StaysIdle(c, s, text, j)}
<1>1. Len(text) \in Nat OBVIOUS
<1>2. stops \subseteq i..Len(text)
  <2>1. admitted \subseteq i..Len(text) BY DEF Admits
  <2> HIDE DEF admitted
  <2> QED BY <2>1
<1>3. Skip(c, s, text, i) = IF stops = {} THEN Len(text) + 1 ELSE CHOOSE j \in stops : \A k \in stops : j <= k
  BY DEF Skip
<1> HIDE DEF stops
<1>4. CASE stops = {} BY <1>1, <1>3, <1>4
<1>5. CASE stops # {}
  <2>1. stops \in SUBSET Nat BY <1>1, <1>2
  <2>2. \E j \in stops : \A k \in stops : j <= k BY <2>1, <1>5, LeastOf
  <2>3. Skip(c, s, text, i) \in stops BY <2>2, <1>3, <1>5
  <2>4. Skip(c, s, text, i) \in i..Len(text) BY <2>3, <1>2
  <2> QED BY <2>4, <1>1
<1> QED BY <1>4, <1>5

LEMMA ReadOneKeeps ==
  ASSUME NEW c, NEW text \in Seq(Nat), NEW idle, NEW first, NEW v, PlaceOK(text, v)
  PROVE  PlaceOK(text, ReadOne(c, text, idle, first, v))
<1> DEFINE skips == v.s = idle /\ v.at <= Len(text) /\ ~PairLow(text, v.at)
           at == IF skips THEN Skip(c, v.s, text, v.at) ELSE v.at
           found == Entered(c, v.s, text, at)
           entry == found[1]
           last == IF entry.flag THEN <<at - 1>> ELSE v.last
           over == at > Len(text) \/ entry.next = DEAD \/ (first /\ entry.flag)
<1>1. Len(text) \in Nat /\ v.at \in 1..Len(text) + 1 /\ v.last \in Ends(text)
      /\ DOMAIN v = {"at", "s", "last", "goes"}
  BY DEF PlaceOK
<1>2. at \in 1..Len(text) + 1
  <2>1. CASE skips
    <3>1. v.at \in 1..Len(text) BY <2>1, <1>1
    <3>2. Skip(c, v.s, text, v.at) \in v.at..Len(text) + 1 BY <3>1, SkipFacts
    <3> QED BY <2>1, <3>1, <3>2, <1>1
  <2>2. CASE ~skips BY <2>2, <1>1
  <2> QED BY <2>1, <2>2
<1>3. ReadOne(c, text, idle, first, v)
        = IF v.goes # "on" THEN v
          ELSE IF found = <<>> THEN [v EXCEPT !.goes = "astray"]
          ELSE IF over THEN [v EXCEPT !.goes = "over", !.at = at, !.last = last]
          ELSE [v EXCEPT !.at = at + 1, !.s = entry.next, !.last = last]
  BY DEF ReadOne, ReadAt
<1> HIDE DEF at
<1>4. last \in Ends(text)
  <2>1. at - 1 \in 0..Len(text) BY <1>1, <1>2
  <2> QED BY <2>1, <1>1 DEF Ends
<1>5. ~over => at + 1 \in 1..Len(text) + 1 BY <1>1, <1>2
<1> HIDE DEF last, over, found, entry
<1> QED BY <1>1, <1>2, <1>3, <1>4, <1>5 DEF PlaceOK

LEMMA ReadsExist ==
  ASSUME NEW c, NEW text, NEW idle, NEW first, NEW start, NEW N \in Nat
  PROVE  \E f : f = [n \in 0..N |-> IF n = 0 THEN start ELSE ReadOne(c, text, idle, first, f[n - 1])]
<1> DEFINE Body(f, n) == IF n = 0 THEN start ELSE ReadOne(c, text, idle, first, f[n - 1])
           UpTo(f, k) == \A n \in 0..N : n < k => f[n] = Body(f, n)
           Without == {k \in Nat : ~\E f : UpTo(f, k)}
<1>1. 0 \notin Without
  <2>1. UpTo(<<>>, 0) OBVIOUS
  <2> QED BY <2>1
<1>2. ASSUME NEW k \in Nat, NEW f, UpTo(f, k)
      PROVE  \E g : UpTo(g, k + 1)
  <2> DEFINE g == [n \in 0..N |-> Body(f, n)]
  <2>1. ASSUME NEW n \in 0..N, n < k + 1 PROVE g[n] = Body(g, n)
    <3>1. CASE n = 0 BY <3>1
    <3>2. CASE n # 0
      <4>1. n - 1 \in 0..N /\ n - 1 < k BY <2>1, <3>2
      <4>2. f[n - 1] = g[n - 1] BY <4>1, <1>2
      <4> QED BY <4>2, <3>2
    <3> QED BY <3>1, <3>2
  <2> HIDE DEF g
  <2> QED BY <2>1
<1>3. Without = {}
  <2> SUFFICES ASSUME Without # {} PROVE FALSE OBVIOUS
  <2>1. PICK k \in Without : \A j \in Without : k <= j BY LeastOf
  <2>2. k \in Nat /\ k # 0 BY <1>1, <2>1
  <2>3. k - 1 \in Nat /\ k - 1 + 1 = k /\ k - 1 \notin Without
    <3>1. k - 1 \in Nat /\ k - 1 + 1 = k /\ ~(k <= k - 1) BY <2>2
    <3> HIDE DEF Without
    <3> QED BY <2>1, <3>1
  <2>4. PICK f : UpTo(f, k - 1) BY <2>3
  <2>5. \E g : UpTo(g, k - 1 + 1)
    <3> HIDE DEF UpTo
    <3> QED BY <1>2, <2>3, <2>4
  <2> QED BY <2>1, <2>3, <2>5
<1>4. PICK f : UpTo(f, N + 1)
  <2>1. N + 1 \in Nat OBVIOUS
  <2> HIDE DEF UpTo
  <2> QED BY <2>1, <1>3
<1> DEFINE g == [n \in 0..N |-> Body(f, n)]
<1>5. \A n \in 0..N : n # 0 => f[n - 1] = g[n - 1]
  <2> SUFFICES ASSUME NEW n \in 0..N, n # 0 PROVE f[n - 1] = g[n - 1] OBVIOUS
  <2>1. n - 1 \in 0..N /\ n - 1 < N + 1 OBVIOUS
  <2> QED BY <2>1, <1>4
<1>6. g = [n \in 0..N |-> Body(g, n)]
  <2>1. \A n \in 0..N : Body(f, n) = Body(g, n)
    <3> HIDE DEF g
    <3> QED BY <1>5
  <2> HIDE DEF Body
  <2> QED BY <2>1
<1> QED BY <1>6

LEMMA SteadilyFacts ==
  ASSUME NEW c, NEW text \in Seq(Nat), NEW start \in 1..Len(text) + 1, NEW s, NEW idle, NEW first,
         NEW found \in Steadily(c, text, start, s, idle, first)
  PROVE  found.last \in Ends(text)
<1> DEFINE N == Len(text) + 1
           begin == [at |-> start, s |-> s, last |-> <<>>, goes |-> "on"]
           F == CHOOSE f : f = [n \in 0..N |-> IF n = 0 THEN begin ELSE ReadOne(c, text, idle, first, f[n - 1])]
<1>1. found.last = F[N].last BY DEF Steadily
<1>2. N \in Nat OBVIOUS
<1>3. PlaceOK(text, begin) BY DEF PlaceOK, Ends
<1> HIDE DEF N, begin
<1>4. F = [n \in 0..N |-> IF n = 0 THEN begin ELSE ReadOne(c, text, idle, first, F[n - 1])]
  BY <1>2, ReadsExist
<1> HIDE DEF F
<1> DEFINE Bad == {n \in 0..N : ~PlaceOK(text, F[n])}
<1>5. Bad = {}
  <2> SUFFICES ASSUME Bad # {} PROVE FALSE OBVIOUS
  <2>1. PICK n \in Bad : \A m \in Bad : n <= m
    <3>1. Bad \in SUBSET Nat BY <1>2
    <3> HIDE DEF Bad
    <3> QED BY <3>1, LeastOf
  <2>2. n \in 0..N /\ ~PlaceOK(text, F[n]) BY <2>1
  <2>3. n # 0 BY <1>2, <1>3, <1>4, <2>2
  <2>4. n - 1 \in 0..N /\ ~(n <= n - 1) BY <1>2, <2>2, <2>3
  <2>5. PlaceOK(text, F[n - 1]) BY <2>1, <2>4
  <2>6. F[n] = ReadOne(c, text, idle, first, F[n - 1]) BY <1>4, <2>2, <2>3
  <2>7. PlaceOK(text, F[n]) BY <2>5, <2>6, ReadOneKeeps
  <2> QED BY <2>2, <2>7
<1>6. PlaceOK(text, F[N]) BY <1>2, <1>5
<1> QED BY <1>1, <1>6 DEF PlaceOK

-----------------------------------------------------------------------------
(* A walk with nothing cached.                                             *)
LEMMA ReadingsExist ==
  ASSUME NEW phase, NEW text, NEW begin, NEW N \in Nat
  PROVE  \E f : f = [n \in 0..N |-> IF n = 0 THEN Entrance(phase, text, begin)
                                    ELSE Unaided(f[n - 1], phase, text, Place(phase, begin, n - 1))]
<1> DEFINE Body(f, n) == IF n = 0 THEN Entrance(phase, text, begin)
                         ELSE Unaided(f[n - 1], phase, text, Place(phase, begin, n - 1))
           UpTo(f, k) == \A n \in 0..N : n < k => f[n] = Body(f, n)
           Without == {k \in Nat : ~\E f : UpTo(f, k)}
<1>1. 0 \notin Without
  <2>1. UpTo(<<>>, 0) OBVIOUS
  <2> QED BY <2>1
<1>2. ASSUME NEW k \in Nat, NEW f, UpTo(f, k)
      PROVE  \E g : UpTo(g, k + 1)
  <2> DEFINE g == [n \in 0..N |-> Body(f, n)]
  <2>1. ASSUME NEW n \in 0..N, n < k + 1 PROVE g[n] = Body(g, n)
    <3>1. CASE n = 0 BY <3>1
    <3>2. CASE n # 0
      <4>1. n - 1 \in 0..N /\ n - 1 < k BY <2>1, <3>2
      <4>2. f[n - 1] = g[n - 1] BY <4>1, <1>2
      <4> QED BY <4>2, <3>2
    <3> QED BY <3>1, <3>2
  <2> HIDE DEF g
  <2> QED BY <2>1
<1>3. Without = {}
  <2> SUFFICES ASSUME Without # {} PROVE FALSE OBVIOUS
  <2>1. PICK k \in Without : \A j \in Without : k <= j BY LeastOf
  <2>2. k \in Nat /\ k # 0 BY <1>1, <2>1
  <2>3. k - 1 \in Nat /\ k - 1 + 1 = k /\ k - 1 \notin Without
    <3>1. k - 1 \in Nat /\ k - 1 + 1 = k /\ ~(k <= k - 1) BY <2>2
    <3> HIDE DEF Without
    <3> QED BY <2>1, <3>1
  <2>4. PICK f : UpTo(f, k - 1) BY <2>3
  <2>5. \E g : UpTo(g, k - 1 + 1)
    <3> HIDE DEF UpTo
    <3> QED BY <1>2, <2>3, <2>4
  <2> QED BY <2>1, <2>3, <2>5
<1>4. PICK f : UpTo(f, N + 1)
  <2>1. N + 1 \in Nat OBVIOUS
  <2> HIDE DEF UpTo
  <2> QED BY <2>1, <1>3
<1> DEFINE g == [n \in 0..N |-> Body(f, n)]
<1>5. \A n \in 0..N : n # 0 => f[n - 1] = g[n - 1]
  <2> SUFFICES ASSUME NEW n \in 0..N, n # 0 PROVE f[n - 1] = g[n - 1] OBVIOUS
  <2>1. n - 1 \in 0..N /\ n - 1 < N + 1 OBVIOUS
  <2> QED BY <2>1, <1>4
<1>6. g = [n \in 0..N |-> Body(g, n)]
  <2>1. \A n \in 0..N : Body(f, n) = Body(g, n)
    <3> HIDE DEF g
    <3> QED BY <1>5
  <2> HIDE DEF Body
  <2> QED BY <2>1
<1> QED BY <1>6

LEMMA ReadingsFollow ==
  ASSUME NEW phase, NEW text, Len(text) \in Nat, NEW begin
  PROVE  /\ Readings(phase, text, begin)[0] = Entrance(phase, text, begin)
         /\ \A n \in 1..Len(text) :
              Readings(phase, text, begin)[n]
                = Unaided(Readings(phase, text, begin)[n - 1], phase, text, Place(phase, begin, n - 1))
<1> DEFINE N == Len(text)
           F == CHOOSE f : f = [n \in 0..N |-> IF n = 0 THEN Entrance(phase, text, begin)
                                  ELSE Unaided(f[n - 1], phase, text, Place(phase, begin, n - 1))]
<1>1. Readings(phase, text, begin) = F BY DEF Readings
<1> HIDE DEF N
<1>2. N \in Nat BY DEF N
<1>3. F = [n \in 0..N |-> IF n = 0 THEN Entrance(phase, text, begin)
                          ELSE Unaided(F[n - 1], phase, text, Place(phase, begin, n - 1))]
  BY <1>2, ReadingsExist
<1> HIDE DEF F
<1>4. F[0] = Entrance(phase, text, begin) BY <1>2, <1>3
<1>5. ASSUME NEW n \in 1..N PROVE F[n] = Unaided(F[n - 1], phase, text, Place(phase, begin, n - 1))
  <2>1. n \in 0..N /\ n # 0 BY <1>2
  <2> QED BY <1>3, <2>1
<1> QED BY <1>1, <1>4, <1>5 DEF N

(* One character of it is the entry a walk takes.                          *)
Heard(c, r, phase, text, at, ch, entry, u) ==
  /\ Beside(phase, text, at) = SignOf(ch) /\ Computes(c, r.st, ch, entry)
  /\ u = Unaided(r, phase, text, at)

LEMMA HeardIs ==
  ASSUME NEW c, NEW r, NEW phase, NEW text, NEW at, NEW ch, NEW entry, NEW u,
         Heard(c, r, phase, text, at, ch, entry, u)
  PROVE  /\ u.last = IF entry.flag THEN <<at>> ELSE r.last
         /\ u.registers = Applied(r.registers, Masks(entry.effects).path, at)
         /\ u.snap = IF entry.flag THEN Applied(r.registers, Masks(entry.effects).match, at) ELSE r.snap
         /\ IF ch = <<>> \/ ~Alive(u.st) THEN entry.next = DEAD
            ELSE entry.next \in DOMAIN c.states /\ Plain(c.states[entry.next]) = u.st
         /\ u.st.kind = r.st.kind
<1> DEFINE sig == SignOf(ch)
           w == A(program)!Transition(r.st, sig)
           masks == Masks(Effects(r.st, w))
<1>1. u = Computed(r, at, sig, w, masks) BY DEF Heard, Unaided, Signed, Taken
<1>2. /\ entry.flag = w.flagged /\ masks = Masks(entry.effects)
      /\ IF ch = <<>> \/ ~Alive(A(program)!Successor(r.st, sig, w)) THEN entry.next = DEAD
         ELSE entry.next \in DOMAIN c.states
              /\ Plain(c.states[entry.next]) = A(program)!Successor(r.st, sig, w)
  BY DEF Heard, Computes
<1>3. A(program)!Successor(r.st, sig, w).kind = r.st.kind BY SuccessorIs
<1> HIDE DEF sig, w, masks
<1> QED BY <1>1, <1>2, <1>3 DEF Computed

LEMMA ReadingsSame ==
  ASSUME program' = program, NEW phase, NEW text, NEW begin
  PROVE  Readings(phase, text, begin)' = Readings(phase, text, begin)
<1>1. \A r, at : Unaided(r, phase, text, at)' = Unaided(r, phase, text, at)
  BY DEF Unaided, Signed, Taken, Computed, Beside, Masks, Effects, Wrote, Applied
<1>2. Entrance(phase, text, begin)' = Entrance(phase, text, begin)
  BY DEF Entrance, StartOf, Mode, OneStart, Code
<1> QED BY <1>1, <1>2 DEF Readings

-----------------------------------------------------------------------------
(* The invariant: the storage is good, and a walk is in a state it holds   *)
(* of the walk's own kind, at a place of its subject.                      *)
WalkFields ==
  {"phase", "q", "s", "budget", "allowance", "begin", "at", "base", "read", "flushed", "last",
   "registers", "snap"}
Asks(q) == q.text \in Seq(Nat) /\ q.from \in Nat
Searching(c, v) ==
  /\ DOMAIN v = WalkFields /\ ~c.disabled /\ Asks(v.q)
  /\ v.at \in 0..Len(v.q.text) /\ v.last \in Ends(v.q.text)
  /\ v.s \in DOMAIN c.states /\ c.states[v.s].kind = v.phase
  /\ v.phase \in {"forward", "reverse", "capture"}
  /\ v.begin \in 0..Len(v.q.text) /\ Gone(v) \in Nat
  /\ ReadsTrue(c, v, Readings(v.phase, v.q.text, v.begin)[Gone(v)])
Inv ==
  /\ program.host \in DOMAIN Hosts /\ Good(cache)
  /\ walk # Idle => Searching(cache, walk)

(* The program a host searches with stays, and what is true of a cache.    *)
LEMMA Later ==
  ASSUME program' = program, NEW c, Good(c), cache' = c
  PROVE  Good(cache)'
<1>1. \A mode, context : StartOf(mode, context)' = StartOf(mode, context)
  BY DEF StartOf, Code
<1>2. \A column, ch : ClassOf(cache, column, ch)' <=> ClassOf(c, column, ch)
  BY DEF ClassOf
<1>3. Classed(cache)' BY <1>2 DEF Good, Classed, MemoUsed
<1>4. \A i, column : EntryTrue(cache, i, column)' <=> EntryTrue(c, i, column)
  BY DEF EntryTrue, Effects
<1>5. Stored(cache)' BY <1>1, <1>4 DEF Good, Stored, RowTrue
<1>6. Used(cache)' = Used(c) BY DEF Used
<1>7. Counted(cache)' BY <1>6 DEF Good, Counted
<1> QED BY <1>3, <1>5, <1>7 DEF Good, Limits

LEMMA EndKeeps ==
  ASSUME program' = program, program.host \in DOMAIN Hosts,
         NEW d, Shaped(d), Good(d.cache), NEW reply, End(d, reply)
  PROVE  Inv'
<1>1. Flush(d).cache = [d.cache EXCEPT !.units = @ + d.read - d.flushed] BY FlushFacts
<1>2. Good(Flush(d).cache) BY <1>1, GoodSame
<1>3. cache' = Flush(d).cache /\ walk' = Idle BY DEF End
<1>4. Good(cache)' BY <1>2, <1>3, Later
<1> QED BY <1>3, <1>4 DEF Inv

LEMMA SoundEnds ==
  ASSUME program' = program, program.host \in DOMAIN Hosts,
         NEW d, Sound(d), NEW reply, End(d, reply)
  PROVE  Inv'
  BY EndKeeps DEF Sound, Proper, Shaped, Good

LEMMA SearchingSame ==
  ASSUME program' = program, NEW c, cache' = c, NEW v, walk' = v, Searching(c, v)
  PROVE  Searching(cache, walk)'
<1>1. Readings(v.phase, v.q.text, v.begin)' = Readings(v.phase, v.q.text, v.begin)
  BY ReadingsSame
<1>2. Readings(walk.phase, walk.q.text, walk.begin)' = Readings(v.phase, v.q.text, v.begin)
  BY <1>1
<1> QED BY <1>2 DEF Searching, Ends, ReadsTrue, Gone

LEMMA GoesOn ==
  ASSUME program' = program, program.host \in DOMAIN Hosts,
         NEW d, Sound(d), d.stop = "go", cache' = d.cache,
         NEW v, Searching(d.cache, v), walk' = v
  PROVE  Inv'
<1>1. Good(d.cache) BY SoundIsGood
<1>2. Good(cache)' BY <1>1, Later
<1>3. Searching(cache, walk)' BY SearchingSame
<1> QED BY <1>2, <1>3 DEF Inv

KindOf(mode) == IF mode \in {"capture", "reverse"} THEN mode ELSE "forward"

LEMMA EnterKeeps ==
  ASSUME program' = program, program.host \in DOMAIN Hosts,
         NEW d, Sound(d), NEW q, Asks(q), NEW mode \in Modes, NEW phase, phase = KindOf(mode),
         NEW context, NEW at \in 0..Len(q.text), StartOf(mode, context) = Entrance(phase, q.text, at).st,
         Enter(phase, q, d, mode, context, at)
  PROVE  Inv'
<1> DEFINE e == StartState(d, mode, context)
           v == Walking(phase, q, e, at, e.read)
<1>1. /\ Sound(e)
      /\ e.stop = "go" => /\ e.s \in DOMAIN e.cache.states
                          /\ Plain(e.cache.states[e.s]) = StartOf(mode, context)
  BY StartStateFacts
<1>2. IF e.stop # "go" THEN End(e, Declined(q, e.stop))
      ELSE cache' = e.cache /\ walk' = v
  BY DEF Enter, Proceed
<1> HIDE DEF e
<1>3. CASE e.stop # "go"
  BY <1>1, <1>2, <1>3, SoundEnds
<1>4. CASE e.stop = "go"
  <2>1. e.cache.states[e.s].kind = phase /\ phase \in {"forward", "reverse", "capture"}
    <3>1. StartOf(mode, context).kind = phase BY StartIs DEF KindOf
    <3>2. Plain(e.cache.states[e.s]).kind = e.cache.states[e.s].kind BY DEF Plain
    <3> QED BY <3>1, <3>2, <1>1, <1>4 DEF KindOf, Modes
  <2>2. /\ DOMAIN v = WalkFields /\ v.q = q /\ v.at = at /\ v.last = <<>> /\ v.s = e.s
        /\ v.phase = phase /\ v.begin = at /\ v.snap = <<>>
        /\ v.registers = [slot \in 0..2 * program.captures - 1 |-> NONE]
    BY DEF Walking, WalkFields
  <2>3. ~e.cache.disabled BY <1>1, <1>4 DEF Sound, Proper
  <2> HIDE DEF v
  <2>4. Gone(v) = 0 BY <2>2 DEF Gone
  <2>5. ReadsTrue(e.cache, v, Readings(phase, q.text, at)[0])
    <3>1. Len(q.text) \in Nat BY DEF Asks
    <3>2. Readings(phase, q.text, at)[0] = Entrance(phase, q.text, at) BY <3>1, ReadingsFollow
    <3>3. /\ Entrance(phase, q.text, at).last = <<>> /\ Entrance(phase, q.text, at).snap = <<>>
          /\ Entrance(phase, q.text, at).registers = [slot \in 0..2 * program.captures - 1 |-> NONE]
      BY DEF Entrance
    <3> QED BY <3>2, <3>3, <2>2, <1>1, <1>4 DEF ReadsTrue
  <2>6. Searching(e.cache, v) BY <2>1, <2>2, <2>3, <2>4, <2>5, <1>1, <1>4 DEF Searching, Ends
  <2> QED BY <2>6, <1>1, <1>2, <1>4, GoesOn
<1> QED BY <1>3, <1>4

LEMMA ConcludeKeeps ==
  ASSUME program' = program, program.host \in DOMAIN Hosts,
         NEW d, Sound(d), NEW q, Asks(q), NEW last \in Ends(q.text), Conclude(q, d, last)
  PROVE  Inv'
<1>1. CASE last = <<>>
  BY <1>1, SoundEnds DEF Conclude
<1>2. CASE last # <<>> /\ (~Bounds(q) \/ OneStart)
  <2>1. End(d, Matched(q, <<<<q.from, last[1]>>>>)) BY <1>2 DEF Conclude
  <2> QED BY <2>1, SoundEnds
<1>3. CASE last # <<>> /\ ~(~Bounds(q) \/ OneStart)
  <2>1. last[1] \in 0..Len(q.text) BY <1>3 DEF Ends
  <2>2. Enter("reverse", q, d, "reverse", A(program)!ContextAfter(q.text, last[1]), last[1])
    BY <1>3 DEF Conclude
  <2>3. "reverse" \in Modes /\ "reverse" = KindOf("reverse") BY DEF Modes, KindOf
  <2>4. StartOf("reverse", A(program)!ContextAfter(q.text, last[1])) = Entrance("reverse", q.text, last[1]).st
    BY DEF Entrance
  <2> QED BY <2>1, <2>2, <2>3, <2>4, EnterKeeps
<1> QED BY <1>1, <1>2, <1>3

(* One character of a walk.                                                *)
LEMMA StepOfFacts ==
  ASSUME Inv, walk # Idle
  PROVE  /\ Sound(StepOf(walk)) /\ StepOf(walk).stop = "go" /\ StepOf(walk).cache = cache
         /\ StepOf(walk).s = walk.s
<1>1. DOMAIN StepOf(walk) = StepFields /\ StepOf(walk).cache = cache /\ StepOf(walk).stop = "go"
      /\ StepOf(walk).s = walk.s
  BY DEF StepOf, Step, StepFields
<1> QED BY <1>1, SoundIsGood DEF Inv, Searching, Unanswered

LEMMA ReadChanged ==
  ASSUME NEW d, Sound(d), NEW read
  PROVE  Sound([d EXCEPT !.read = read]) /\ [d EXCEPT !.read = read].cache = d.cache
<1> DEFINE e == [d EXCEPT !.read = read]
<1>1. DOMAIN e = StepFields /\ e.cache = d.cache /\ e.stop = d.stop
  BY DEF Sound, Proper, Shaped, StepFields
<1> HIDE DEF e
<1>2. Sound(e) BY <1>1, SoundSame DEF After, Unanswered
<1> QED BY <1>1, <1>2 DEF e

(* The work of a walk charged as it ends.                                  *)
Spent(v, d, read) == Charge([d EXCEPT !.read = read], read - v.base)

LEMMA SpentFacts ==
  ASSUME NEW v, NEW d, Sound(d), NEW read
  PROVE  Sound(Spent(v, d, read)) /\ Spent(v, d, read).cache = d.cache
<1> DEFINE e == [d EXCEPT !.read = read]
<1>1. Sound(e) /\ e.cache = d.cache BY ReadChanged
<1>2. Spent(v, d, read) = Charge(e, read - v.base) BY DEF Spent
<1> HIDE DEF e
<1>3. /\ DOMAIN Spent(v, d, read) = StepFields /\ Spent(v, d, read).cache = e.cache
      /\ After(e, Spent(v, d, read))
  BY <1>1, <1>2, ChargeFacts DEF Sound, Proper, Shaped
<1> QED BY <1>1, <1>3, SoundSame

(* What a walk is told of the next character is what the reading without a *)
(* cache makes of it.                                                      *)
Reading(v) == Readings(v.phase, v.q.text, v.begin)[Gone(v)]
Hears(c, v, e, ch) ==
  /\ Searching(c, v) /\ Sound(e) /\ e.stop = "go" /\ LookedUp(e, ch)
  /\ Plain(e.cache.states[e.s]) = Plain(c.states[v.s])
  /\ Beside(v.phase, v.q.text, v.at) = SignOf(ch)
  /\ ~(e.got.next = AMBIGUOUS /\ v.phase = "capture")

Told(v, e, ch, u) ==
  LET masks == Masks(e.got.effects) IN
    /\ u.last = IF e.got.flag THEN <<v.at>> ELSE v.last
    /\ v.phase = "capture" =>
         /\ u.registers = Applied(v.registers, masks.path, v.at)
         /\ u.snap = IF e.got.flag THEN Applied(v.registers, masks.match, v.at) ELSE v.snap
    /\ IF ch = <<>> \/ ~Alive(u.st) THEN e.got.next = DEAD
       ELSE /\ e.got.next \in DOMAIN e.cache.states
            /\ Plain(e.cache.states[e.got.next]) = u.st
    /\ e.got.next = DEAD => ch = <<>> \/ ~Alive(u.st)
    /\ u.st.kind = v.phase

LEMMA HearsIs ==
  ASSUME NEW c, NEW v, NEW e, NEW ch, Hears(c, v, e, ch)
  PROVE  Told(v, e, ch, Unaided(Reading(v), v.phase, v.q.text, v.at))
<1> DEFINE r == Reading(v)
           u == Unaided(r, v.phase, v.q.text, v.at)
<1>1. ReadsTrue(c, v, r) /\ c.states[v.s].kind = v.phase BY DEF Hears, Searching, Reading
<1> HIDE DEF r
<1>2. r.st = Plain(e.cache.states[e.s]) /\ r.st.kind = v.phase BY <1>1 DEF Hears, ReadsTrue, Plain
<1>3. Computes(e.cache, r.st, ch, e.got) BY <1>2, LookedComputes DEF Hears
<1>4. Heard(e.cache, r, v.phase, v.q.text, v.at, ch, e.got, u) BY <1>3 DEF Hears, Heard
<1> HIDE DEF u
<1>5. /\ u.last = IF e.got.flag THEN <<v.at>> ELSE r.last
      /\ u.registers = Applied(r.registers, Masks(e.got.effects).path, v.at)
      /\ u.snap = IF e.got.flag THEN Applied(r.registers, Masks(e.got.effects).match, v.at) ELSE r.snap
      /\ IF ch = <<>> \/ ~Alive(u.st) THEN e.got.next = DEAD
         ELSE e.got.next \in DOMAIN e.cache.states /\ Plain(e.cache.states[e.got.next]) = u.st
      /\ u.st.kind = r.st.kind
  BY <1>4, HeardIs
<1>6. DEAD \notin DOMAIN e.cache.states BY NotDead DEF Hears, Sound
<1>7. Told(v, e, ch, u) BY <1>1, <1>2, <1>5, <1>6 DEF Told, ReadsTrue
<1> QED BY <1>7 DEF u, r

(* One more character read, by an entry that leads on.                     *)
Onto(v, z, entry) ==
  /\ DOMAIN z = WalkFields /\ z.q = v.q /\ z.phase = v.phase /\ z.begin = v.begin
  /\ z.at = Place(v.phase, v.at, 1) /\ z.s = entry.next
  /\ z.last = IF entry.flag THEN <<v.at>> ELSE v.last
  /\ v.phase = "capture" =>
       /\ z.registers = Applied(v.registers, Masks(entry.effects).path, v.at)
       /\ z.snap = IF entry.flag THEN Applied(v.registers, Masks(entry.effects).match, v.at) ELSE v.snap

LEMMA WalksOn ==
  ASSUME NEW c, NEW v, NEW e, NEW ch, Hears(c, v, e, ch), e.got.next # DEAD,
         NEW z, Onto(v, z, e.got), z.at \in 0..Len(v.q.text)
  PROVE  Searching(e.cache, z)
<1> DEFINE text == v.q.text
           u == Unaided(Reading(v), v.phase, text, v.at)
<1>1. /\ text \in Seq(Nat) /\ v.at \in 0..Len(text) /\ v.begin \in 0..Len(text) /\ Gone(v) \in Nat
      /\ v.phase \in {"forward", "reverse", "capture"}
  BY DEF Hears, Searching, Asks
<1>2. /\ Gone(z) \in 1..Len(text) /\ Gone(z) - 1 = Gone(v)
      /\ Place(v.phase, v.begin, Gone(v)) = v.at
  <2>1. /\ z.phase = v.phase /\ z.begin = v.begin /\ z.at = Place(v.phase, v.at, 1)
        /\ Len(text) \in Nat /\ z.at \in 0..Len(text)
    BY <1>1 DEF Onto
  <2> HIDE DEF text
  <2>2. CASE v.phase = "reverse" BY <1>1, <2>1, <2>2 DEF Gone, Place
  <2>3. CASE v.phase # "reverse" BY <1>1, <2>1, <2>3 DEF Gone, Place
  <2> QED BY <2>2, <2>3
<1>3. Readings(v.phase, text, v.begin)[Gone(z)] = u
  <2>1. Len(text) \in Nat BY <1>1
  <2> QED BY <2>1, <1>2, ReadingsFollow DEF Reading
<1>4. Told(v, e, ch, u) BY HearsIs
<1> HIDE DEF u
<1>5. e.got.next \in DOMAIN e.cache.states /\ Plain(e.cache.states[e.got.next]) = u.st
  BY <1>4 DEF Told
<1>6. e.cache.states[z.s].kind = z.phase BY <1>4, <1>5 DEF Told, Onto, Plain
<1>7. ReadsTrue(e.cache, z, u) BY <1>4, <1>5 DEF ReadsTrue, Onto, Told
<1>8. z.last \in Ends(text) BY DEF Onto, Hears, Searching, Ends
<1>9. ~e.cache.disabled /\ Asks(v.q) BY DEF Hears, Sound, Proper, Searching
<1> QED BY <1>1, <1>2, <1>3, <1>5, <1>6, <1>7, <1>8, <1>9 DEF Searching, Onto

(* How a walk's step may end: with no answer, or with the one its reading  *)
(* gives, or by handing over what that has found.                          *)
Onward(v) == Unaided(Reading(v), v.phase, v.q.text, v.at)
Unsaid == answer'.kind \notin {"Match", "NoMatch"} /\ ~(walk.phase = "forward" /\ walk'.phase = "reverse")
Said(u) == walk' = Idle /\ answer' = Verdict(walk, u)
HandedOver(u) ==
  /\ answer' = NoAnswer /\ u.last = <<walk'.begin>> /\ walk'.at = walk'.begin /\ walk'.q = walk.q

LEMMA EndsIf ==
  ASSUME NEW u, u = Onward(walk), Unsaid \/ (Exhausted(walk, u) /\ (Said(u) \/ HandedOver(u)))
  PROVE  EndsAsRead
<1>1. NoAnswer.kind \notin {"Match", "NoMatch"} /\ Idle.phase # "reverse" BY DEF NoAnswer, Idle
<1>2. u = Unaided(Readings(walk.phase, walk.q.text, walk.begin)[Gone(walk)], walk.phase, walk.q.text, walk.at)
  BY DEF Onward, Reading
<1> HIDE DEF NoAnswer
<1>3. CASE Unsaid BY <1>2, <1>3 DEF Unsaid, EndsAsRead
<1>4. CASE Exhausted(walk, u) /\ Said(u) BY <1>1, <1>2, <1>4 DEF Said, EndsAsRead
<1>5. CASE Exhausted(walk, u) /\ HandedOver(u) BY <1>1, <1>2, <1>5 DEF HandedOver, EndsAsRead
<1> QED BY <1>3, <1>4, <1>5

LEMMA DeclinedIsUnsaid ==
  ASSUME NEW d, NEW q, NEW why, Unanswered(why), End(d, Declined(q, why))
  PROVE  Unsaid
  BY DEF End, Declined, Answer, Unanswered, Unsaid, Idle

LEMMA SoundDeclines ==
  ASSUME NEW d, Sound(d), NEW q, End(d, Declined(q, d.stop))
  PROVE  Unsaid
  BY DeclinedIsUnsaid DEF Sound, Proper

LEMMA FurtherIsUnsaid ==
  ASSUME answer' = NoAnswer, walk'.phase = walk.phase
  PROVE  Unsaid
  BY DEF NoAnswer, Unsaid

(* The forward walk's end, with the match end it found.                    *)
LEMMA ConcludeTells ==
  ASSUME walk.phase = "forward", NEW d, Sound(d), NEW last \in Ends(walk.q.text),
         Conclude(walk.q, d, last), NEW u, u.last = last
  PROVE  Unsaid \/ Said(u) \/ HandedOver(u)
<1> DEFINE q == walk.q
           e == StartState(d, "reverse", A(program)!ContextAfter(q.text, last[1]))
<1>1. CASE last = <<>>
  <2>1. End(d, NoMatch(q)) BY <1>1 DEF Conclude
  <2> QED BY <2>1, <1>1 DEF End, Said, Verdict
<1>2. CASE last # <<>> /\ (~Bounds(q) \/ OneStart)
  <2>1. End(d, Matched(q, <<<<q.from, last[1]>>>>)) BY <1>2 DEF Conclude
  <2> QED BY <2>1, <1>2 DEF End, Said, Verdict
<1>3. CASE last # <<>> /\ ~(~Bounds(q) \/ OneStart)
  <2>1. IF e.stop # "go" THEN End(e, Declined(q, e.stop))
        ELSE walk' = Walking("reverse", q, e, last[1], e.read) /\ answer' = NoAnswer
    BY <1>3 DEF Conclude, Enter, Proceed
  <2>2. Sound(e) BY StartStateFacts DEF Modes
  <2> HIDE DEF e
  <2>3. CASE e.stop # "go" BY <2>1, <2>2, <2>3, SoundDeclines
  <2>4. CASE e.stop = "go"
    <3>1. last = <<last[1]>> BY <1>3 DEF Ends
    <3>2. walk'.begin = last[1] /\ walk'.at = last[1] /\ walk'.q = q BY <2>1, <2>4 DEF Walking
    <3> QED BY <2>1, <2>4, <3>1, <3>2 DEF HandedOver
  <2> QED BY <2>3, <2>4
<1> QED BY <1>1, <1>2, <1>3

(* The character a walk reads forwards.                                    *)
LEMMA CharIs ==
  ASSUME NEW c, NEW v, Searching(c, v), v.phase # "reverse"
  PROVE  /\ Char(v) = <<>> \/ Char(v)[1] \in Nat
         /\ Beside(v.phase, v.q.text, v.at) = SignOf(Char(v))
<1> DEFINE text == v.q.text
<1>1. v.at \in 0..Len(text) /\ text \in Seq(Nat) BY DEF Searching, Asks
<1>2. CASE AtEnd(v)
  <2>1. v.at + 1 \notin DOMAIN text BY <1>1, <1>2 DEF AtEnd
  <2>2. Char(v) = <<>> BY <1>2 DEF Char
  <2> QED BY <2>1, <2>2 DEF Beside, SignOf
<1>3. CASE ~AtEnd(v)
  <2>1. v.at + 1 \in DOMAIN text BY <1>1, <1>3 DEF AtEnd
  <2>2. text[v.at + 1] \in Nat BY <1>1, <2>1
  <2>3. Char(v) = <<text[v.at + 1]>> BY <1>3 DEF Char
  <2>4. Char(v) # <<>> /\ Char(v)[1] = text[v.at + 1] BY <2>3
  <2> QED BY <2>1, <2>2, <2>4 DEF Beside, SignOf
<1> QED BY <1>2, <1>3

LEMMA ForwardKeeps ==
  ASSUME Inv, Forward
  PROVE  Inv' /\ EndsAsRead
<1> DEFINE d0 == StepOf(walk)
           text == walk.q.text
           read0 == IF Ascii(text) THEN Passed(walk) ELSE d0.read
           char == Char(walk)
           d == Look(d0, char, WithThis(walk))
           entry == d.got
           last == IF entry.flag THEN <<walk.at>> ELSE walk.last
           over == AtEnd(walk) \/ entry.next = DEAD \/ (entry.flag /\ ~Bounds(walk.q))
           done == Spent(walk, d, WithThis(walk))
           u == Onward(walk)
<1>1. /\ program' = program /\ program.host \in DOMAIN Hosts
      /\ walk # Idle /\ walk.phase = "forward" /\ Searching(cache, walk)
  BY DEF Forward, Running, Inv
<1>2. Sound(d0) /\ d0.stop = "go" /\ d0.cache = cache /\ d0.s = walk.s BY <1>1, StepOfFacts
<1>3. CASE OutOfAllowance(walk)
  <2>1. End([d0 EXCEPT !.read = read0], Declined(walk.q, "WorkLimit"))
    BY <1>3 DEF Forward
  <2>2. Sound([d0 EXCEPT !.read = read0]) BY <1>2, ReadChanged
  <2>3. Unsaid BY <2>1, DeclinedIsUnsaid DEF Unanswered
  <2> QED BY <2>1, <2>2, <2>3, <1>1, SoundEnds, EndsIf
<1>4. CASE ~OutOfAllowance(walk)
  <2>1. IF d.stop # "go" THEN End(d, Declined(walk.q, d.stop))
        ELSE IF ~over THEN Further(walk, d, entry.next, walk.at + 1, last)
        ELSE IF done.stop # "go" THEN End(done, Declined(walk.q, done.stop))
        ELSE Conclude(walk.q, done, last)
    BY <1>4 DEF Forward, Proceed, Finish, Spent
  <2>2. Sound(d) /\ Stays(d0, d) /\ LookedUp(d, char)
    <3>1. char = <<>> \/ char[1] \in Nat BY <1>1, CharIs
    <3>2. d0.s \in DOMAIN d0.cache.states BY <1>1, <1>2 DEF Searching
    <3> HIDE DEF d0, char
    <3> QED BY <3>1, <3>2, <1>2, LookFacts
  <2>3. d.stop = "go" => Plain(d.cache.states[d.s]) = Plain(cache.states[walk.s])
    BY <1>2, <2>2 DEF Stays
  <2>4. last \in Ends(text) BY <1>1 DEF Searching, Ends
  <2>9. d.stop = "go" => Hears(cache, walk, d, char)
    <3>1. Beside(walk.phase, text, walk.at) = SignOf(char) BY <1>1, CharIs
    <3> HIDE DEF d, char
    <3> QED BY <3>1, <2>2, <2>3, <1>1 DEF Hears
  <2> HIDE DEF d, last
  <2>5. CASE d.stop # "go"
    BY <2>1, <2>2, <2>5, <1>1, SoundEnds, SoundDeclines, EndsIf
  <2>6. CASE d.stop = "go" /\ ~over
    <3> DEFINE v == [walk EXCEPT !.s = entry.next, !.at = walk.at + 1, !.last = last, !.budget = d.budget,
                                 !.read = d.read, !.flushed = d.flushed]
    <3>1. cache' = d.cache /\ walk' = v BY <2>1, <2>6 DEF Further
    <3>2. Onto(walk, v, entry)
      <4>1. DOMAIN walk = WalkFields BY <1>1 DEF Searching
      <4> QED BY <4>1, <1>1 DEF Onto, Place, WalkFields, last
    <3>3. v.at \in 0..Len(text)
      <4>1. walk.at \in 0..Len(text) /\ text \in Seq(Nat) /\ walk.at # Len(text)
        BY <1>1, <2>6 DEF Searching, Asks, AtEnd
      <4>2. v.at = walk.at + 1 BY <1>1, <3>2 DEF Onto, Place
      <4> QED BY <4>1, <4>2
    <3> HIDE DEF v
    <3> HIDE DEF char
    <3>4. Searching(d.cache, v) BY <3>2, <3>3, <2>6, <2>9, WalksOn
    <3>5. Unsaid
      <4>1. walk'.phase = walk.phase BY <3>1, <3>2 DEF Onto
      <4> QED BY <4>1, <2>1, <2>6, FurtherIsUnsaid DEF Further
    <3> QED BY <3>1, <3>4, <3>5, <2>2, <2>6, <1>1, GoesOn, EndsIf
  <2>7. CASE d.stop = "go" /\ over
    <3>1. IF done.stop # "go" THEN End(done, Declined(walk.q, done.stop))
          ELSE Conclude(walk.q, done, last)
      BY <2>1, <2>7
    <3>2. Sound(done) BY <2>2, SpentFacts
    <3> HIDE DEF done
    <3>3. Asks(walk.q) BY <1>1 DEF Searching
    <3>4. Inv' BY <3>1, <3>2, <3>3, <2>4, <1>1, SoundEnds, ConcludeKeeps
    <3>5. Told(walk, d, char, u) BY <2>7, <2>9, HearsIs DEF Onward
    <3> HIDE DEF u
    <3>6. u.last = last BY <3>5 DEF Told, last
    <3>7. Exhausted(walk, u)
      <4>1. char = <<>> => AtEnd(walk) BY DEF Char
      <4>2. entry.flag => last # <<>> BY DEF last
      <4> HIDE DEF char
      <4> QED BY <4>1, <4>2, <3>5, <3>6, <2>7, <1>1 DEF Told, Exhausted, Alive
    <3>8. Unsaid \/ Said(u) \/ HandedOver(u)
      BY <3>1, <3>2, <3>6, <2>4, <1>1, SoundDeclines, ConcludeTells
    <3> QED BY <3>4, <3>7, <3>8, EndsIf DEF u
  <2> QED BY <2>5, <2>6, <2>7
<1> QED BY <1>3, <1>4

LEMMA ReverseKeeps ==
  ASSUME Inv, Reverse_
  PROVE  Inv' /\ EndsAsRead
<1> DEFINE d0 == StepOf(walk)
           text == walk.q.text
           read == walk.base + walk.begin - walk.at + 1
           char == IF walk.at = 0 THEN <<>> ELSE <<text[walk.at]>>
           d == Look(d0, char, read)
           entry == d.got
           found == IF entry.flag THEN <<walk.at>> ELSE walk.last
           on == walk.at > walk.q.from /\ entry.next # DEAD
           done == Spent(walk, d, read)
           u == Onward(walk)
           reply == IF found = <<>> THEN Declined(walk.q, "InvalidProgram")
                    ELSE Matched(walk.q, <<<<found[1], walk.begin>>>>)
<1>1. /\ program' = program /\ program.host \in DOMAIN Hosts
      /\ walk # Idle /\ walk.phase = "reverse" /\ Searching(cache, walk)
  BY DEF Reverse_, Running, Inv
<1>2. Sound(d0) /\ d0.stop = "go" /\ d0.cache = cache /\ d0.s = walk.s BY <1>1, StepOfFacts
<1>3. IF d.stop # "go" THEN End(d, Declined(walk.q, d.stop))
      ELSE IF on THEN Further(walk, d, entry.next, walk.at - 1, found)
      ELSE IF done.stop # "go" THEN End(done, Declined(walk.q, done.stop))
      ELSE End(done, reply)
  BY DEF Reverse_, Proceed, Finish, Spent
<1>4. walk.at \in 0..Len(text) /\ text \in Seq(Nat) /\ walk.q.from \in Nat
  BY <1>1 DEF Searching, Asks
<1>5. (char = <<>> \/ char[1] \in Nat) /\ Beside("reverse", text, walk.at) = SignOf(char)
  <2>1. CASE walk.at = 0 BY <1>4, <2>1 DEF Beside, SignOf
  <2>2. CASE walk.at # 0
    <3>1. walk.at \in DOMAIN text BY <1>4, <2>2
    <3>2. text[walk.at] \in Nat BY <1>4, <3>1
    <3>3. char # <<>> /\ char[1] = text[walk.at] BY <2>2
    <3> HIDE DEF char
    <3> QED BY <3>1, <3>2, <3>3 DEF Beside, SignOf
  <2> QED BY <2>1, <2>2
<1>6. Sound(d) /\ Stays(d0, d) /\ LookedUp(d, char)
  <2>1. char = <<>> \/ char[1] \in Nat BY <1>5
  <2>2. d0.s \in DOMAIN d0.cache.states BY <1>1, <1>2 DEF Searching
  <2> HIDE DEF d0, char, read
  <2> QED BY <2>1, <2>2, <1>2, LookFacts
<1>7. d.stop = "go" => Plain(d.cache.states[d.s]) = Plain(cache.states[walk.s])
  BY <1>2, <1>6 DEF Stays
<1>8. found \in Ends(text) BY <1>1 DEF Searching, Ends
<1>12. d.stop = "go" => Hears(cache, walk, d, char)
  <2> HIDE DEF d, char
  <2> QED BY <1>1, <1>5, <1>6, <1>7 DEF Hears
<1>13. char = <<>> => walk.at <= walk.q.from BY <1>4
<1> HIDE DEF d, found, reply, char
<1>9. CASE d.stop # "go"
  BY <1>3, <1>6, <1>9, <1>1, SoundEnds, SoundDeclines, EndsIf
<1>10. CASE d.stop = "go" /\ on
  <2> DEFINE v == [walk EXCEPT !.s = entry.next, !.at = walk.at - 1, !.last = found, !.budget = d.budget,
                               !.read = d.read, !.flushed = d.flushed]
  <2>1. cache' = d.cache /\ walk' = v BY <1>3, <1>10 DEF Further
  <2>2. Onto(walk, v, entry)
    <3>1. DOMAIN walk = WalkFields BY <1>1 DEF Searching
    <3> QED BY <3>1, <1>1 DEF Onto, Place, WalkFields, found
  <2>3. v.at \in 0..Len(text)
    <3>1. v.at = walk.at - 1 BY <1>1, <2>2 DEF Onto, Place
    <3> QED BY <3>1, <1>4, <1>10
  <2> HIDE DEF v
  <2>4. Searching(d.cache, v) BY <2>2, <2>3, <1>10, <1>12, WalksOn
  <2>5. Unsaid
    <3>1. walk'.phase = walk.phase BY <2>1, <2>2 DEF Onto
    <3> QED BY <3>1, <1>3, <1>10, FurtherIsUnsaid DEF Further
  <2> QED BY <2>1, <2>4, <2>5, <1>6, <1>10, <1>1, GoesOn, EndsIf
<1>11. CASE d.stop = "go" /\ ~on
  <2>1. IF done.stop # "go" THEN End(done, Declined(walk.q, done.stop)) ELSE End(done, reply)
    BY <1>3, <1>11
  <2>2. Sound(done) BY <1>6, SpentFacts
  <2> HIDE DEF done
  <2>3. Inv' BY <2>1, <2>2, <1>1, SoundEnds
  <2>4. Told(walk, d, char, u) BY <1>11, <1>12, HearsIs DEF Onward
  <2> HIDE DEF u
  <2>5. u.last = found BY <2>4 DEF Told, found
  <2>6. Exhausted(walk, u)
    BY <2>4, <1>1, <1>4, <1>11, <1>13 DEF Told, Exhausted, Alive
  <2>7. Unsaid \/ Said(u)
    <3>1. CASE done.stop # "go" BY <3>1, <2>1, <2>2, SoundDeclines
    <3>2. CASE done.stop = "go" /\ found = <<>>
      <4>1. End(done, Declined(walk.q, "InvalidProgram")) BY <3>2, <2>1 DEF reply
      <4> QED BY <4>1, DeclinedIsUnsaid DEF Unanswered
    <3>3. CASE done.stop = "go" /\ found # <<>>
      <4>1. End(done, Matched(walk.q, <<<<found[1], walk.begin>>>>)) BY <3>3, <2>1 DEF reply
      <4> QED BY <4>1, <3>3, <2>5, <1>1 DEF End, Said, Verdict
    <3> QED BY <3>1, <3>2, <3>3
  <2> QED BY <2>3, <2>6, <2>7, EndsIf DEF u
<1> QED BY <1>9, <1>10, <1>11

(* Whether captures are given up says nothing of what is stored.           *)
LEMMA GoodButCaptures ==
  ASSUME NEW d, Sound(d)
  PROVE  Shaped([d EXCEPT !.cache.noCaptures = TRUE]) /\ Good([d EXCEPT !.cache.noCaptures = TRUE].cache)
<1> DEFINE e == [d EXCEPT !.cache.noCaptures = TRUE]
           c == d.cache
           k == e.cache
<1>0. DOMAIN d = StepFields /\ DOMAIN c = CacheFields /\ Good(c)
  BY SoundIsGood DEF Sound, Proper, Shaped
<1>1. /\ DOMAIN e = StepFields /\ DOMAIN k = CacheFields
      /\ k.room = c.room /\ k.disabled = c.disabled /\ k.columns = c.columns
      /\ k.classes = c.classes /\ k.table = c.table /\ k.memo = c.memo /\ k.states = c.states
      /\ k.tags = c.tags /\ k.slots = c.slots /\ k.bad = c.bad
  BY <1>0 DEF StepFields, CacheFields
<1>2. Good(k)
  <2> HIDE DEF k, c
  <2> QED BY <1>0, <1>1, ClassedSame, StoredSame, CountedSame DEF Good, Limits
<1> QED BY <1>1, <1>2 DEF Shaped

LEMMA CaptureKeeps ==
  ASSUME Inv, Capture
  PROVE  Inv' /\ EndsAsRead
<1> DEFINE d0 == StepOf(walk)
           text == walk.q.text
           char == Char(walk)
           d == Look(d0, char, Passed(walk))
           entry == d.got
           effects == Masks(entry.effects)
           last == IF entry.flag THEN <<walk.at>> ELSE walk.last
           snap == IF entry.flag THEN Applied(walk.registers, effects.match, walk.at) ELSE walk.snap
           over == AtEnd(walk) \/ entry.next = DEAD
           done == Spent(walk, d, Passed(walk))
           reply == IF last = <<>> THEN NoMatch(walk.q) ELSE Matched(walk.q, Groups(snap))
           u == Onward(walk)
           v == [walk EXCEPT !.s = entry.next, !.at = @ + 1, !.last = last, !.snap = snap,
                             !.budget = d.budget, !.read = d.read, !.flushed = d.flushed,
                             !.registers = Applied(@, effects.path, walk.at)]
<1>1. /\ program' = program /\ program.host \in DOMAIN Hosts
      /\ walk # Idle /\ walk.phase = "capture" /\ Searching(cache, walk)
  BY DEF Capture, Running, Inv
<1>2. Sound(d0) /\ d0.stop = "go" /\ d0.cache = cache /\ d0.s = walk.s BY <1>1, StepOfFacts
<1>3. CASE OutOfAllowance(walk)
  <2> DEFINE read0 == Passed(walk)
  <2>1. End([d0 EXCEPT !.read = read0], Declined(walk.q, "WorkLimit"))
    BY <1>3 DEF Capture
  <2>2. Sound([d0 EXCEPT !.read = read0]) BY <1>2, ReadChanged
  <2>3. Unsaid BY <2>1, DeclinedIsUnsaid DEF Unanswered
  <2> QED BY <2>1, <2>2, <2>3, <1>1, SoundEnds, EndsIf
<1>4. CASE ~OutOfAllowance(walk)
  <2>1. IF d.stop # "go" THEN End(d, Declined(walk.q, d.stop))
        ELSE IF entry.next = AMBIGUOUS
          THEN End([d EXCEPT !.cache.noCaptures = TRUE], Declined(walk.q, "Captures"))
        ELSE IF over THEN (IF done.stop # "go" THEN End(done, Declined(walk.q, done.stop))
                           ELSE End(done, reply))
        ELSE cache' = d.cache /\ walk' = v /\ answer' = NoAnswer
    BY <1>4 DEF Capture, Proceed, Finish, Spent
  <2>2. Sound(d) /\ Stays(d0, d) /\ LookedUp(d, char)
    <3>1. char = <<>> \/ char[1] \in Nat BY <1>1, CharIs
    <3>2. d0.s \in DOMAIN d0.cache.states BY <1>1, <1>2 DEF Searching
    <3> HIDE DEF d0, char
    <3> QED BY <3>1, <3>2, <1>2, LookFacts
  <2>3. d.stop = "go" => Plain(d.cache.states[d.s]) = Plain(cache.states[walk.s])
    BY <1>2, <2>2 DEF Stays
  <2>4. last \in Ends(text) BY <1>1 DEF Searching, Ends
  <2>9. d.stop = "go" /\ entry.next # AMBIGUOUS => Hears(cache, walk, d, char)
    <3>1. Beside(walk.phase, text, walk.at) = SignOf(char) BY <1>1, CharIs
    <3> HIDE DEF d, char
    <3> QED BY <3>1, <2>2, <2>3, <1>1 DEF Hears
  <2> HIDE DEF d, last, reply, snap, effects
  <2>5. CASE d.stop # "go"
    BY <2>1, <2>2, <2>5, <1>1, SoundEnds, SoundDeclines, EndsIf
  <2>6. CASE d.stop = "go" /\ entry.next = AMBIGUOUS
    <3> DEFINE gone == [d EXCEPT !.cache.noCaptures = TRUE]
    <3>1. End(gone, Declined(walk.q, "Captures")) BY <2>1, <2>6
    <3>2. Shaped(gone) /\ Good(gone.cache) BY <2>2, GoodButCaptures
    <3> HIDE DEF gone
    <3>3. Unsaid BY <3>1, DeclinedIsUnsaid DEF Unanswered
    <3> QED BY <3>1, <3>2, <3>3, <1>1, EndKeeps, EndsIf
  <2>7. CASE d.stop = "go" /\ entry.next # AMBIGUOUS /\ over
    <3>1. IF done.stop # "go" THEN End(done, Declined(walk.q, done.stop)) ELSE End(done, reply)
      BY <2>1, <2>7
    <3>2. Sound(done) BY <2>2, SpentFacts
    <3> HIDE DEF done
    <3>3. Inv' BY <3>1, <3>2, <1>1, SoundEnds
    <3>4. Told(walk, d, char, u) BY <2>7, <2>9, HearsIs DEF Onward
    <3> HIDE DEF u
    <3>5. u.last = last /\ (last # <<>> => u.snap = snap)
      BY <3>4, <1>1 DEF Told, last, snap, effects
    <3>6. Exhausted(walk, u)
      <4>1. char = <<>> => AtEnd(walk) BY DEF Char
      <4> HIDE DEF char
      <4> QED BY <4>1, <3>4, <2>7, <1>1 DEF Told, Exhausted, Alive
    <3>7. Unsaid \/ Said(u)
      <4>1. CASE done.stop # "go" BY <4>1, <3>1, <3>2, SoundDeclines
      <4>2. CASE done.stop = "go"
        <5>1. End(done, reply) BY <4>2, <3>1
        <5>2. reply = Verdict(walk, u) BY <3>5, <1>1 DEF reply, Verdict
        <5> QED BY <5>1, <5>2 DEF End, Said
      <4> QED BY <4>1, <4>2
    <3> QED BY <3>3, <3>6, <3>7, EndsIf DEF u
  <2>8. CASE d.stop = "go" /\ entry.next # AMBIGUOUS /\ ~over
    <3>1. cache' = d.cache /\ walk' = v BY <2>1, <2>8
    <3>2. Onto(walk, v, entry)
      <4>1. DOMAIN walk = WalkFields BY <1>1 DEF Searching
      <4> QED BY <4>1, <1>1 DEF Onto, Place, WalkFields, last, snap, effects
    <3>3. v.at \in 0..Len(text)
      <4>1. walk.at \in 0..Len(text) /\ text \in Seq(Nat) /\ walk.at # Len(text)
        BY <1>1, <2>8 DEF Searching, Asks, AtEnd
      <4>2. v.at = walk.at + 1 BY <1>1, <3>2 DEF Onto, Place
      <4> QED BY <4>1, <4>2
    <3> HIDE DEF v
    <3> HIDE DEF char
    <3>4. Searching(d.cache, v) BY <3>2, <3>3, <2>8, <2>9, WalksOn
    <3>5. Unsaid
      <4>1. walk'.phase = walk.phase BY <3>1, <3>2 DEF Onto
      <4> QED BY <4>1, <2>1, <2>8, FurtherIsUnsaid
    <3> QED BY <3>1, <3>4, <3>5, <2>2, <2>8, <1>1, GoesOn, EndsIf
  <2> QED BY <2>5, <2>6, <2>7, <2>8
<1> QED BY <1>3, <1>4

-----------------------------------------------------------------------------
(* Storage as it is given and as it is built.                              *)
LEMMA EmptyIsGood ==
  ASSUME NEW room \in Nat
  PROVE  Good(Empty(room)) /\ Good([Empty(room) EXCEPT !.built = TRUE])
<1> SUFFICES ASSUME NEW c, c = Empty(room) \/ c = [Empty(room) EXCEPT !.built = TRUE]
             PROVE  Good(c)
  OBVIOUS
<1>1. /\ DOMAIN c = CacheFields /\ c.room = room /\ c.disabled = FALSE /\ c.columns = FirstColumns
      /\ c.classes = <<>> /\ DOMAIN c.table = {}
      /\ c.memo = [slot \in 0..MemoSlots - 1 |-> <<>>]
      /\ c.states = <<>> /\ c.tags = {} /\ DOMAIN c.slots = {} /\ c.bad = 0
  <2>1. DOMAIN <<>> = {} OBVIOUS
  <2>2. CASE c = Empty(room) BY <2>1, <2>2 DEF Empty, CacheFields
  <2>3. CASE c = [Empty(room) EXCEPT !.built = TRUE] BY <2>1, <2>3 DEF Empty, CacheFields
  <2> QED BY <2>2, <2>3
<1>2. Limits(c)
  <2>1. ThrashLimit \in Nat \ {0} BY DfaConstants
  <2>2. 0 \in 0..ThrashLimit /\ 0 < ThrashLimit BY <2>1
  <2> QED BY <1>1, <2>2 DEF Limits
<1>3. Classed(c)
  <2>1. IsSeq(c.classes) /\ Len(c.classes) = 0
    <3>1. <<>> \in Seq({}) OBVIOUS
    <3> QED BY <3>1, <1>1, SeqOf
  <2>2. FirstColumns \in Nat /\ FirstColumns > 2 /\ MaxClasses \in Nat /\ MemoSlots \in Nat /\ MemoSlots > 1
    BY DfaConstants
  <2>3. {slot \in DOMAIN c.memo : c.memo[slot] # <<>>} = {} BY <1>1
  <2>4. MemoUsed(c) = 0 BY <2>3, FS_EmptySet DEF MemoUsed
  <2>5. DOMAIN c.memo = 0..MemoSlots - 1 /\ \A slot \in DOMAIN c.memo : c.memo[slot] = <<>>
    BY <1>1
  <2> QED BY <1>1, <2>1, <2>2, <2>4, <2>5 DEF Classed
<1>4. Stored(c) /\ Counted(c) BY <1>1, NothingStored
<1> QED BY <1>1, <1>2, <1>3, <1>4 DEF Good

LEMMA StepIs ==
  ASSUME NEW c, Good(c), NEW budget, NEW s, NEW read, NEW flushed
  PROVE  /\ Shaped(Step(c, budget, s, read, flushed)) /\ Step(c, budget, s, read, flushed).cache = c
         /\ ~c.disabled => Sound(Step(c, budget, s, read, flushed))
<1> DEFINE d == Step(c, budget, s, read, flushed)
<1>1. DOMAIN d = StepFields /\ d.cache = c /\ d.stop = "go" BY DEF Step, StepFields
<1> HIDE DEF d
<1>2. Shaped(d) BY <1>1 DEF Shaped, Good
<1>3. ~c.disabled => Sound(d) BY <1>1, SoundIsGood DEF Unanswered
<1> QED BY <1>1, <1>2, <1>3 DEF d

(* What a call needs of the question it is asked.                          *)
Question(q) == Asks(q) /\ program' = program /\ Inv /\ walk = Idle

LEMMA CallSteadyKeeps ==
  ASSUME NEW q, Question(q), CallSteady(q)
  PROVE  Inv'
<1>1. /\ Good(cache) /\ ~cache.disabled /\ Asks(q) /\ program' = program
      /\ program.host \in DOMAIN Hosts /\ q.from <= Len(q.text)
  BY DEF Question, Inv, CallSteady
<1> DEFINE d(f) == Step(cache, q.budget - (f.passed - (IF Ascii(q.text) THEN q.from ELSE 0)), NONE,
                        f.passed - (IF Ascii(q.text) THEN q.from ELSE 0), 0)
           back(f) == ReverseSteady(cache, q, f.last[1])
           whole(f) == [d(f) EXCEPT !.budget = @ - back(f)[1].read, !.read = @ + back(f)[1].read]
           rest(f) == Step(Flush(d(f)).cache, IF back(f) = <<>> THEN d(f).budget ELSE 0, NONE, 0, 0)
<1>2. PICK f \in Steady(cache, q) :
        IF f.last = <<>> \/ ~Bounds(q) \/ OneStart THEN Conclude(q, d(f), f.last)
        ELSE IF back(f) # <<>> /\ whole(f).budget >= 0
          THEN End(whole(f), Matched(q, <<<<back(f)[1].begin, f.last[1]>>>>))
        ELSE Enter("reverse", q, rest(f), "reverse", A(program)!ContextAfter(q.text, f.last[1]), f.last[1])
  BY DEF CallSteady
<1>3. f.last \in Ends(q.text)
  <2>1. \E s, idle : f \in Steadily(cache, q.text, q.from + 1, s, idle, ~Bounds(q))
    BY <1>2 DEF Steady
  <2>2. q.from + 1 \in 1..Len(q.text) + 1 /\ q.text \in Seq(Nat) BY <1>1 DEF Asks
  <2> QED BY <2>1, <2>2, SteadilyFacts
<1>4. Sound(d(f)) /\ Shaped(d(f)) /\ d(f).cache = cache BY <1>1, StepIs
<1>5. Sound(whole(f))
  <2>1. DOMAIN whole(f) = StepFields /\ whole(f).cache = d(f).cache /\ whole(f).stop = d(f).stop
    BY <1>4 DEF Shaped, StepFields
  <2> HIDE DEF whole, d
  <2> QED BY <2>1, <1>4, SoundSame DEF After, Unanswered
<1>6. Sound(rest(f))
  <2>1. Flush(d(f)).cache = [d(f).cache EXCEPT !.units = @ + d(f).read - d(f).flushed]
    BY <1>4, FlushFacts
  <2>2. Good(Flush(d(f)).cache) /\ ~Flush(d(f)).cache.disabled
    <3> DEFINE units == d(f).cache.units + d(f).read - d(f).flushed
    <3>1. Flush(d(f)).cache = [cache EXCEPT !.units = units] BY <2>1, <1>4
    <3> HIDE DEF units, d
    <3>2. Good(Flush(d(f)).cache) BY <3>1, <1>1, GoodSame
    <3>3. Flush(d(f)).cache.disabled = cache.disabled BY <3>1, <1>1 DEF Good, CacheFields
    <3> QED BY <3>2, <3>3, <1>1
  <2> QED BY <2>2, StepIs
<1> HIDE DEF d, back, whole, rest
<1>7. CASE f.last = <<>> \/ ~Bounds(q) \/ OneStart
  BY <1>1, <1>2, <1>3, <1>4, <1>7, ConcludeKeeps
<1>8. CASE ~(f.last = <<>> \/ ~Bounds(q) \/ OneStart)
  <2>1. f.last[1] \in 0..Len(q.text) BY <1>3, <1>8 DEF Ends
  <2>2. /\ "reverse" \in Modes /\ "reverse" = KindOf("reverse")
        /\ StartOf("reverse", A(program)!ContextAfter(q.text, f.last[1]))
             = Entrance("reverse", q.text, f.last[1]).st
    BY DEF Modes, KindOf, Entrance
  <2>3. CASE back(f) # <<>> /\ whole(f).budget >= 0
    <3>1. End(whole(f), Matched(q, <<<<back(f)[1].begin, f.last[1]>>>>)) BY <1>2, <1>8, <2>3
    <3> QED BY <3>1, <1>1, <1>5, SoundEnds
  <2>4. CASE ~(back(f) # <<>> /\ whole(f).budget >= 0)
    <3>1. Enter("reverse", q, rest(f), "reverse", A(program)!ContextAfter(q.text, f.last[1]), f.last[1])
      BY <1>2, <1>8, <2>4
    <3> QED BY <3>1, <2>1, <2>2, <1>1, <1>6, EnterKeeps
  <2> QED BY <2>3, <2>4
<1> QED BY <1>7, <1>8

LEMMA CallGeneralKeeps ==
  ASSUME NEW q, Question(q), CallGeneral(q)
  PROVE  Inv'
<1> DEFINE capturing == q.op = "captures"
           built == IF cache.built THEN cache ELSE Build(cache)
           d == Step(built, q.budget, NONE, 0, 0)
           kept == [d EXCEPT !.cache = cache]
           phase == IF capturing THEN "capture" ELSE "forward"
           mode == IF capturing THEN "capture" ELSE Mode
           none == /\ ~(capturing /\ ~Ascii(q.text))
                   /\ ~(~cache.built /\ NoStart(q, capturing \/ OneStart))
<1>1. /\ Good(cache) /\ Asks(q) /\ program' = program
      /\ program.host \in DOMAIN Hosts
  BY DEF Question, Inv
<1>2. \/ \E reply : End(kept, reply)
      \/ built.disabled /\ End(d, Declined(q, "Disabled"))
      \/ End(d, NoMatch(q))
      \/ /\ ~built.disabled /\ ~(q.from > Len(q.text))
         /\ Enter(phase, q, d, mode, A(program)!ContextBefore(q.text, q.from), q.from)
  BY DEF CallGeneral
<1>3. Good(built)
  <2>1. Good(Build(cache))
    <3>1. cache.room \in Nat BY <1>1 DEF Good, Limits
    <3> QED BY <3>1, EmptyIsGood DEF Build
  <2> QED BY <1>1, <2>1
<1> HIDE DEF built
<1>4. Shaped(d) /\ d.cache = built /\ (~built.disabled => Sound(d)) BY <1>3, StepIs
<1>5. Shaped(kept) /\ kept.cache = cache
  <2> HIDE DEF d
  <2> QED BY <1>1, <1>4 DEF Shaped, StepFields, Good
<1> HIDE DEF d, kept
<1>6. CASE \E reply : End(kept, reply)
  BY <1>1, <1>5, <1>6, EndKeeps
<1>7. CASE \E reply : End(d, reply)
  BY <1>1, <1>3, <1>4, <1>7, EndKeeps
<1>8. CASE /\ ~built.disabled /\ ~(q.from > Len(q.text))
           /\ Enter(phase, q, d, mode, A(program)!ContextBefore(q.text, q.from), q.from)
  <2>1. /\ mode \in Modes /\ phase = KindOf(mode)
        /\ StartOf(mode, A(program)!ContextBefore(q.text, q.from)) = Entrance(phase, q.text, q.from).st
    BY DEF Modes, KindOf, Mode, Entrance
  <2>2. q.from \in 0..Len(q.text) BY <1>1, <1>8 DEF Asks
  <2> HIDE DEF mode, phase
  <2> QED BY <2>1, <2>2, <1>1, <1>4, <1>8, EnterKeeps
<1> QED BY <1>2, <1>6, <1>7, <1>8

LEMMA CallKeeps ==
  ASSUME Inv, Call
  PROVE  Inv'
<1>1. PICK op \in Ops, text \in Host.subjects, from \in Froms, budget \in Host.budgets :
        LET q == [op |-> op, text |-> text, from |-> from, budget |-> budget] IN
          CallSteady(q) \/ CallGeneral(q) \/ CallDeclined(q)
  BY DEF Call
<1> DEFINE q == [op |-> op, text |-> text, from |-> from, budget |-> budget]
<1>2. Question(q)
  <2>1. text \in Seq(Nat) /\ from \in Nat BY <1>1, DfaConstants DEF Inv, Host
  <2> QED BY <2>1 DEF Question, Asks, Call
<1> HIDE DEF q
<1>3. CASE CallDeclined(q)
  <2>1. PICK reply : End(Step(cache, q.budget, NONE, 0, 0), reply) BY <1>3 DEF CallDeclined
  <2>2. Shaped(Step(cache, q.budget, NONE, 0, 0)) /\ Step(cache, q.budget, NONE, 0, 0).cache = cache
        /\ Good(cache)
    BY StepIs DEF Inv
  <2> QED BY <2>1, <2>2, <1>2, EndKeeps DEF Question, Inv
<1> QED BY <1>1, <1>2, <1>3, CallSteadyKeeps, CallGeneralKeeps DEF q

LEMMA ResetKeeps ==
  ASSUME Inv, Reset
  PROVE  Inv'
<1>1. PICK room \in Host.rooms : cache' = Empty(room) BY DEF Reset
<1>2. room \in Nat BY DfaConstants DEF Inv, Host
<1>3. Good(Empty(room)) BY <1>2, EmptyIsGood
<1>4. program' = program /\ walk' = Idle BY DEF Reset
<1> DEFINE c == Empty(room)
<1>5. Good(c) /\ cache' = c BY <1>1, <1>3
<1> HIDE DEF c
<1>6. Good(cache)' BY <1>4, <1>5, Later
<1> QED BY <1>4, <1>6 DEF Inv

LEMMA InitIsGood ==
  ASSUME Init
  PROVE  Inv
<1>1. program.host \in DOMAIN Hosts BY DfaConstants DEF Init
<1>2. PICK room \in Host.rooms : cache = Empty(room) BY DEF Init
<1>3. room \in Nat BY <1>1, DfaConstants DEF Host
<1>4. Good(Empty(room)) BY <1>3, EmptyIsGood
<1>5. Good(cache) BY <1>2, <1>4
<1> QED BY <1>1, <1>5 DEF Inv, Init

LEMMA NextKeeps ==
  ASSUME Inv, [Next]_vars
  PROVE  Inv'
<1>1. CASE Next
  BY <1>1, CallKeeps, ForwardKeeps, ReverseKeeps, CaptureKeeps, ResetKeeps DEF Next
<1>2. CASE UNCHANGED vars
  <2>1. program' = program /\ cache' = cache /\ walk' = walk BY <1>2 DEF vars
  <2>2. Good(cache)' BY <2>1, Later DEF Inv
  <2>3. walk # Idle => Searching(cache, walk)' BY <2>1, SearchingSame DEF Inv
  <2> QED BY <2>1, <2>2, <2>3 DEF Inv
<1> QED BY <1>1, <1>2

LEMMA InvAlways == Spec => []Inv
  BY InitIsGood, NextKeeps, PTL DEF Spec

-----------------------------------------------------------------------------
(* Whatever is built, widened, cleared or given up on the way, and however *)
(* small the storage: what the rows, the start slots and the walk refer to *)
(* is a state the cache holds (Dfa::row, start_state and step_slow read    *)
(* the words at an offset unchecked), and the storage stays within the     *)
(* room, the states and the classes the host gave it.                      *)
THEOREM DfaTypeOK == Spec => []TypeOK
<1>1. ASSUME Inv PROVE TypeOK
  <2> DEFINE held == DOMAIN cache.states
  <2>1. Good(cache) /\ (walk # Idle => Searching(cache, walk)) BY <1>1 DEF Inv
  <2>2. Limits(cache) /\ Classed(cache) /\ Stored(cache) /\ Counted(cache) BY <2>1 DEF Good
  <2>3. walk # Idle => walk.s \in held /\ walk.at \in 0..Len(walk.q.text)
    BY <2>1 DEF Searching
  <2>4. \A slot \in DOMAIN cache.slots : cache.slots[slot] \in held BY <2>2 DEF Stored
  <2>5. ASSUME NEW i \in held, NEW column \in DOMAIN cache.states[i].row
        PROVE  /\ column \in {0} \cup 2..Len(cache.classes) + 1
               /\ cache.states[i].row[column].next \in held \cup {DEAD, AMBIGUOUS}
    BY <2>2, <2>5 DEF Stored, RowTrue
  <2>6. \A i \in held : DOMAIN cache.states[i].row \subseteq {0} \cup 2..Len(cache.classes) + 1
    BY <2>5
  <2> QED BY <2>2, <2>3, <2>4, <2>5, <2>6 DEF TypeOK, Limits, Classed, Counted
<1> QED BY <1>1, InvAlways, PTL

(* What the cache says is what would be computed afresh: each entry is the *)
(* transition of its state on its column (Dfa::compute), each start slot   *)
(* the start of its mode (build_start), each class of a character its own  *)
(* (classify), and no state is held twice (intern). A search under way has *)
(* read what it would have without a cache: the same threads, the same     *)
(* last end and the same captures, after however many clears.              *)
THEOREM DfaCacheTrue == Spec => []CacheTrue
<1>1. ASSUME Inv PROVE CacheTrue
  <2>1. Classed(cache) /\ Stored(cache) BY <1>1 DEF Inv, Good
  <2>2. ASSUME NEW i \in DOMAIN cache.states, NEW column \in DOMAIN cache.states[i].row
        PROVE  EntryTrue(cache, i, column)
    BY <2>1, <2>2 DEF Stored, RowTrue
  <2>3. ASSUME NEW i \in DOMAIN cache.states PROVE Same(cache, Plain(cache.states[i])) = {i}
    <3> DEFINE st == Plain(cache.states[i])
    <3>1. IsPlain(st) BY <2>1, PlainIs DEF Stored
    <3>2. \A j : j \in DOMAIN cache.states /\ Plain(cache.states[j]) = st <=> j = i
      BY <2>1 DEF Stored
    <3> HIDE DEF st
    <3>3. \A j : j \in Same(cache, st) <=> j = i BY <3>1, <3>2, SameIs
    <3>4. Same(cache, st) = {i} BY <3>3
    <3> QED BY <3>4 DEF st
  <2>4. \A slot \in DOMAIN cache.slots :
          Plain(cache.states[cache.slots[slot]]) = StartOf(slot[1], slot[2])
    BY <2>1 DEF Stored
  <2>5. \A ch \in DOMAIN cache.table : cache.classes[cache.table[ch] - 1] = A(program)!Signature(ch)
    BY <2>1 DEF Classed, ClassOf
  <2>6. \A slot \in DOMAIN cache.memo : cache.memo[slot] # <<>> =>
          cache.classes[cache.memo[slot][2] - 1] = A(program)!Signature(cache.memo[slot][1])
    BY <2>1 DEF Classed, ClassOf
  <2>7. HeldTrue BY <2>2, <2>3, <2>4, <2>5, <2>6 DEF HeldTrue
  <2>8. WalkTrue BY <1>1 DEF WalkTrue, Inv, Searching
  <2> QED BY <2>7, <2>8 DEF CacheTrue
<1> QED BY <1>1, InvAlways, PTL

(* An answer is what a search without a cache would give: a walk that ends *)
(* (Dfa::forward, reverse, capture_run) has read as far as that one, and   *)
(* says, or hands the reverse walk, what that one has found.               *)
THEOREM DfaEndsAsRead == Spec => ReadToTheEnd
<1>1. ASSUME Inv, [Next]_vars PROVE [EndsAsRead]_vars
  <2>1. CASE walk = Idle BY <2>1 DEF EndsAsRead
  <2>2. CASE walk # Idle
    <3>1. ~Call /\ ~Reset BY <2>2 DEF Call, Reset
    <3> QED BY <1>1, <3>1, ForwardKeeps, ReverseKeeps, CaptureKeeps DEF Next
  <2> QED BY <2>1, <2>2
<1> QED BY <1>1, InvAlways, PTL DEF Spec, ReadToTheEnd
================================================================================
