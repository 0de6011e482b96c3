------------------------------- MODULE ScanProofs -------------------------------
(***************************************************************************)
(* A search skips no start a match begins at, for all programs whose claims *)
(* are true, all texts, chunks and quanta: it finds the first start there  *)
(* is, and finds none only when there is none.                             *)
(***************************************************************************)
EXTENDS Scan, TextProofs, FiniteSetTheorems

(* The units of the subject and the marks before them, and what is known   *)
(* of a search's program, subject and start.                               *)
Us == IF V.kind = "units" THEN Data ELSE Text(Data).units
Ps == IF V.kind = "units" THEN <<>> ELSE Text(Data).places
JobTrue ==
  /\ Viewed(V, Us, Ps) /\ ClaimsAre(P) /\ ClaimsHold(P, Us, job.matches)
  /\ job.from \in 0..Len(Us)

(* No start before a place is viable, and it may be tried.                 *)
Clear(p) ==
  /\ p \in 0..Len(Us) /\ job.from <= p /\ (OneStart => p = job.from)
  /\ \A q \in Viable : p <= q

(* The condition is not in the data, or among the units, between places.   *)
Needled == P.required # <<>> /\ Needle # <<>>
NeedledBytes == Needled /\ V.kind # "units" /\ \A k \in DOMAIN Needle : Needle[k] < 128
Classed == P.required # <<>> /\ Needle = <<>>
InClass(c) == \E k \in DOMAIN Condition.ranges : c \in Condition.ranges[k][1]..Condition.ranges[k][2]
NotBetween(low, high) == \A at \in low..(high - 1) : ~Has(at, Needle)
NotBefore(high) == \A at \in 0..(high - 1) : ~Holds(Us, at, Needle)

(* A scan for a start goes by the first character; one that is bound by    *)
(* the condition has come past the last place that is known at.            *)
Scanning(at) == Clear(at) /\ Claims(P.first) /\ V.kind # "units"
Beyond(at, requiredAt) ==
  Scanning(at) /\ V.kind = "ascii" /\ P.forward /\ requiredAt # UNSET /\ at > requiredAt

(* A trial begins before or where the condition is known at.               *)
Trying(start, requiredAt) ==
  Clear(start) /\ (P.forward /\ Claims(P.first) /\ V.kind = "ascii" /\ requiredAt # UNSET => start <= requiredAt)

(* What each phase knows.                                                  *)
AdmissionKnows(phase, at) ==
  \/ phase \in {In("Admission"), In("Start"), In("WorkLimit")}
  \/ \E o \in 0..Len(Data) :
       /\ phase = [is |-> "AdmitByteClass", offset |-> o]
       /\ Classed /\ Len(Condition.ranges) = 1 /\ Condition.ranges[1][2] < 128 /\ V.kind # "units"
       /\ \A x \in 0..(o - 1) : Byte(x) \notin Condition.ranges[1][1]..Condition.ranges[1][2]
  \/ phase = In("AdmitClass") /\ Classed /\ \A p \in 0..(at - 1) : ~InClass(Us[p + 1])
  \/ \E o \in 0..Len(Data) :
       /\ phase = [is |-> "AdmitBytes", offset |-> o]
       /\ NeedledBytes /\ NotBetween(ConditionFrom, o)
  \/ Needled /\ \E i \in 0..Len(Needle) : phase = [is |-> "AdmitSuffix", index |-> i]
  \/ phase = In("AdmitScan") /\ Needled /\ NotBefore(at)
  \/ Needled /\ \E i \in 1..Len(Needle), p \in 0..(Len(Us) - 1) :
       /\ phase = [is |-> "AdmitProbe", index |-> i, scan |-> Stand(V, Ps, p + 1)]
       /\ at = p + i /\ NotBefore(p)
SearchKnows(phase, at, half, start, requiredAt) ==
  \/ phase = [is |-> "BoundPrepare", from |-> requiredAt + 1] /\ Beyond(at, requiredAt)
  \/ \E o \in 0..Len(Data) :
       /\ phase = [is |-> "BoundScan", offset |-> o]
       /\ Beyond(at, requiredAt) /\ NotBetween(requiredAt + 1, o)
  \/ \E t \in 0..Len(Us) : phase = [is |-> "Seek", target |-> t] /\ Clear(t)
  \/ phase = In("Candidate") /\ Scanning(at) /\ (half => start = at)
  \/ phase \in {In("Initialize"), In("Trial")} /\ Trying(start, requiredAt)
  \/ phase = In("NextStart") /\ Clear(start) /\ at = start /\ start \notin job.matches
  \/ phase = In("Match") /\ Clear(start) /\ start \in job.matches
  \/ phase = In("NoMatch") /\ Viable = {}

(* The note of a condition is true, and so is that of the characters a     *)
(* scan compared.                                                          *)
NoteTrue(requiredAt, requiredFrom) ==
  requiredAt # UNSET =>
    Needled /\ requiredAt \in Nat /\ Has(requiredAt, Needle) /\ requiredFrom = requiredAt + 1
RunTrue(phase, start, verified) ==
  verified # 0 =>
    /\ phase.is \in {"Initialize", "Trial", "Match", "WorkLimit"} /\ V.kind = "ascii"
    /\ Len(P.runs) = 1 /\ verified = Len(P.runs[1]) /\ Has(start, P.runs[1])

Fields == {"phase", "mark", "start", "requiredAt", "requiredFrom", "verified", "swept", "mistaken",
           "budget", "used"}
IsState(v) == DOMAIN v = Fields /\ v = [f \in DOMAIN v |-> v[f]]
Knows(phase, mark, start, requiredAt, requiredFrom, verified) ==
  /\ mark.units \in 0..Len(Us) /\ mark = Stand(V, Ps, mark.units)
  /\ NoteTrue(requiredAt, requiredFrom) /\ RunTrue(phase, start, verified)
  /\ \/ AdmissionKnows(phase, mark.units)
     \/ SearchKnows(phase, mark.units, mark.half, start, requiredAt)
IsGood(v) ==
  /\ IsState(v) /\ v.budget \in Nat /\ v.used \in Int
  /\ Knows(v.phase, v.mark, v.start, v.requiredAt, v.requiredFrom, v.verified)

(* Strengthened: the subject is what its units say, the claims are true,   *)
(* and the search knows what its phase goes by.                            *)
Inductive == JobTrue /\ IsGood(s) /\ window \in Int
-----------------------------------------------------------------------------
LEMMA Context ==
  ASSUME JobTrue
  PROVE  /\ Len(Us) \in Nat /\ V.units = Len(Us) /\ Us \in Seq(Nat) /\ Len(Data) \in Nat
         /\ V.kind \in {"ascii", "bytes", "units"}
         /\ V.kind = "ascii" => Data = Us /\ \A i \in 1..Len(Us) : Us[i] < 128
         /\ V.kind = "bytes" => Data \in Seq(Octet) /\ Chain(Data, Us, Ps, 0)
         /\ V.kind = "units" => Data = Us
         /\ \A at \in 0..(Len(Data) - 1) : Byte(at) \in Nat
         /\ job.from \in Nat /\ job.from <= Len(Us)
<1>1. Viewed(V, Us, Ps) /\ job.from \in 0..Len(Us) BY DEF JobTrue
<1> HIDE DEF Us, Ps
<1>2. Us \in Seq(Nat) /\ V.units = Len(Us) /\ Len(Us) \in Nat BY <1>1 DEF Viewed
<1>3. CASE V.kind = "units"
  <2>1. Data = Us BY <1>1, <1>3 DEF Viewed, Data
  <2>2. \A at \in 0..(Len(Us) - 1) : Us[at + 1] \in Nat BY <1>2
  <2>3. \A at \in 0..(Len(Data) - 1) : Byte(at) \in Nat BY <2>1, <2>2, Zenon DEF Byte
  <2> QED BY <1>1, <1>2, <1>3, <2>1, <2>3
<1>4. CASE V.kind = "ascii"
  <2>1. Data = Us /\ \A i \in 1..Len(Us) : Us[i] < 128 BY <1>1, <1>4 DEF Viewed, Data
  <2>2. \A at \in 0..(Len(Us) - 1) : Us[at + 1] \in Nat BY <1>2
  <2>3. \A at \in 0..(Len(Data) - 1) : Byte(at) \in Nat BY <2>1, <2>2, Zenon DEF Byte
  <2> QED BY <1>1, <1>2, <1>4, <2>1, <2>3
<1>5. CASE V.kind = "bytes"
  <2>1. Data \in Seq(Octet) /\ Chain(Data, Us, Ps, 0) BY <1>1, <1>5 DEF Viewed, Data
  <2>2. Len(Data) \in Nat /\ \A i \in 1..Len(Data) : Data[i] \in Octet BY <2>1
  <2>3. \A at \in 0..(Len(Data) - 1) : at + 1 \in 1..Len(Data) BY <2>2
  <2>4. Octet \subseteq Nat BY DEF Octet
  <2>5. \A at \in 0..(Len(Data) - 1) : Byte(at) \in Nat BY <2>2, <2>3, <2>4, Zenon DEF Byte
  <2> QED BY <1>1, <1>2, <1>5, <2>1, <2>2, <2>5
<1>6. V.kind \in {"ascii", "bytes", "units"} BY <1>1 DEF Viewed
<1> QED BY <1>3, <1>4, <1>5, <1>6

(* A payment keeps what is known, whether or not it can be made.           *)
LEMMA SpendKeeps ==
  ASSUME NEW v, IsGood(v), NEW n \in Int, NEW w, IsGood(w)
  PROVE  IsGood(Spend(v, n, w))
<1>1. IsState(v) /\ IsState(w) /\ v.budget \in Nat /\ v.used \in Int BY DEF IsGood
<1>2. CASE n > v.budget
  <2> DEFINE x == [v EXCEPT !.phase = In("WorkLimit"), !.budget = 0, !.mistaken = w.mistaken]
  <2>1. Spend(v, n, w) = x BY <1>2, Zenon DEF Spend
  <2>2. /\ IsState(x) /\ x.phase = In("WorkLimit") /\ x.budget = 0 /\ x.used = v.used /\ x.mark = v.mark
        /\ x.start = v.start /\ x.requiredAt = v.requiredAt /\ x.requiredFrom = v.requiredFrom
        /\ x.verified = v.verified
    BY <1>1 DEF IsState, Fields
  <2>3. In("WorkLimit").is = "WorkLimit" BY DEF In
  <2>4. Knows(v.phase, v.mark, v.start, v.requiredAt, v.requiredFrom, v.verified) BY DEF IsGood
  <2>5. AdmissionKnows(In("WorkLimit"), v.mark.units) BY Zenon DEF AdmissionKnows
  <2>6. Knows(In("WorkLimit"), v.mark, v.start, v.requiredAt, v.requiredFrom, v.verified)
    BY <2>3, <2>4, <2>5, Zenon DEF Knows, RunTrue
  <2> HIDE DEF x
  <2> QED BY <1>1, <2>1, <2>2, <2>6 DEF IsGood
<1>3. CASE ~(n > v.budget)
  <2> DEFINE x == [w EXCEPT !.budget = v.budget - n, !.used = v.used + n]
  <2>1. Spend(v, n, w) = x BY <1>3, Zenon DEF Spend
  <2>2. /\ IsState(x) /\ x.phase = w.phase /\ x.budget = v.budget - n /\ x.used = v.used + n /\ x.mark = w.mark
        /\ x.start = w.start /\ x.requiredAt = w.requiredAt /\ x.requiredFrom = w.requiredFrom
        /\ x.verified = w.verified
    BY <1>1 DEF IsState, Fields
  <2>3. Knows(w.phase, w.mark, w.start, w.requiredAt, w.requiredFrom, w.verified) BY DEF IsGood
  <2>4. v.budget - n \in Nat /\ v.used + n \in Int BY <1>1, <1>3
  <2> HIDE DEF x
  <2> QED BY <2>1, <2>2, <2>3, <2>4 DEF IsGood
<1> QED BY <1>2, <1>3

LEMMA StandIs ==
  ASSUME NEW p
  PROVE  Stand(V, Ps, p).units = p
BY DEF Stand, Mark

(* What is known of a state, part by part.                                 *)
LEMMA ByParts ==
  ASSUME NEW v, IsGood(v), NEW w, IsState(w), w.budget = v.budget, w.used = v.used,
         w.requiredAt = v.requiredAt, w.requiredFrom = v.requiredFrom, w.verified = 0,
         NEW p \in 0..Len(Us), w.mark = Stand(V, Ps, p),
         \/ AdmissionKnows(w.phase, p) 
         \/ SearchKnows(w.phase, p, w.mark.half, w.start, w.requiredAt)
  PROVE  IsGood(w)
<1>1. w.mark.units = p BY StandIs
<1>2. v.budget \in Nat /\ v.used \in Int /\ NoteTrue(v.requiredAt, v.requiredFrom) BY DEF IsGood, Knows
<1>3. RunTrue(w.phase, w.start, w.verified) BY DEF RunTrue
<1>4. Knows(w.phase, w.mark, w.start, w.requiredAt, w.requiredFrom, w.verified)
  <2>1. w.mark.units \in 0..Len(Us) /\ w.mark = Stand(V, Ps, w.mark.units) BY <1>1
  <2>2. NoteTrue(w.requiredAt, w.requiredFrom) BY <1>2
  <2> QED BY <1>1, <1>3, <2>1, <2>2, Zenon DEF Knows
<1> QED BY <1>2, <1>4, Zenon DEF IsGood

LEMMA StateParts ==
  ASSUME NEW v, IsGood(v)
  PROVE  /\ IsState(v) /\ v.budget \in Nat /\ v.used \in Int
         /\ v.mark.units \in 0..Len(Us) /\ v.mark = Stand(V, Ps, v.mark.units)
         /\ NoteTrue(v.requiredAt, v.requiredFrom)
         /\ v.phase.is \notin {"Initialize", "Trial", "Match", "WorkLimit"} => v.verified = 0
         /\ \/ AdmissionKnows(v.phase, v.mark.units)
            \/ SearchKnows(v.phase, v.mark.units, v.mark.half, v.start, v.requiredAt)
BY Zenon DEF IsGood, Knows, RunTrue

(* A change of phase alone.                                                *)
LEMMA PhaseMoves ==
  ASSUME NEW v, IsGood(v), v.verified = 0, NEW phase,
         \/ AdmissionKnows(phase, v.mark.units)
         \/ SearchKnows(phase, v.mark.units, v.mark.half, v.start, v.requiredAt)
  PROVE  IsGood(Become(v, phase)) /\ IsGood([v EXCEPT !.phase = phase])
<1> DEFINE w == [v EXCEPT !.phase = phase]
<1>1. IsState(v) /\ v.mark.units \in 0..Len(Us) /\ v.mark = Stand(V, Ps, v.mark.units) BY StateParts
<1>2. /\ IsState(w) /\ w.phase = phase /\ w.budget = v.budget /\ w.used = v.used /\ w.mark = v.mark
      /\ w.start = v.start /\ w.requiredAt = v.requiredAt /\ w.requiredFrom = v.requiredFrom
      /\ w.verified = v.verified
  BY <1>1 DEF IsState, Fields
<1> HIDE DEF w
<1>3. IsGood(w) BY <1>1, <1>2, ByParts
<1> QED BY <1>3 DEF Become, w

(* A change of phase and mark.                                             *)
LEMMA MarkMoves ==
  ASSUME NEW v, IsGood(v), v.verified = 0, NEW phase, NEW p \in 0..Len(Us), NEW mark, mark = Stand(V, Ps, p),
         \/ AdmissionKnows(phase, p)
         \/ SearchKnows(phase, p, mark.half, v.start, v.requiredAt)
  PROVE  IsGood([v EXCEPT !.phase = phase, !.mark = mark])
<1> DEFINE w == [v EXCEPT !.phase = phase, !.mark = mark]
<1>1. IsState(v) BY StateParts
<1>2. /\ IsState(w) /\ w.phase = phase /\ w.budget = v.budget /\ w.used = v.used /\ w.mark = mark
      /\ w.start = v.start /\ w.requiredAt = v.requiredAt /\ w.requiredFrom = v.requiredFrom
      /\ w.verified = v.verified
  BY <1>1 DEF IsState, Fields
<1> HIDE DEF w
<1>3. IsGood(w) BY <1>2, ByParts
<1> QED BY <1>3 DEF w
LEMMA MarkStays ==
  ASSUME NEW v, IsGood(v), v.verified = 0, NEW p \in 0..Len(Us), NEW mark, mark = Stand(V, Ps, p),
         \/ AdmissionKnows(v.phase, p)
         \/ SearchKnows(v.phase, p, mark.half, v.start, v.requiredAt)
  PROVE  IsGood([v EXCEPT !.mark = mark])
<1> DEFINE w == [v EXCEPT !.mark = mark]
<1>1. IsState(v) BY StateParts
<1>2. /\ IsState(w) /\ w.phase = v.phase /\ w.budget = v.budget /\ w.used = v.used /\ w.mark = mark
      /\ w.start = v.start /\ w.requiredAt = v.requiredAt /\ w.requiredFrom = v.requiredFrom
      /\ w.verified = v.verified
  BY <1>1 DEF IsState, Fields
<1> HIDE DEF w
<1>3. IsGood(w) BY <1>2, ByParts
<1> QED BY <1>3 DEF w
LEMMA Finishes ==
  ASSUME NEW v, IsGood(v), v.verified = 0, Viable = {}
  PROVE  IsGood(Finished(v))
<1>1. SearchKnows(In("NoMatch"), v.mark.units, v.mark.half, v.start, v.requiredAt) BY Zenon DEF SearchKnows
<1> QED BY <1>1, PhaseMoves, Zenon DEF Finished

(* What a state knows, by the phase it is in.                              *)
LEMMA TagsDiffer ==
  /\ \A tag : In(tag).is = tag
  /\ \A x : [is |-> "AdmitByteClass", offset |-> x].is = "AdmitByteClass"
  /\ \A x : [is |-> "AdmitBytes", offset |-> x].is = "AdmitBytes"
  /\ \A x : [is |-> "AdmitSuffix", index |-> x].is = "AdmitSuffix"
  /\ \A x, y : [is |-> "AdmitProbe", index |-> x, scan |-> y].is = "AdmitProbe"
  /\ \A x : [is |-> "BoundPrepare", from |-> x].is = "BoundPrepare"
  /\ \A x : [is |-> "BoundScan", offset |-> x].is = "BoundScan"
  /\ \A x : [is |-> "Seek", target |-> x].is = "Seek"
BY DEF In

LEMMA AdmissionTags ==
  ASSUME NEW phase, NEW at, AdmissionKnows(phase, at)
  PROVE  /\ phase.is \in {"Admission", "Start", "WorkLimit", "AdmitByteClass", "AdmitClass", "AdmitBytes",
                          "AdmitSuffix", "AdmitScan", "AdmitProbe"}
         /\ phase.is = "AdmitByteClass" => \E o \in 0..Len(Data) :
              /\ phase = [is |-> "AdmitByteClass", offset |-> o]
              /\ Classed /\ Len(Condition.ranges) = 1 /\ Condition.ranges[1][2] < 128 /\ V.kind # "units"
              /\ \A x \in 0..(o - 1) : Byte(x) \notin Condition.ranges[1][1]..Condition.ranges[1][2]
         /\ phase.is = "AdmitClass" =>
              phase = In("AdmitClass") /\ Classed /\ \A p \in 0..(at - 1) : ~InClass(Us[p + 1])
         /\ phase.is = "AdmitBytes" => \E o \in 0..Len(Data) :
              /\ phase = [is |-> "AdmitBytes", offset |-> o]
              /\ NeedledBytes /\ NotBetween(ConditionFrom, o)
         /\ phase.is = "AdmitSuffix" => 
              Needled /\ \E i \in 0..Len(Needle) : phase = [is |-> "AdmitSuffix", index |-> i]
         /\ phase.is = "AdmitScan" => phase = In("AdmitScan") /\ Needled /\ NotBefore(at)
         /\ phase.is = "AdmitProbe" => Needled /\ \E i \in 1..Len(Needle), p \in 0..(Len(Us) - 1) :
              /\ phase = [is |-> "AdmitProbe", index |-> i, scan |-> Stand(V, Ps, p + 1)]
              /\ at = p + i /\ NotBefore(p)
<1> USE DEF AdmissionKnows
<1>1. CASE phase \in {In("Admission"), In("Start"), In("WorkLimit")}
  <2>1. phase.is \in {"Admission", "Start", "WorkLimit"} BY <1>1, TagsDiffer, Zenon
  <2> HIDE DEF AdmissionKnows
  <2> QED BY <2>1
<1>2. CASE \E o \in 0..Len(Data) :
       /\ phase = [is |-> "AdmitByteClass", offset |-> o]
       /\ Classed /\ Len(Condition.ranges) = 1 /\ Condition.ranges[1][2] < 128 /\ V.kind # "units"
       /\ \A x \in 0..(o - 1) : Byte(x) \notin Condition.ranges[1][1]..Condition.ranges[1][2]
  <2>1. phase.is = "AdmitByteClass" BY <1>2, TagsDiffer, Zenon
  <2> HIDE DEF AdmissionKnows
  <2> QED BY <1>2, <2>1, Zenon
<1>3. CASE phase = In("AdmitClass") /\ Classed /\ \A p \in 0..(at - 1) : ~InClass(Us[p + 1])
  <2>1. phase.is = "AdmitClass" BY <1>3, TagsDiffer, Zenon
  <2> HIDE DEF AdmissionKnows
  <2> QED BY <1>3, <2>1, Zenon
<1>4. CASE \E o \in 0..Len(Data) :
       /\ phase = [is |-> "AdmitBytes", offset |-> o]
       /\ NeedledBytes /\ NotBetween(ConditionFrom, o)
  <2>1. phase.is = "AdmitBytes" BY <1>4, TagsDiffer, Zenon
  <2> HIDE DEF AdmissionKnows
  <2> QED BY <1>4, <2>1, Zenon
<1>5. CASE Needled /\ \E i \in 0..Len(Needle) : phase = [is |-> "AdmitSuffix", index |-> i]
  <2>1. phase.is = "AdmitSuffix" BY <1>5, TagsDiffer, Zenon
  <2> HIDE DEF AdmissionKnows
  <2> QED BY <1>5, <2>1, Zenon
<1>6. CASE phase = In("AdmitScan") /\ Needled /\ NotBefore(at)
  <2>1. phase.is = "AdmitScan" BY <1>6, TagsDiffer, Zenon
  <2> HIDE DEF AdmissionKnows
  <2> QED BY <1>6, <2>1, Zenon
<1>7. CASE Needled /\ \E i \in 1..Len(Needle), p \in 0..(Len(Us) - 1) :
       /\ phase = [is |-> "AdmitProbe", index |-> i, scan |-> Stand(V, Ps, p + 1)]
       /\ at = p + i /\ NotBefore(p)
  <2>1. phase.is = "AdmitProbe"
    <3>1. PICK i \in 1..Len(Needle), p \in 0..(Len(Us) - 1) :
            phase = [is |-> "AdmitProbe", index |-> i, scan |-> Stand(V, Ps, p + 1)]
      BY <1>7
    <3> HIDE DEF AdmissionKnows
    <3> QED BY <3>1, TagsDiffer, Zenon
  <2> HIDE DEF AdmissionKnows
  <2> QED BY <1>7, <2>1, Zenon
<1> QED BY <1>1, <1>2, <1>3, <1>4, <1>5, <1>6, <1>7, Zenon

LEMMA SearchTags ==
  ASSUME NEW phase, NEW at, NEW half, NEW start, NEW requiredAt,
         SearchKnows(phase, at, half, start, requiredAt)
  PROVE  /\ phase.is \in {"BoundPrepare", "BoundScan", "Seek", "Candidate", "Initialize", "Trial", "NextStart",
                          "Match", "NoMatch"}
         /\ phase.is = "BoundPrepare" =>
              phase = [is |-> "BoundPrepare", from |-> requiredAt + 1] /\ Beyond(at, requiredAt)
         /\ phase.is = "BoundScan" => \E o \in 0..Len(Data) :
              /\ phase = [is |-> "BoundScan", offset |-> o]
              /\ Beyond(at, requiredAt) /\ NotBetween(requiredAt + 1, o)
         /\ phase.is = "Seek" => \E t \in 0..Len(Us) : phase = [is |-> "Seek", target |-> t] /\ Clear(t)
         /\ phase.is = "Candidate" => phase = In("Candidate") /\ Scanning(at) /\ (half => start = at)
         /\ phase.is \in {"Initialize", "Trial"} => Trying(start, requiredAt)
         /\ phase.is = "NextStart" => Clear(start) /\ at = start /\ start \notin job.matches
         /\ phase.is = "Match" => Clear(start) /\ start \in job.matches
         /\ phase.is = "NoMatch" => Viable = {}
<1> USE DEF SearchKnows
<1>1. CASE phase = [is |-> "BoundPrepare", from |-> requiredAt + 1] /\ Beyond(at, requiredAt)
  <2>1. phase.is = "BoundPrepare" BY <1>1, TagsDiffer, Zenon
  <2> HIDE DEF SearchKnows
  <2> QED BY <1>1, <2>1, Zenon
<1>2. CASE \E o \in 0..Len(Data) :
       /\ phase = [is |-> "BoundScan", offset |-> o]
       /\ Beyond(at, requiredAt) /\ NotBetween(requiredAt + 1, o)
  <2>1. phase.is = "BoundScan" BY <1>2, TagsDiffer, Zenon
  <2> HIDE DEF SearchKnows
  <2> QED BY <1>2, <2>1, Zenon
<1>3. CASE \E t \in 0..Len(Us) : phase = [is |-> "Seek", target |-> t] /\ Clear(t)
  <2>1. phase.is = "Seek" BY <1>3, TagsDiffer, Zenon
  <2> HIDE DEF SearchKnows
  <2> QED BY <1>3, <2>1, Zenon
<1>4. CASE phase = In("Candidate") /\ Scanning(at) /\ (half => start = at)
  <2>1. phase.is = "Candidate" BY <1>4, TagsDiffer, Zenon
  <2> HIDE DEF SearchKnows
  <2> QED BY <1>4, <2>1, Zenon
<1>5. CASE phase \in {In("Initialize"), In("Trial")} /\ Trying(start, requiredAt)
  <2>1. phase.is \in {"Initialize", "Trial"} BY <1>5, TagsDiffer, Zenon
  <2> HIDE DEF SearchKnows
  <2> QED BY <1>5, <2>1
<1>6. CASE phase = In("NextStart") /\ Clear(start) /\ at = start /\ start \notin job.matches
  <2>1. phase.is = "NextStart" BY <1>6, TagsDiffer, Zenon
  <2> HIDE DEF SearchKnows
  <2> QED BY <1>6, <2>1, Zenon
<1>7. CASE phase = In("Match") /\ Clear(start) /\ start \in job.matches
  <2>1. phase.is = "Match" BY <1>7, TagsDiffer, Zenon
  <2> HIDE DEF SearchKnows
  <2> QED BY <1>7, <2>1, Zenon
<1>8. CASE phase = In("NoMatch") /\ Viable = {}
  <2>1. phase.is = "NoMatch" BY <1>8, TagsDiffer, Zenon
  <2> HIDE DEF SearchKnows
  <2> QED BY <1>8, <2>1, Zenon
<1> QED BY <1>1, <1>2, <1>3, <1>4, <1>5, <1>6, <1>7, <1>8, Zenon

LEMMA Admitting ==
  ASSUME NEW v, IsGood(v),
         v.phase.is \in {"Admission", "Start", "AdmitByteClass", "AdmitClass", "AdmitBytes", "AdmitSuffix",
                         "AdmitScan", "AdmitProbe"}
  PROVE  AdmissionKnows(v.phase, v.mark.units) /\ v.verified = 0
<1>1. AdmissionKnows(v.phase, v.mark.units)
  <2> SUFFICES ASSUME SearchKnows(v.phase, v.mark.units, v.mark.half, v.start, v.requiredAt) PROVE FALSE
    BY StateParts
  <2>1. v.phase.is \in {"BoundPrepare", "BoundScan", "Seek", "Candidate", "Initialize", "Trial", "NextStart",
                        "Match", "NoMatch"}
    BY SearchTags
  <2> QED BY <2>1
<1>2. v.verified = 0
  <2>1. v.phase.is \notin {"Initialize", "Trial", "Match", "WorkLimit"} => v.verified = 0 BY StateParts
  <2> QED BY <2>1
<1> QED BY <1>1, <1>2

LEMMA Searching ==
  ASSUME NEW v, IsGood(v),
         v.phase.is \in {"BoundPrepare", "BoundScan", "Seek", "Candidate", "Initialize", "Trial", "NextStart",
                         "Match", "NoMatch"}
  PROVE  /\ SearchKnows(v.phase, v.mark.units, v.mark.half, v.start, v.requiredAt)
         /\ v.phase.is \notin {"Initialize", "Trial", "Match"} => v.verified = 0
<1>1. SearchKnows(v.phase, v.mark.units, v.mark.half, v.start, v.requiredAt)
  <2> SUFFICES ASSUME AdmissionKnows(v.phase, v.mark.units) PROVE FALSE
    BY StateParts
  <2>1. v.phase.is \in {"Admission", "Start", "WorkLimit", "AdmitByteClass", "AdmitClass", "AdmitBytes",
                        "AdmitSuffix", "AdmitScan", "AdmitProbe"}
    BY AdmissionTags
  <2> QED BY <2>1
<1>2. v.phase.is \notin {"Initialize", "Trial", "Match"} => v.verified = 0
  <2>1. v.phase.is \notin {"Initialize", "Trial", "Match", "WorkLimit"} => v.verified = 0 BY StateParts
  <2> QED BY <2>1
<1> QED BY <1>1, <1>2
-----------------------------------------------------------------------------
(* What the claims keep out.                                               *)
LEMMA ViableIn ==
  ASSUME JobTrue
  PROVE  /\ Viable \subseteq job.matches /\ job.matches \subseteq 0..Len(Us)
         /\ \A q \in Viable : job.from <= q /\ (OneStart => q = job.from)
<1>1. job.matches \subseteq 0..Len(Us) /\ \A q \in job.matches : P.anchored => q = 0
  BY DEF JobTrue, ClaimsHold
<1>2. job.from \in Nat BY Context
<1>3. ASSUME NEW q \in Viable PROVE job.from <= q /\ (OneStart => q = job.from)
  <2>1. q \in job.matches /\ q >= job.from /\ (P.sticky => q = job.from) BY DEF Viable
  <2>2. q \in Nat BY <1>1, <2>1
  <2>3. P.anchored => q = job.from BY <1>1, <1>2, <2>1, <2>2
  <2> QED BY <1>2, <2>1, <2>2, <2>3 DEF OneStart
<1> QED BY <1>1, <1>3 DEF Viable

(* A search of the condition that comes to nothing.                        *)
LEMMA ClassAbsent ==
  ASSUME JobTrue, Classed, \A p \in 0..(Len(Us) - 1) : ~InClass(Us[p + 1])
  PROVE  Viable = {}
<1> SUFFICES ASSUME job.matches # {} PROVE FALSE BY ViableIn
<1>1. ConditionFollows(P, Us, 0) BY DEF JobTrue, ClaimsHold, Classed
<1>2. \E p \in 0..(Len(Us) - 1) : InClass(Us[p + 1])
  BY <1>1 DEF ConditionFollows, InClass, Classed, Condition, Needle
<1> QED BY <1>2

LEMMA NeedleAbsent ==
  ASSUME JobTrue, Needled, NotBefore(Len(Us))
  PROVE  Viable = {}
<1> SUFFICES ASSUME job.matches # {} PROVE FALSE BY ViableIn
<1>1. ConditionFollows(P, Us, 0) BY DEF JobTrue, ClaimsHold, Needled
<1>2. \E p \in 0..(Len(Us) - 1) : Holds(Us, p, Needle)
  BY <1>1 DEF ConditionFollows, Needled, Condition, Needle
<1> QED BY <1>2 DEF NotBefore

LEMMA NeedleIs ==
  ASSUME JobTrue, Needled
  PROVE  /\ Needle \in Seq(Nat) /\ Needle # <<>> /\ Len(Needle) \in Nat /\ Len(Needle) >= 1
         /\ DOMAIN Needle = 1..Len(Needle) /\ 1 \in DOMAIN Needle
<1>1. Needle \in Seq(Nat) /\ Needle # <<>> BY DEF Needled, JobTrue, ClaimsAre, Needle, Condition
<1>2. Len(Needle) \in Nat /\ Len(Needle) >= 1 /\ DOMAIN Needle = 1..Len(Needle) BY <1>1
<1> QED BY <1>1, <1>2

(* The bytes of a needle of ASCII are at the offset of its place.          *)
LEMMA NeedleHere ==
  ASSUME JobTrue, NeedledBytes, NEW p \in 0..(Len(Us) - 1), Holds(Us, p, Needle)
  PROVE  \E o \in 0..(Len(Data) - 1) : Has(o, Needle) /\ (V.kind = "ascii" => o = p)
<1>1. Len(Us) \in Nat /\ Len(Data) \in Nat BY Context
<1>2. Needle \in Seq(Nat) /\ Needle # <<>>
  BY DEF NeedledBytes, Needled, JobTrue, ClaimsAre, Needle, Condition
<1>3. Len(Needle) \in Nat /\ Len(Needle) >= 1 /\ DOMAIN Needle = 1..Len(Needle) BY <1>2
<1>4. p + Len(Needle) <= Len(Us) /\ \A k \in DOMAIN Needle : Us[p + k] = Needle[k] BY DEF Holds
<1>5. CASE V.kind = "ascii"
  <2>1. Data = Us BY <1>5, Context
  <2>2. Has(p, Needle) /\ p \in 0..(Len(Data) - 1) BY <2>1 DEF Has
  <2> QED BY <2>2
<1>6. CASE V.kind = "bytes"
  <2>1. Data \in Seq(Octet) /\ Chain(Data, Us, Ps, 0) BY <1>6, Context
  <2>2. \A k \in 1..Len(Needle) : Us[p + k] < 128 BY <1>3, <1>4 DEF NeedledBytes
  <2>3. PICK o \in Nat : o + Len(Needle) <= Len(Data) /\ \A k \in 1..Len(Needle) : SameAt(Us, p + k, Data, o + k)
    <3> DEFINE m == Len(Needle)
    <3>1. m \in Nat /\ m > 0 /\ p + m <= Len(Us) /\ \A k \in 1..m : Us[p + k] < 128 BY <1>3, <1>4, <2>2
    <3> HIDE DEF m
    <3>2. \E o \in Nat : o + m <= Len(Data) /\ \A k \in 1..m : SameAt(Us, p + k, Data, o + k)
      BY <2>1, <3>1, AsciiUnits
    <3> QED BY <3>2 DEF m
  <2>4. \A k \in DOMAIN Needle : Data[o + k] = Needle[k] BY <1>3, <1>4, <2>3 DEF SameAt
  <2>5. Has(o, Needle) BY <2>3, <2>4, Zenon DEF Has, Holds
  <2>6. o \in 0..(Len(Data) - 1) BY <1>1, <1>3, <2>3
  <2> QED BY <1>6, <2>5, <2>6
<1> QED BY <1>5, <1>6, Context DEF NeedledBytes

LEMMA BytesAbsent ==
  ASSUME JobTrue, NeedledBytes, NotBetween(ConditionFrom, Len(Data))
  PROVE  Viable = {}
<1> SUFFICES ASSUME NEW q \in Viable PROVE FALSE OBVIOUS
<1>1. q \in job.matches /\ q \in 0..Len(Us) /\ job.from <= q BY ViableIn
<1>2. Len(Us) \in Nat /\ Len(Data) \in Nat /\ job.from \in Nat BY Context
<1>3. Needle # <<>> /\ P.required # <<>> BY DEF NeedledBytes, Needled
<1>4. CASE P.forward /\ V.kind = "ascii"
  <2>1. ConditionFollows(P, Us, q) BY <1>1, <1>4 DEF JobTrue, ClaimsHold
  <2>2. PICK p \in q..(Len(Us) - 1) : Holds(Us, p, Needle)
    BY <1>3, <2>1 DEF ConditionFollows, Condition, Needle
  <2>3. p \in 0..(Len(Us) - 1) BY <1>1
  <2>4. Has(p, Needle) /\ p \in 0..(Len(Data) - 1) BY <1>4, <2>2, <2>3, NeedleHere
  <2>5. p \in job.from..(Len(Data) - 1) BY <1>1, <1>2, <2>4
  <2> QED BY <1>4, <2>4, <2>5 DEF NotBetween, ConditionFrom
<1>5. CASE ~(P.forward /\ V.kind = "ascii")
  <2>1. ConditionFollows(P, Us, 0) BY <1>1, <1>3 DEF JobTrue, ClaimsHold
  <2>2. PICK p \in 0..(Len(Us) - 1) : Holds(Us, p, Needle)
    BY <1>3, <2>1 DEF ConditionFollows, Condition, Needle
  <2>3. PICK o \in 0..(Len(Data) - 1) : Has(o, Needle) BY <2>2, NeedleHere
  <2> QED BY <1>5, <2>3 DEF NotBetween, ConditionFrom
<1> QED BY <1>4, <1>5

LEMMA BoundAbsent ==
  ASSUME JobTrue, NEW at, NEW requiredAt \in Nat, Beyond(at, requiredAt), NotBetween(requiredAt + 1, Len(Data))
  PROVE  Viable = {}
<1> SUFFICES ASSUME NEW q \in Viable PROVE FALSE OBVIOUS
<1>1. q \in job.matches /\ q \in 0..Len(Us) BY ViableIn
<1>2. Len(Us) \in Nat /\ Data = Us BY Context DEF Beyond
<1>3. at \in 0..Len(Us) /\ at <= q /\ at > requiredAt /\ P.forward BY DEF Beyond, Scanning, Clear
<1>4. P.required # <<>> /\ Needle # <<>> /\ ConditionFollows(P, Us, q)
  BY <1>1, <1>3 DEF JobTrue, ClaimsHold, Needle, Condition
<1>5. PICK p \in q..(Len(Us) - 1) : Holds(Us, p, Needle)
  BY <1>4 DEF ConditionFollows, Condition, Needle
<1>6. Has(p, Needle) BY <1>2, <1>5 DEF Has
<1>7. p \in (requiredAt + 1)..(Len(Data) - 1) BY <1>1, <1>2, <1>3, <1>5
<1> QED BY <1>6, <1>7 DEF NotBetween

(* The first character, and how far from the end.                          *)
LEMMA FirstClaimed ==
  ASSUME JobTrue, Claims(P.first), NEW q \in Viable
  PROVE  /\ q \in 0..(Len(Us) - 1) /\ Us[q + 1] \in Nat
         /\ Us[q + 1] >= 128 \/ Admits(P.first, Us[q + 1])
<1>1. q \in job.matches /\ q \in 0..Len(Us) BY ViableIn
<1>2. Len(Us) \in Nat /\ Us \in Seq(Nat) BY Context
<1>3. UnitIn(Us, q, P.first) BY <1>1 DEF JobTrue, ClaimsHold, Claims
<1> QED BY <1>1, <1>2, <1>3 DEF UnitIn, Admits

LEMMA NotBeforeEarliest ==
  ASSUME JobTrue
  PROVE  Earliest \in 0..Len(Us) /\ \A q \in Viable : Earliest <= q
<1>1. Len(Us) \in Nat /\ V.units = Len(Us) BY Context
<1>2. P.bound \in Nat BY DEF JobTrue, ClaimsAre
<1>3. Earliest \in 0..Len(Us) BY <1>1, <1>2 DEF Earliest
<1>4. ASSUME NEW q \in Viable PROVE Earliest <= q
  <2>1. q \in job.matches /\ q \in 0..Len(Us) BY ViableIn
  <2>2. q + P.bound >= Len(Us) BY <2>1 DEF JobTrue, ClaimsHold
  <2> QED BY <1>1, <1>2, <2>1, <2>2 DEF Earliest
<1> QED BY <1>3, <1>4

LEMMA EndClaimed ==
  ASSUME JobTrue, ~EndPossible
  PROVE  Viable = {}
<1> SUFFICES ASSUME job.matches # {} PROVE FALSE BY ViableIn
<1>1. Len(Us) \in Nat /\ V.units = Len(Us) /\ Us \in Seq(Nat) BY Context
<1>2. Len(Us) \in 0..Len(Us) BY <1>1
<1>3. Viewed(V, Us, Ps) BY DEF JobTrue
<1>4. CursorAt(V, V.units) = Stand(V, Ps, Len(Us)) BY <1>1, <1>2, <1>3, CursorAtIs
<1> DEFINE read == PreviousUnit(V, CursorAt(V, V.units))
           unit == read.value
<1>5. unit = UnitHere(Us, Len(Us) - 1)
  <2>1. read = Read(Stand(V, Ps, IF Len(Us) = 0 THEN 0 ELSE Len(Us) - 1), UnitHere(Us, Len(Us) - 1))
    BY <1>2, <1>3, <1>4, PreviousRead, Zenon
  <2> HIDE DEF read
  <2>2. read.value = UnitHere(Us, Len(Us) - 1) BY <2>1, ReadIs
  <2> QED BY <2>2
<1> HIDE DEF read
<1>6. Claims(P.last) /\ ~(unit # None /\ (unit >= 128 \/ Admits(P.last, unit)))
  BY Zenon DEF EndPossible, unit, read
<1>7. Us # <<>> /\ UnitIn(Us, Len(Us) - 1, P.last) BY <1>6 DEF JobTrue, ClaimsHold, Claims
<1>8. Len(Us) - 1 \in 0..(Len(Us) - 1) /\ (Len(Us) - 1) + 1 = Len(Us) /\ Len(Us) \in 1..Len(Us) BY <1>1, <1>7
<1>9. unit = Us[Len(Us)] BY <1>5, <1>8 DEF UnitHere
<1>10. Us[Len(Us)] \in Nat BY <1>1, <1>8
<1> HIDE DEF unit
<1>11. unit >= 128 \/ Admits(P.last, unit) BY <1>7, <1>8, <1>9 DEF UnitIn, Admits
<1> QED BY <1>6, <1>9, <1>10, <1>11 DEF None
-----------------------------------------------------------------------------
(* An ASCII unit is a byte of the data.                                    *)
LEMMA ByteHere ==
  ASSUME JobTrue, V.kind # "units", NEW p \in 0..(Len(Us) - 1), Us[p + 1] < 128
  PROVE  \E x \in 0..(Len(Data) - 1) : Byte(x) = Us[p + 1] /\ (V.kind = "ascii" => x = p)
<1>1. CASE V.kind = "ascii" BY <1>1, Context DEF Byte
<1>2. CASE V.kind = "bytes"
  <2>1. Data \in Seq(Octet) /\ Chain(Data, Us, Ps, 0) /\ Len(Data) \in Nat BY <1>2, Context
  <2>2. PICK o \in Nat : At(Ps, p + 1, o, FALSE) /\ o + 1 <= Len(Data) /\ SameAt(Us, p + 1, Data, o + 1)
    BY <2>1, AsciiHere
  <2>3. o \in 0..(Len(Data) - 1) /\ Byte(o) = Us[p + 1] BY <2>1, <2>2 DEF SameAt, Byte
  <2> QED BY <1>2, <2>3
<1> QED BY <1>1, <1>2, Context

(* Each step keeps what is known.                                          *)
LEMMA Pays ==
  ASSUME NEW v, IsState(v), NEW n
  PROVE  \/ Spend(v, n, v).phase.is = "WorkLimit"
         \/ Spend(v, n, v).phase = v.phase /\ Spend(v, n, v).verified = v.verified
<1>1. CASE n > v.budget
  <2>1. Spend(v, n, v) = [v EXCEPT !.phase = In("WorkLimit"), !.budget = 0, !.mistaken = v.mistaken]
    BY <1>1, Zenon DEF Spend
  <2>2. Spend(v, n, v).phase = In("WorkLimit") BY <2>1 DEF IsState, Fields
  <2> QED BY <2>2, TagsDiffer, Zenon
<1>2. CASE ~(n > v.budget)
  <2>1. Spend(v, n, v) = [v EXCEPT !.budget = v.budget - n, !.used = v.used + n] BY <1>2, Zenon DEF Spend
  <2> QED BY <2>1 DEF IsState, Fields
<1> QED BY <1>1, <1>2

LEMMA BeganKeeps ==
  ASSUME JobTrue, NEW v, IsGood(v), v.verified = 0, NEW p, Clear(p), NEW mark, mark = Stand(V, Ps, p)
  PROVE  IsGood(Began(v, mark))
<1> DEFINE w == Began(v, mark)
           scans == Claims(P.first) /\ V.kind # "units"
           phase == IF scans THEN In("Candidate") ELSE In("Initialize")
<1>1. mark.units = p /\ p \in 0..Len(Us) BY StandIs DEF Clear
<1>2. w = [v EXCEPT !.mark = mark, !.start = p, !.phase = phase] BY <1>1, Zenon DEF Began
<1> HIDE DEF phase
<1>3. IsState(v) BY StateParts
<1> HIDE DEF w
<1>4. /\ IsState(w) /\ w.phase = phase /\ w.budget = v.budget /\ w.used = v.used /\ w.mark = mark
      /\ w.start = p /\ w.requiredAt = v.requiredAt /\ w.requiredFrom = v.requiredFrom
      /\ w.verified = v.verified
  BY <1>2, <1>3 DEF IsState, Fields
<1>5. SearchKnows(phase, p, mark.half, p, v.requiredAt)
  <2>1. CASE scans
    <3>1. phase = In("Candidate") /\ Scanning(p) BY <2>1, Zenon DEF phase, Scanning
    <3> QED BY <3>1, Zenon DEF SearchKnows
  <2>2. CASE ~scans
    <3>1. V.kind = "ascii" => V.kind # "units" OBVIOUS
    <3>2. phase = In("Initialize") /\ Trying(p, v.requiredAt) BY <2>2, <3>1, Zenon DEF phase, Trying
    <3> QED BY <3>2 DEF SearchKnows
  <2> QED BY <2>1, <2>2
<1>6. IsGood(w) BY <1>1, <1>4, <1>5, ByParts
<1> QED BY <1>6 DEF w

LEMMA ZeroStands ==
  ASSUME JobTrue
  PROVE  Stand(V, Ps, 0) = Mark(0, FALSE, 0)
<1>1. Viewed(V, Us, Ps) BY DEF JobTrue
<1>2. CASE V.kind = "bytes" BY <1>1, <1>2, EndsStand
<1>3. CASE V.kind # "bytes" BY <1>3, Zenon DEF Stand
<1> QED BY <1>2, <1>3

LEMMA AdmittedKeeps ==
  ASSUME JobTrue, NEW v, IsGood(v), v.verified = 0
  PROVE  IsGood(Admitted(v))
<1>1. /\ Len(Us) \in Nat /\ V.units = Len(Us) /\ Len(Data) \in Nat /\ job.from \in Nat /\ job.from <= Len(Us)
      /\ V.kind = "ascii" => Data = Us
  BY Context
<1>2. 0 \in 0..Len(Us) /\ Len(Us) \in 0..Len(Us) /\ 0 \in 0..Len(Data) BY <1>1
<1>3. Stand(V, Ps, 0) = Mark(0, FALSE, 0) /\ CursorAt(V, V.units) = Stand(V, Ps, Len(Us))
  <2>1. Viewed(V, Us, Ps) BY DEF JobTrue
  <2>2. CursorAt(V, Len(Us)) = Stand(V, Ps, Len(Us)) BY <1>2, <2>1, CursorAtIs
  <2> QED BY <1>1, <2>2, ZeroStands, Zenon
<1> DEFINE short == V.units < AdmitFrom \/ P.required = <<>>
<1>4. CASE short
  <2>1. Admitted(v) = Become(v, In("Start")) BY <1>4, Zenon DEF Admitted
  <2>2. AdmissionKnows(In("Start"), v.mark.units) BY DEF AdmissionKnows
  <2> QED BY <2>1, <2>2, PhaseMoves
<1>5. CASE ~short /\ Needle = <<>>
  <2> DEFINE bytes == Len(Condition.ranges) = 1 /\ Condition.ranges[1][2] < 128 /\ V.kind # "units"
             scan == [is |-> "AdmitByteClass", offset |-> 0]
             byClass == [v EXCEPT !.phase = In("AdmitClass"), !.mark = Mark(0, FALSE, 0)]
  <2>1. Classed BY <1>5 DEF Classed
  <2>2. CASE bytes
    <3>1. Admitted(v) = Become(v, scan) BY <1>5, <2>2, Zenon DEF Admitted
    <3>2. \A x \in 0..(0 - 1) : Byte(x) \notin Condition.ranges[1][1]..Condition.ranges[1][2] OBVIOUS
    <3>3. AdmissionKnows(scan, v.mark.units) BY <1>2, <2>1, <2>2, <3>2, Zenon DEF AdmissionKnows
    <3> HIDE DEF scan
    <3> QED BY <3>1, <3>3, PhaseMoves
  <2>3. CASE ~bytes
    <3>1. Admitted(v) = byClass BY <1>5, <2>3, Zenon DEF Admitted
    <3>2. \A x \in 0..(0 - 1) : ~InClass(Us[x + 1]) OBVIOUS
    <3>3. AdmissionKnows(In("AdmitClass"), 0) BY <2>1, <3>2, Zenon DEF AdmissionKnows
    <3>4. IsGood(byClass)
      <4> DEFINE mark == Mark(0, FALSE, 0)
      <4>1. mark = Stand(V, Ps, 0) BY <1>3, Zenon
      <4> HIDE DEF mark
      <4>2. IsGood([v EXCEPT !.phase = In("AdmitClass"), !.mark = mark]) BY <1>2, <3>3, <4>1, MarkMoves
      <4> QED BY <4>2 DEF mark
    <3> QED BY <3>1, <3>4, Zenon
  <2> QED BY <2>2, <2>3
<1>6. CASE ~short /\ Needle # <<>>
  <2> DEFINE ascii == V.kind # "units" /\ \A k \in DOMAIN Needle : Needle[k] < 128
             scan == [is |-> "AdmitBytes", offset |-> ConditionFrom]
             back == [is |-> "AdmitSuffix", index |-> Len(Needle)]
             then == IF ascii THEN Become(v, scan)
                     ELSE [v EXCEPT !.phase = back, !.mark = CursorAt(V, V.units)]
  <2>1. Needled BY <1>6 DEF Needled
  <2>2. Needle \in Seq(Nat) BY <1>6 DEF JobTrue, ClaimsAre, Needle, Condition
  <2>3. Len(Needle) \in Int /\ Len(Needle) \in 0..Len(Needle) BY <2>2
  <2>4. Admitted(v) = Spend(v, Len(Needle), then) BY <1>6, Zenon DEF Admitted
  <2>5. CASE ascii
    <3>1. NeedledBytes BY <2>1, <2>5 DEF NeedledBytes
    <3>2. ConditionFrom \in 0..Len(Data) BY <1>1 DEF ConditionFrom
    <3>3. NotBetween(ConditionFrom, ConditionFrom) BY <3>2 DEF NotBetween
    <3>4. AdmissionKnows(scan, v.mark.units) BY <3>1, <3>2, <3>3, Zenon DEF AdmissionKnows
    <3>5. IsGood(Become(v, scan))
      <4> HIDE DEF scan
      <4> QED BY <3>4, PhaseMoves
    <3>6. IsGood(then) BY <2>5, <3>5, Zenon
    <3> HIDE DEF then
    <3> QED BY <2>3, <2>4, <3>6, SpendKeeps
  <2>6. CASE ~ascii
    <3>1. AdmissionKnows(back, Len(Us)) BY <2>1, <2>3, Zenon DEF AdmissionKnows
    <3>2. IsGood([v EXCEPT !.phase = back, !.mark = CursorAt(V, V.units)])
      <4> HIDE DEF back
      <4> QED BY <1>2, <1>3, <3>1, MarkMoves
    <3>3. IsGood(then) BY <2>6, <3>2, Zenon
    <3> HIDE DEF then
    <3> QED BY <2>3, <2>4, <3>3, SpendKeeps
  <2> QED BY <2>5, <2>6
<1> QED BY <1>4, <1>5, <1>6

LEMMA LowestIs ==
  ASSUME NEW T \in SUBSET Nat, T # {}
  PROVE  Lowest(T) \in T /\ Lowest(T) \in Nat /\ \A x \in T : Lowest(T) <= x
<1>1. \E n \in T : \A m \in T : n <= m BY LeastOf
<1>2. Lowest(T) \in T /\ \A x \in T : Lowest(T) <= x BY <1>1 DEF Lowest
<1> QED BY <1>2

LEMMA AdmissionKeeps ==
  ASSUME JobTrue, NEW v, IsGood(v), v.phase.is = "Admission"
  PROVE  IsGood(Admission(v))
<1> DEFINE paid == Spend(v, EndCost, v)
           first == Most(Lowest(Beginnings), Earliest)
           then == IF Beginnings = {} THEN Finished(paid) ELSE Began(paid, CursorAt(V, first))
<1>0. Admission(v) = IF paid.phase.is = "WorkLimit" THEN paid
                     ELSE IF ~EndPossible THEN Finished(paid)
                     ELSE IF ~ShortApplies THEN Admitted(paid)
                     ELSE Spend(paid, ShortCost, then)
  BY Zenon DEF Admission
<1>1. v.verified = 0 /\ IsState(v) BY Admitting, StateParts
<1>2. EndCost \in Int BY DEF EndCost
<1>3. IsGood(paid) BY <1>2, SpendKeeps
<1>4. paid.phase.is = "WorkLimit" \/ paid.verified = 0 BY <1>1, Pays, Zenon
<1> HIDE DEF paid, then
<1>5. CASE paid.phase.is = "WorkLimit" BY <1>0, <1>3, <1>5
<1>6. CASE paid.phase.is # "WorkLimit" /\ ~EndPossible
  <2>1. Viable = {} BY <1>6, EndClaimed
  <2> QED BY <1>0, <1>3, <1>4, <1>6, <2>1, Finishes
<1>7. CASE paid.phase.is # "WorkLimit" /\ EndPossible /\ ~ShortApplies
  BY <1>0, <1>3, <1>4, <1>7, AdmittedKeeps
<1>8. CASE paid.phase.is # "WorkLimit" /\ EndPossible /\ ShortApplies
  <2>1. Admission(v) = Spend(paid, ShortCost, then) BY <1>0, <1>8, Zenon
  <2>2. V.kind = "ascii" /\ job.from <= V.units /\ Claims(P.first) /\ ~OneStart BY <1>8 DEF ShortApplies
  <2>3. /\ Len(Us) \in Nat /\ V.units = Len(Us) /\ Data = Us /\ job.from \in Nat /\ job.from <= Len(Us)
        /\ \A i \in 1..Len(Us) : Us[i] < 128 
    BY <2>2, Context
  <2>4. Beginnings \in SUBSET Nat /\ Beginnings \subseteq 0..(Len(Us) - 1) BY <2>3 DEF Beginnings
  <2>5. \A q \in Viable : q \in Beginnings
    <3>1. TAKE q \in Viable
    <3>2. /\ q \in 0..(Len(Us) - 1) /\ Us[q + 1] \in Nat
          /\ Us[q + 1] >= 128 \/ Admits(P.first, Us[q + 1])
      BY <2>2, FirstClaimed
    <3>3. q + 1 \in 1..Len(Us) BY <2>3, <3>2
    <3>4. Us[q + 1] < 128 BY <2>3, <3>3
    <3>5. Admits(P.first, Byte(q)) BY <2>3, <3>2, <3>4 DEF Byte
    <3>6. job.from <= q BY ViableIn
    <3> QED BY <2>3, <3>2, <3>5, <3>6 DEF Beginnings
  <2>6. Beginnings # {} => Lowest(Beginnings) \in Beginnings /\ \A q \in Beginnings : Lowest(Beginnings) <= q
    BY <2>4, LowestIs
  <2>7. ShortCost \in Int
    <3>1. Beginnings # {} => Lowest(Beginnings) \in Nat BY <2>4, LowestIs, Zenon
    <3> QED BY <2>3, <3>1 DEF ShortCost
  <2>8. CASE Beginnings = {}
    <3>1. Viable = {} BY <2>5, <2>8
    <3>2. IsGood(then) BY <1>3, <1>4, <1>8, <2>8, <3>1, Finishes DEF then
    <3> QED BY <1>3, <2>1, <2>7, <3>2, SpendKeeps
  <2>9. CASE Beginnings # {}
    <3>1. Lowest(Beginnings) \in 0..Len(Us) /\ job.from <= Lowest(Beginnings)
      <4>1. Lowest(Beginnings) \in Beginnings BY <2>6, <2>9
      <4>2. Lowest(Beginnings) \in job.from..(V.units - 1) BY <4>1 DEF Beginnings
      <4> QED BY <2>3, <4>2
    <3>2. Earliest \in 0..Len(Us) /\ \A q \in Viable : Earliest <= q BY NotBeforeEarliest
    <3>3. first \in 0..Len(Us) /\ job.from <= first BY <2>3, <3>1, <3>2 DEF Most
    <3>4. \A q \in Viable : first <= q BY <2>5, <2>6, <2>9, <3>2 DEF Most
    <3>5. Clear(first) BY <2>2, <3>3, <3>4, Zenon DEF Clear
    <3>6. CursorAt(V, first) = Stand(V, Ps, first) BY <3>3, CursorAtIs DEF JobTrue
    <3> HIDE DEF first
    <3>7. IsGood(Began(paid, CursorAt(V, first))) BY <1>3, <1>4, <1>8, <3>5, <3>6, BeganKeeps
    <3>8. IsGood(then) BY <2>9, <3>7, Zenon DEF then
    <3> QED BY <1>3, <2>1, <2>7, <3>8, SpendKeeps
  <2> QED BY <2>8, <2>9
<1> QED BY <1>5, <1>6, <1>7, <1>8

LEMMA ByteClassKeeps ==
  ASSUME JobTrue, NEW v, IsGood(v), v.phase.is = "AdmitByteClass"
  PROVE  IsGood(AdmitByteClass(v))
<1>1. v.verified = 0 /\ IsState(v) /\ AdmissionKnows(v.phase, v.mark.units) BY Admitting, StateParts
<1>2. PICK o \in 0..Len(Data) :
              /\ v.phase = [is |-> "AdmitByteClass", offset |-> o]
              /\ Classed /\ Len(Condition.ranges) = 1 /\ Condition.ranges[1][2] < 128 /\ V.kind # "units"
              /\ \A x \in 0..(o - 1) : Byte(x) \notin Condition.ranges[1][1]..Condition.ranges[1][2]
  BY <1>1, AdmissionTags
<1> DEFINE end == Least(Len(Data), o + Chunk)
           range == Condition.ranges[1]
           found == \E at \in o..(end - 1) : Byte(at) \in range[1]..range[2]
           on == [v.phase EXCEPT !.offset = end]
           then == IF found THEN Become(v, In("Start")) ELSE Become(v, on)
<1>3. v.phase.offset = o /\ on = [is |-> "AdmitByteClass", offset |-> end] BY <1>2
<1>4. AdmitByteClass(v) = IF o = Len(Data) THEN Finished(v) ELSE Spend(v, end - o, then)
  BY <1>3, Zenon DEF AdmitByteClass
<1>5. Len(Data) \in Nat /\ Chunk \in Nat /\ end \in 0..Len(Data) /\ o <= end /\ end - o \in Int
  <2>1. Len(Data) \in Nat BY Context
  <2>2. Chunk \in Nat BY ScanConstants
  <2> QED BY <2>1, <2>2 DEF Least
<1>6. CASE o = Len(Data)
  <2>1. \A p \in 0..(Len(Us) - 1) : ~InClass(Us[p + 1])
    <3>1. TAKE p \in 0..(Len(Us) - 1)
    <3> SUFFICES ASSUME InClass(Us[p + 1]) PROVE FALSE OBVIOUS
    <3>2. Us[p + 1] \in range[1]..range[2] BY <1>2 DEF InClass
    <3>3. Us[p + 1] < 128
      <4>1. range[1] \in Nat /\ range[2] \in Nat /\ range[2] < 128
        <5>1. Condition.ranges \in Seq(Nat \X Nat) /\ Len(Condition.ranges) = 1
          BY <1>2 DEF JobTrue, ClaimsAre, Classed, Condition
        <5>2. range \in Nat \X Nat BY <5>1
        <5> QED BY <1>2, <5>2
      <4>2. Us[p + 1] \in Nat BY <3>1, Context
      <4> HIDE DEF range
      <4> QED BY <3>2, <4>1, <4>2
    <3>4. \E x \in 0..(Len(Data) - 1) : Byte(x) = Us[p + 1] BY <1>2, <3>3, ByteHere
    <3> QED BY <1>2, <1>6, <3>2, <3>4
  <2>2. Viable = {} BY <1>2, <2>1, ClassAbsent
  <2> QED BY <1>1, <1>4, <1>6, <2>2, Finishes
<1>7. CASE o # Len(Data)
  <2>1. CASE found
    <3>1. AdmissionKnows(In("Start"), v.mark.units) BY DEF AdmissionKnows
    <3>2. IsGood(then) BY <1>1, <2>1, <3>1, PhaseMoves, Zenon
    <3> HIDE DEF then, end
    <3> QED BY <1>4, <1>5, <1>7, <3>2, SpendKeeps
  <2>2. CASE ~found
    <3>1. \A x \in 0..(end - 1) : Byte(x) \notin Condition.ranges[1][1]..Condition.ranges[1][2]
      <4>1. TAKE x \in 0..(end - 1)
      <4>2. x \in 0..(o - 1) \/ x \in o..(end - 1) BY <1>5
      <4> QED BY <1>2, <2>2, <4>2
    <3>2. AdmissionKnows(on, v.mark.units)
      <4> HIDE DEF on, end
      <4> QED BY <1>2, <1>3, <1>5, <3>1, Zenon DEF AdmissionKnows
    <3>3. IsGood(Become(v, on))
      <4> HIDE DEF on
      <4> QED BY <1>1, <3>2, PhaseMoves
    <3>4. IsGood(then) BY <2>2, <3>3, Zenon
    <3> HIDE DEF then, end
    <3> QED BY <1>4, <1>5, <1>7, <3>4, SpendKeeps
  <2> QED BY <2>1, <2>2
<1> QED BY <1>6, <1>7

(* What a read at a place returns.                                         *)
LEMMA Reads ==
  ASSUME JobTrue, NEW p \in 0..Len(Us)
  PROVE  /\ NextUnit(V, Stand(V, Ps, p)).value = UnitHere(Us, p)
         /\ NextUnit(V, Stand(V, Ps, p)).mark = Stand(V, Ps, Least(Len(Us), p + 1))
         /\ PreviousUnit(V, Stand(V, Ps, p)).mark = Stand(V, Ps, IF p = 0 THEN 0 ELSE p - 1)
         /\ UnitHere(Us, p) = None <=> p = Len(Us)
         /\ p < Len(Us) => /\ UnitHere(Us, p) = Us[p + 1] /\ Us[p + 1] \in Nat /\ Least(Len(Us), p + 1) = p + 1
                           /\ p + 1 \in 0..Len(Us)
<1>1. Viewed(V, Us, Ps) BY DEF JobTrue
<1>2. Len(Us) \in Nat /\ Us \in Seq(Nat) BY Context
<1>3. NextUnit(V, Stand(V, Ps, p)) = Read(Stand(V, Ps, Least(Len(Us), p + 1)), UnitHere(Us, p))
  BY <1>1, NextRead
<1>4. PreviousUnit(V, Stand(V, Ps, p)) = Read(Stand(V, Ps, IF p = 0 THEN 0 ELSE p - 1), UnitHere(Us, p - 1))
  BY <1>1, PreviousRead
<1>5. p < Len(Us) => UnitHere(Us, p) = Us[p + 1] /\ Us[p + 1] \in Nat BY <1>2 DEF UnitHere
<1>6. ~(p < Len(Us)) => UnitHere(Us, p) = None BY <1>2 DEF UnitHere
<1>7. UnitHere(Us, p) = None <=> p = Len(Us) BY <1>2, <1>5, <1>6 DEF None
<1>8. p < Len(Us) => Least(Len(Us), p + 1) = p + 1 /\ p + 1 \in 0..Len(Us) BY <1>2 DEF Least
<1>9. PreviousUnit(V, Stand(V, Ps, p)).mark = Stand(V, Ps, IF p = 0 THEN 0 ELSE p - 1) BY <1>4, ReadIs, Zenon
<1> QED BY <1>3, <1>5, <1>7, <1>8, <1>9, ReadIs, Zenon

LEMMA ClassKeeps ==
  ASSUME JobTrue, NEW v, IsGood(v), v.phase.is = "AdmitClass"
  PROVE  IsGood(AdmitClass(v))
<1> DEFINE p == v.mark.units
           read == NextUnit(V, v.mark)
           ranges == Condition.ranges
           in == \E k \in DOMAIN ranges : read.value \in ranges[k][1]..ranges[k][2]
           then == IF in THEN [v EXCEPT !.phase = In("Start"), !.mark = read.mark]
                   ELSE [v EXCEPT !.mark = read.mark]
           cost == 1 + ClassCost(read.value, ranges)
<1>1. v.verified = 0 /\ AdmissionKnows(v.phase, p) /\ p \in 0..Len(Us) /\ v.mark = Stand(V, Ps, p)
  BY Admitting, StateParts
<1>2. v.phase = In("AdmitClass") /\ Classed /\ \A q \in 0..(p - 1) : ~InClass(Us[q + 1]) BY <1>1, AdmissionTags
<1>3. AdmitClass(v) = IF read.value = None THEN Finished(v) ELSE Spend(v, cost, then) BY Zenon DEF AdmitClass
<1>4. /\ read.value = UnitHere(Us, p) /\ read.mark = Stand(V, Ps, Least(Len(Us), p + 1))
      /\ UnitHere(Us, p) = None <=> p = Len(Us)
      /\ p < Len(Us) => /\ UnitHere(Us, p) = Us[p + 1] /\ Us[p + 1] \in Nat /\ Least(Len(Us), p + 1) = p + 1
                        /\ p + 1 \in 0..Len(Us)
  BY <1>1, Reads, Zenon
<1>5. Len(Us) \in Nat BY Context
<1> HIDE DEF p, read, ranges
<1>6. CASE read.value = None
  <2>1. p = Len(Us) BY <1>4, <1>6
  <2>2. Viable = {} BY <1>2, <2>1, ClassAbsent
  <2> QED BY <1>1, <1>3, <1>6, <2>2, Finishes
<1>7. CASE read.value # None
  <2>1. p < Len(Us) BY <1>1, <1>4, <1>5, <1>7
  <2>2. read.value = Us[p + 1] /\ read.mark = Stand(V, Ps, p + 1) /\ p + 1 \in 0..Len(Us) BY <1>4, <2>1, Zenon
  <2>3. in <=> InClass(Us[p + 1]) BY <2>2, Zenon DEF InClass, ranges
  <2>4. cost \in Int
    <3>1. ranges \in Seq(Nat \X Nat) BY <1>2 DEF JobTrue, ClaimsAre, Classed, Condition, ranges
    <3> DEFINE holds == {k \in DOMAIN ranges : read.value \in ranges[k][1]..ranges[k][2]}
    <3>2. Len(ranges) \in Nat /\ holds \in SUBSET Nat BY <3>1
    <3>3. holds # {} => Lowest(holds) \in Nat
      <4> HIDE DEF holds
      <4> QED BY <3>2, LowestIs
    <3>4. ClassCost(read.value, ranges) = IF holds = {} THEN Len(ranges) ELSE Lowest(holds) BY Zenon DEF ClassCost
    <3> HIDE DEF holds
    <3> QED BY <3>2, <3>3, <3>4
  <2>5. CASE in
    <3>1. AdmissionKnows(In("Start"), p + 1) BY DEF AdmissionKnows
    <3>2. IsGood([v EXCEPT !.phase = In("Start"), !.mark = read.mark])
      BY <1>1, <2>2, <3>1, MarkMoves
    <3>3. IsGood(then) BY <2>5, <3>2, Zenon
    <3> HIDE DEF then, cost
    <3> QED BY <1>3, <1>7, <2>4, <3>3, SpendKeeps
  <2>6. CASE ~in
    <3>1. \A q \in 0..((p + 1) - 1) : ~InClass(Us[q + 1])
      <4>1. TAKE q \in 0..((p + 1) - 1)
      <4>2. q \in 0..(p - 1) \/ q = p BY <1>1
      <4> QED BY <1>2, <2>3, <2>6, <4>2
    <3>2. AdmissionKnows(v.phase, p + 1) BY <1>2, <3>1, Zenon DEF AdmissionKnows
    <3>3. IsGood([v EXCEPT !.mark = read.mark])
      BY <1>1, <2>2, <3>2, MarkStays
    <3>4. IsGood(then) BY <2>6, <3>3, Zenon
    <3> HIDE DEF then, cost
    <3> QED BY <1>3, <1>7, <2>4, <3>4, SpendKeeps
  <2> QED BY <2>5, <2>6
<1> QED BY <1>6, <1>7

(* A chunk of the scan for the condition's bytes.                          *)
LEMMA ChunkKeeps ==
  ASSUME JobTrue, NEW v, IsGood(v), v.verified = 0, NEW o \in 0..Len(Data), v.phase.offset = o, NeedledBytes,
         NEW then, then \in {"Start", "Candidate"},
         o = Len(Data) => Viable = {},
         NEW low \in Nat, NotBetween(low, o),
         \A end \in o..Len(Data) : NotBetween(low, end) =>
           \/ AdmissionKnows([v.phase EXCEPT !.offset = end], v.mark.units)
           \/ SearchKnows([v.phase EXCEPT !.offset = end], v.mark.units, v.mark.half, v.start, v.requiredAt),
         \A at \in Nat :
           \/ AdmissionKnows(In(then), v.mark.units)
           \/ SearchKnows(In(then), v.mark.units, v.mark.half, v.start, at)
  PROVE  IsGood(NeedleChunk(v, then))
<1> DEFINE scan == NeedleScan(o)
           end == Least(Len(Data), o + Chunk)
           hits == {at \in o..(end - 1) : Byte(at) = Needle[1]}
           whole == {at \in hits : Has(at, Needle)}
           found == IF whole = {} THEN UNSET ELSE Lowest(whole)
           compared == {at \in hits : found = UNSET \/ at <= found}
<1>1. Len(Data) \in Nat /\ Chunk \in Nat \ {0} /\ end \in o..Len(Data)
  <2>1. Len(Data) \in Nat BY Context
  <2>2. Chunk \in Nat \ {0} BY ScanConstants
  <2> QED BY <2>1, <2>2 DEF Least
<1>2. Needle \in Seq(Nat) /\ Len(Needle) \in Nat /\ Len(Needle) >= 1 
  <2>1. Needled BY DEF NeedledBytes
  <2> QED BY <2>1, NeedleIs
<1>3. scan.found = found /\ scan.end = end /\ scan.cost = (end - o) + Len(Needle) * Cardinality(compared)
  BY Zenon DEF NeedleScan
<1>4. scan.cost \in Int
  <2>1. IsFiniteSet(o..(end - 1)) /\ compared \subseteq o..(end - 1) BY <1>1, FS_Interval
  <2> HIDE DEF compared
  <2>2. IsFiniteSet(compared) BY <2>1, FS_Subset
  <2>3. Cardinality(compared) \in Nat BY <2>2, FS_CardinalityType
  <2> HIDE DEF scan, end
  <2> QED BY <1>1, <1>2, <1>3, <2>3
<1>5. whole \in SUBSET Nat BY <1>1
<1>6. \A at \in o..(end - 1) : Has(at, Needle) => at \in whole
  <2>1. TAKE at \in o..(end - 1)
  <2>2. HAVE Has(at, Needle)
  <2>3. 1 \in DOMAIN Needle
    <3> HIDE DEF whole
    <3> QED BY <1>2
  <2>4. Byte(at) = Needle[1] BY <2>2, <2>3, Zenon DEF Has, Holds, Byte
  <2> QED BY <2>1, <2>2, <2>4
<1> DEFINE on == [v EXCEPT !.swept = @ + scan.end - v.phase.offset]
           next == IF scan.found # UNSET THEN Become(Noted(on, scan.found), In(then))
                   ELSE Become(on, [v.phase EXCEPT !.offset = scan.end])
<1>7. NeedleChunk(v, then) = IF o >= Len(Data) THEN Finished(v) ELSE Spend(v, scan.cost, next)
  BY Zenon DEF NeedleChunk, Looked
<1>8. CASE o = Len(Data)
  <2>1. o >= Len(Data) BY <1>1, <1>8
  <2> QED BY <1>7, <1>8, <2>1, Finishes
<1>9. ASSUME o # Len(Data) PROVE IsGood(next)
  <2>1. /\ IsState(v) /\ v.mark.units \in 0..Len(Us) /\ v.mark = Stand(V, Ps, v.mark.units)
        /\ v.budget \in Nat /\ v.used \in Int
    BY StateParts
  <2>2. /\ IsState(on) /\ on.phase = v.phase /\ on.mark = v.mark /\ on.start = v.start /\ on.budget = v.budget
        /\ on.requiredAt = v.requiredAt /\ on.requiredFrom = v.requiredFrom /\ on.verified = v.verified
        /\ on.used = v.used
    BY <2>1 DEF IsState, Fields
  <2> HIDE DEF on, scan
  <2>3. CASE whole = {}
    <3>1. scan.found = UNSET BY <1>3, <2>3
    <3> DEFINE phase == [v.phase EXCEPT !.offset = end]
               w == [on EXCEPT !.phase = phase]
    <3>2. NotBetween(low, end)
      <4> SUFFICES ASSUME NEW at \in low..(end - 1), Has(at, Needle) PROVE FALSE BY DEF NotBetween
      <4>1. at \in low..(o - 1) \/ at \in o..(end - 1) BY <1>1
      <4> HIDE DEF end, whole
      <4> QED BY <1>6, <2>3, <4>1 DEF NotBetween
    <3>3. \/ AdmissionKnows(phase, v.mark.units)
          \/ SearchKnows(phase, v.mark.units, v.mark.half, v.start, v.requiredAt)
      <4> HIDE DEF end
      <4> QED BY <1>1, <3>2
    <3> HIDE DEF phase
    <3>4. /\ IsState(w) /\ w.phase = phase /\ w.mark = v.mark /\ w.start = v.start /\ w.budget = v.budget
          /\ w.requiredAt = v.requiredAt /\ w.requiredFrom = v.requiredFrom /\ w.verified = v.verified
          /\ w.used = v.used
      BY <2>2 DEF IsState, Fields
    <3>5. next = w BY <1>3, <3>1, Zenon DEF Become, phase
    <3> HIDE DEF w, next
    <3>6. IsGood(w) BY <2>1, <3>3, <3>4, ByParts
    <3> QED BY <3>5, <3>6
  <2>4. CASE whole # {}
    <3> DEFINE at == Lowest(whole)
               w == Become(Noted(on, at), In(then))
    <3>1. at \in whole /\ at \in Nat
      <4> HIDE DEF whole
      <4> QED BY <1>5, <2>4, LowestIs
    <3>2. Has(at, Needle) BY <3>1
    <3> HIDE DEF at
    <3>3. scan.found = at /\ at # UNSET BY <1>3, <2>4, <3>1 DEF at, UNSET
    <3>4. next = w BY <3>3, Zenon
    <3>5. /\ IsState(w) /\ w.phase = In(then) /\ w.mark = v.mark /\ w.start = v.start /\ w.budget = v.budget
          /\ w.requiredAt = at /\ w.requiredFrom = at + 1 /\ w.verified = v.verified
          /\ w.used = v.used
      BY <2>2 DEF IsState, Fields, Become, Noted
    <3> HIDE DEF w, next
    <3>6. NoteTrue(w.requiredAt, w.requiredFrom) BY <3>1, <3>2, <3>5 DEF NoteTrue, NeedledBytes
    <3>7. RunTrue(w.phase, w.start, w.verified) BY <3>5 DEF RunTrue
    <3>8. \/ AdmissionKnows(w.phase, w.mark.units)
          \/ SearchKnows(w.phase, w.mark.units, w.mark.half, w.start, w.requiredAt)
      BY <3>1, <3>5
    <3>9. Knows(w.phase, w.mark, w.start, w.requiredAt, w.requiredFrom, w.verified)
      BY <2>1, <3>5, <3>6, <3>7, <3>8 DEF Knows
    <3>10. IsGood(w) BY <2>1, <3>5, <3>9 DEF IsGood
    <3> QED BY <3>4, <3>10
  <2> QED BY <2>3, <2>4
<1>10. CASE o # Len(Data)
  <2>1. ~(o >= Len(Data)) BY <1>1, <1>10
  <2>2. IsGood(next) BY <1>9, <1>10
  <2> HIDE DEF next, scan
  <2> QED BY <1>4, <1>7, <2>1, <2>2, SpendKeeps
<1> QED BY <1>8, <1>10

LEMMA BytesKeep ==
  ASSUME JobTrue, NEW v, IsGood(v), v.phase.is = "AdmitBytes"
  PROVE  IsGood(AdmitBytes(v))
<1>1. v.verified = 0 /\ AdmissionKnows(v.phase, v.mark.units) BY Admitting
<1>2. PICK o \in 0..Len(Data) :
        v.phase = [is |-> "AdmitBytes", offset |-> o] /\ NeedledBytes /\ NotBetween(ConditionFrom, o)
  BY <1>1, AdmissionTags
<1>3. v.phase.offset = o /\ \A end : [v.phase EXCEPT !.offset = end] = [is |-> "AdmitBytes", offset |-> end]
  BY <1>2
<1>4. o = Len(Data) => Viable = {} BY <1>2, BytesAbsent
<1>5. Len(Data) \in Nat /\ ConditionFrom \in Nat BY Context DEF ConditionFrom
<1>6. ASSUME NEW end \in o..Len(Data), NotBetween(ConditionFrom, end)
      PROVE  AdmissionKnows([v.phase EXCEPT !.offset = end], v.mark.units)
  <2>1. end \in 0..Len(Data) BY <1>5
  <2> DEFINE phase == [v.phase EXCEPT !.offset = end]
  <2>2. phase = [is |-> "AdmitBytes", offset |-> end] BY <1>3
  <2> HIDE DEF phase
  <2>3. AdmissionKnows(phase, v.mark.units) BY <1>2, <1>6, <2>1, <2>2, Zenon DEF AdmissionKnows
  <2> QED BY <2>3 DEF phase
<1>7. AdmissionKnows(In("Start"), v.mark.units) BY Zenon DEF AdmissionKnows
<1> DEFINE low == ConditionFrom
<1> HIDE DEF low
<1>8. low \in Nat /\ NotBetween(low, o) /\ \A end \in o..Len(Data) : NotBetween(low, end) =>
        AdmissionKnows([v.phase EXCEPT !.offset = end], v.mark.units)
  BY <1>2, <1>5, <1>6 DEF low
<1> QED BY <1>1, <1>2, <1>3, <1>4, <1>7, <1>8, ChunkKeeps DEF AdmitBytes

LEMMA BoundScanKeeps ==
  ASSUME JobTrue, NEW v, IsGood(v), v.phase.is = "BoundScan"
  PROVE  IsGood(BoundScan(v))
<1> DEFINE low == v.requiredAt + 1
<1>1. SearchKnows(v.phase, v.mark.units, v.mark.half, v.start, v.requiredAt) /\ v.verified = 0 BY Searching
<1>2. PICK o \in 0..Len(Data) :
        /\ v.phase = [is |-> "BoundScan", offset |-> o]
        /\ Beyond(v.mark.units, v.requiredAt) /\ NotBetween(low, o)
  BY <1>1, SearchTags
<1>3. v.phase.offset = o /\ \A end : [v.phase EXCEPT !.offset = end] = [is |-> "BoundScan", offset |-> end]
  BY <1>2
<1>4. Len(Data) \in Nat /\ V.kind = "ascii" /\ V.kind # "units" BY <1>2, Context DEF Beyond
<1>5. v.requiredAt # UNSET BY <1>2 DEF Beyond
<1>6. Needled /\ v.requiredAt \in Nat /\ Has(v.requiredAt, Needle) BY <1>5, StateParts DEF NoteTrue
<1>7. o = Len(Data) => Viable = {} BY <1>2, <1>6, BoundAbsent
<1>8. NeedledBytes
  <2>1. /\ Needle \in Seq(Nat) /\ Needle # <<>> /\ Len(Needle) \in Nat /\ Len(Needle) >= 1
        /\ DOMAIN Needle = 1..Len(Needle)
    BY <1>6, NeedleIs
  <2>2. Data = Us /\ \A i \in 1..Len(Us) : Us[i] < 128 BY <1>4, Context
  <2>3. v.requiredAt + Len(Needle) <= Len(Data) /\ \A k \in DOMAIN Needle : Data[v.requiredAt + k] = Needle[k]
    BY <1>6, Zenon DEF Has, Holds
  <2>4. \A k \in DOMAIN Needle : v.requiredAt + k \in 1..Len(Us) BY <1>4, <1>6, <2>1, <2>2, <2>3
  <2>5. \A k \in DOMAIN Needle : Needle[k] < 128 BY <2>2, <2>3, <2>4, Zenon
  <2> QED BY <1>4, <1>6, <2>5 DEF NeedledBytes
<1>9. low \in Nat BY <1>6
<1>10. ASSUME NEW end \in o..Len(Data), NotBetween(low, end)
      PROVE  SearchKnows([v.phase EXCEPT !.offset = end], v.mark.units, v.mark.half, v.start, v.requiredAt)
  <2>1. end \in 0..Len(Data) BY <1>4
  <2> DEFINE phase == [v.phase EXCEPT !.offset = end]
  <2>2. phase = [is |-> "BoundScan", offset |-> end] BY <1>3
  <2> HIDE DEF phase
  <2>3. SearchKnows(phase, v.mark.units, v.mark.half, v.start, v.requiredAt)
    BY <1>2, <1>10, <2>1, <2>2, Zenon DEF SearchKnows
  <2> QED BY <2>3 DEF phase
<1>11. \A at \in Nat : SearchKnows(In("Candidate"), v.mark.units, v.mark.half, v.start, at)
  <2>1. v.mark.half => v.start = v.mark.units
    <3>1. v.mark = Mark(v.mark.units, FALSE, v.mark.units)
      BY <1>4, StateParts DEF Stand
    <3>2. ~v.mark.half BY <3>1 DEF Mark
    <3> QED BY <3>2
  <2>2. Scanning(v.mark.units) BY <1>2 DEF Beyond
  <2> QED BY <2>1, <2>2, Zenon DEF SearchKnows
<1> HIDE DEF low
<1>12. NotBetween(low, o) /\ \A end \in o..Len(Data) : NotBetween(low, end) =>
        SearchKnows([v.phase EXCEPT !.offset = end], v.mark.units, v.mark.half, v.start, v.requiredAt)
  BY <1>2, <1>10
<1> QED BY <1>1, <1>3, <1>7, <1>8, <1>9, <1>11, <1>12, ChunkKeeps DEF BoundScan

LEMMA BoundPrepareKeeps ==
  ASSUME JobTrue, NEW v, IsGood(v), v.phase.is = "BoundPrepare"
  PROVE  IsGood(BoundPrepare(v))
<1> DEFINE low == v.requiredAt + 1
           scan == [is |-> "BoundScan", offset |-> low]
<1>1. SearchKnows(v.phase, v.mark.units, v.mark.half, v.start, v.requiredAt) /\ v.verified = 0 BY Searching
<1>2. v.phase = [is |-> "BoundPrepare", from |-> low] /\ Beyond(v.mark.units, v.requiredAt) BY <1>1, SearchTags
<1>3. v.requiredAt # UNSET BY <1>2 DEF Beyond
<1>4. Needled /\ v.requiredAt \in Nat /\ Has(v.requiredAt, Needle) BY <1>3, StateParts DEF NoteTrue
<1>5. Len(Needle) \in Nat /\ Len(Needle) >= 1 BY <1>4, NeedleIs
<1>6. v.requiredAt + Len(Needle) <= Len(Data) /\ Len(Data) \in Nat BY <1>4, Context, Zenon DEF Has, Holds
<1>7. low \in 0..Len(Data) BY <1>4, <1>5, <1>6
<1>8. NotBetween(low, low) BY <1>7 DEF NotBetween
<1>9. SearchKnows(scan, v.mark.units, v.mark.half, v.start, v.requiredAt)
  BY <1>2, <1>7, <1>8, Zenon DEF SearchKnows
<1>10. v.phase.from = low BY <1>2
<1> HIDE DEF scan
<1>11. IsGood(Become(v, scan)) BY <1>1, <1>9, PhaseMoves
<1>12. BoundPrepare(v) = Spend(v, Len(Needle), Become(v, scan)) BY <1>10, Zenon DEF BoundPrepare, scan
<1> QED BY <1>5, <1>11, <1>12, SpendKeeps

(* A change of the index of a phase and of the mark.                       *)
LEMMA IndexMoves ==
  ASSUME NEW v, IsGood(v), v.verified = 0, NEW i, NEW p \in 0..Len(Us), NEW mark, mark = Stand(V, Ps, p),
         AdmissionKnows([v.phase EXCEPT !.index = i], p)
  PROVE  IsGood([v EXCEPT !.phase.index = i, !.mark = mark])
<1> DEFINE w == [v EXCEPT !.phase.index = i, !.mark = mark]
           phase == [v.phase EXCEPT !.index = i]
<1>1. IsState(v) BY StateParts
<1>2. /\ IsState(w) /\ w.phase = phase /\ w.budget = v.budget /\ w.used = v.used /\ w.mark = mark
      /\ w.start = v.start /\ w.requiredAt = v.requiredAt /\ w.requiredFrom = v.requiredFrom
      /\ w.verified = v.verified
  BY <1>1 DEF IsState, Fields
<1> HIDE DEF w, phase
<1>3. AdmissionKnows(phase, p) BY DEF phase
<1>4. IsGood(w) BY <1>2, <1>3, ByParts
<1> QED BY <1>4 DEF w

LEMMA SuffixKeeps ==
  ASSUME JobTrue, NEW v, IsGood(v), v.phase.is = "AdmitSuffix"
  PROVE  IsGood(AdmitSuffix(v))
<1> DEFINE p == v.mark.units
           read == PreviousUnit(V, v.mark)
           q == IF p = 0 THEN 0 ELSE p - 1
<1>1. v.verified = 0 /\ AdmissionKnows(v.phase, p) /\ p \in 0..Len(Us) /\ v.mark = Stand(V, Ps, p)
  BY Admitting, StateParts
<1>2. PICK i \in 0..Len(Needle) : Needled /\ v.phase = [is |-> "AdmitSuffix", index |-> i] BY <1>1, AdmissionTags
<1> DEFINE same == read.value = Needle[i]
           then == IF same THEN [v EXCEPT !.phase.index = i - 1, !.mark = read.mark]
                   ELSE [v EXCEPT !.phase = In("AdmitScan"), !.mark = Mark(0, FALSE, 0)]
<1>3. v.phase.index = i /\ [v.phase EXCEPT !.index = i - 1] = [is |-> "AdmitSuffix", index |-> i - 1] BY <1>2
<1>4. AdmitSuffix(v) = IF i = 0 THEN Become(v, In("Start")) ELSE Spend(v, 1, then)
  BY <1>3, Zenon DEF AdmitSuffix
<1>5. Len(Us) \in Nat /\ 0 \in 0..Len(Us) /\ q \in 0..Len(Us)
  <2>1. Len(Us) \in Nat BY Context
  <2> HIDE DEF p
  <2> QED BY <1>1, <2>1
<1>6. read.mark = Stand(V, Ps, q)
  <2>1. PreviousUnit(V, Stand(V, Ps, p)).mark = Stand(V, Ps, IF p = 0 THEN 0 ELSE p - 1) BY <1>1, Reads
  <2>2. read = PreviousUnit(V, Stand(V, Ps, p)) BY <1>1, Zenon
  <2> QED BY <2>1, <2>2
<1>7. Len(Needle) \in Nat BY <1>2, NeedleIs
<1> HIDE DEF p, read, q
<1>8. CASE i = 0
  <2>1. AdmissionKnows(In("Start"), v.mark.units) BY Zenon DEF AdmissionKnows
  <2> QED BY <1>1, <1>4, <1>8, <2>1, PhaseMoves
<1>9. CASE i # 0
  <2>1. CASE same
    <3>1. i - 1 \in 0..Len(Needle) BY <1>7, <1>9
    <3> DEFINE phase == [v.phase EXCEPT !.index = i - 1]
    <3>2. phase = [is |-> "AdmitSuffix", index |-> i - 1] BY <1>3
    <3> HIDE DEF phase
    <3>3. AdmissionKnows(phase, q) BY <1>2, <3>1, <3>2, Zenon DEF AdmissionKnows
    <3>4. IsGood([v EXCEPT !.phase.index = i - 1, !.mark = read.mark])
      <4> DEFINE j == i - 1
      <4>1. AdmissionKnows([v.phase EXCEPT !.index = j], q) BY <3>3 DEF phase
      <4> HIDE DEF j
      <4>2. IsGood([v EXCEPT !.phase.index = j, !.mark = read.mark]) BY <1>1, <1>5, <1>6, <4>1, IndexMoves
      <4> QED BY <4>2 DEF j
    <3>5. IsGood(then) BY <2>1, <3>4, Zenon
    <3> HIDE DEF then
    <3> QED BY <1>4, <1>9, <3>5, SpendKeeps
  <2>2. CASE ~same
    <3>1. NotBefore(0) BY DEF NotBefore
    <3>2. AdmissionKnows(In("AdmitScan"), 0) BY <1>2, <3>1, Zenon DEF AdmissionKnows
    <3> DEFINE mark == Mark(0, FALSE, 0)
    <3>3. mark = Stand(V, Ps, 0) BY ZeroStands, Zenon
    <3> HIDE DEF mark
    <3>4. IsGood([v EXCEPT !.phase = In("AdmitScan"), !.mark = mark]) BY <1>1, <1>5, <3>2, <3>3, MarkMoves
    <3>5. IsGood(then) BY <2>2, <3>4, Zenon DEF mark
    <3> HIDE DEF then
    <3> QED BY <1>4, <1>9, <3>5, SpendKeeps
  <2> QED BY <2>1, <2>2
<1> QED BY <1>8, <1>9

LEMMA ScanKeeps ==
  ASSUME JobTrue, NEW v, IsGood(v), v.phase.is = "AdmitScan"
  PROVE  IsGood(AdmitScan(v))
<1> DEFINE p == v.mark.units
           read == NextUnit(V, v.mark)
           same == read.value = Needle[1]
           probe == [is |-> "AdmitProbe", index |-> 1, scan |-> read.mark]
           then == IF same THEN [v EXCEPT !.mark = read.mark, !.phase = probe]
                   ELSE [v EXCEPT !.mark = read.mark]
<1>1. v.verified = 0 /\ AdmissionKnows(v.phase, p) /\ p \in 0..Len(Us) /\ v.mark = Stand(V, Ps, p)
  BY Admitting, StateParts
<1>2. v.phase = In("AdmitScan") /\ Needled /\ NotBefore(p) BY <1>1, AdmissionTags
<1>3. AdmitScan(v) = IF read.value = None THEN Finished(v) ELSE Spend(v, 1, then) BY Zenon DEF AdmitScan
<1>4. /\ read.value = UnitHere(Us, p) /\ read.mark = Stand(V, Ps, Least(Len(Us), p + 1))
      /\ UnitHere(Us, p) = None <=> p = Len(Us)
      /\ p < Len(Us) => /\ UnitHere(Us, p) = Us[p + 1] /\ Us[p + 1] \in Nat /\ Least(Len(Us), p + 1) = p + 1
                        /\ p + 1 \in 0..Len(Us)
  BY <1>1, Reads, Zenon
<1>5. Len(Us) \in Nat BY Context
<1>6. Len(Needle) \in Nat /\ Len(Needle) >= 1 /\ 1 \in DOMAIN Needle BY <1>2, NeedleIs
<1> HIDE DEF p, read
<1>7. CASE read.value = None
  <2>1. p = Len(Us) BY <1>4, <1>7
  <2>2. Viable = {} BY <1>2, <2>1, NeedleAbsent
  <2> QED BY <1>1, <1>3, <1>7, <2>2, Finishes
<1>8. CASE read.value # None
  <2>1. p < Len(Us) BY <1>1, <1>4, <1>5, <1>8
  <2>2. read.value = Us[p + 1] /\ read.mark = Stand(V, Ps, p + 1) /\ p + 1 \in 0..Len(Us) BY <1>4, <2>1, Zenon
  <2>3. CASE same
    <3>1. 1 \in 1..Len(Needle) /\ p \in 0..(Len(Us) - 1) BY <1>1, <1>5, <1>6, <2>1
    <3>2. probe = [is |-> "AdmitProbe", index |-> 1, scan |-> Stand(V, Ps, p + 1)] BY <2>2, Zenon
    <3> HIDE DEF probe
    <3>3. AdmissionKnows(probe, p + 1) BY <1>2, <3>1, <3>2, Zenon DEF AdmissionKnows
    <3>4. IsGood([v EXCEPT !.phase = probe, !.mark = read.mark]) BY <1>1, <2>2, <3>3, MarkMoves
    <3>5. [v EXCEPT !.mark = read.mark, !.phase = probe] = [v EXCEPT !.phase = probe, !.mark = read.mark]
      BY StateParts DEF IsState, Fields
    <3>6. IsGood(then) BY <2>3, <3>4, <3>5, Zenon
    <3> HIDE DEF then
    <3> QED BY <1>3, <1>8, <3>6, SpendKeeps
  <2>4. CASE ~same
    <3>1. ~Holds(Us, p, Needle) BY <1>6, <2>2, <2>4, Zenon DEF Holds
    <3>2. NotBefore(p + 1)
      <4> SUFFICES ASSUME NEW at \in 0..((p + 1) - 1) PROVE ~Holds(Us, at, Needle) BY DEF NotBefore
      <4>1. at \in 0..(p - 1) \/ at = p BY <1>1
      <4> QED BY <1>2, <3>1, <4>1 DEF NotBefore
    <3>3. AdmissionKnows(v.phase, p + 1) BY <1>2, <3>2, Zenon DEF AdmissionKnows
    <3>4. IsGood([v EXCEPT !.mark = read.mark]) BY <1>1, <2>2, <3>3, MarkStays
    <3>5. IsGood(then) BY <2>4, <3>4, Zenon
    <3> HIDE DEF then
    <3> QED BY <1>3, <1>8, <3>5, SpendKeeps
  <2> QED BY <2>3, <2>4
<1> QED BY <1>7, <1>8

LEMMA ProbeKeeps ==
  ASSUME JobTrue, NEW v, IsGood(v), v.phase.is = "AdmitProbe"
  PROVE  IsGood(AdmitProbe(v))
<1> DEFINE at == v.mark.units
           read == NextUnit(V, v.mark)
<1>1. v.verified = 0 /\ AdmissionKnows(v.phase, at) /\ at \in 0..Len(Us) /\ v.mark = Stand(V, Ps, at)
  BY Admitting, StateParts
<1>2. PICK i \in 1..Len(Needle), p \in 0..(Len(Us) - 1) :
        /\ Needled /\ v.phase = [is |-> "AdmitProbe", index |-> i, scan |-> Stand(V, Ps, p + 1)]
        /\ at = p + i /\ NotBefore(p)
  BY <1>1, AdmissionTags
<1> DEFINE same == read.value = Needle[i + 1]
           on == [v.phase EXCEPT !.index = i + 1]
           then == IF same THEN [v EXCEPT !.phase.index = i + 1, !.mark = read.mark]
                   ELSE Probed(v, v.phase.scan)
<1>3. /\ v.phase.index = i /\ v.phase.scan = Stand(V, Ps, p + 1)
      /\ on = [is |-> "AdmitProbe", index |-> i + 1, scan |-> Stand(V, Ps, p + 1)]
  BY <1>2
<1>4. AdmitProbe(v) = IF i = Len(Needle) THEN Become(v, In("Start")) ELSE Spend(v, 1, then)
  BY <1>3, Zenon DEF AdmitProbe
<1>5. /\ read.value = UnitHere(Us, at) /\ read.mark = Stand(V, Ps, Least(Len(Us), at + 1))
      /\ UnitHere(Us, at) = None <=> at = Len(Us)
      /\ at < Len(Us) => /\ UnitHere(Us, at) = Us[at + 1] /\ Us[at + 1] \in Nat /\ Least(Len(Us), at + 1) = at + 1
                         /\ at + 1 \in 0..Len(Us)
  BY <1>1, Reads, Zenon
<1>6. Len(Us) \in Nat BY Context
<1>7. /\ Needle \in Seq(Nat) /\ Len(Needle) \in Nat /\ DOMAIN Needle = 1..Len(Needle) BY <1>2, NeedleIs
<1> HIDE DEF at, read, on
<1>8. CASE i = Len(Needle)
  <2>1. AdmissionKnows(In("Start"), v.mark.units) BY Zenon DEF AdmissionKnows
  <2> QED BY <1>1, <1>4, <1>8, <2>1, PhaseMoves
<1>9. CASE i # Len(Needle)
  <2>1. i + 1 \in 1..Len(Needle) /\ i + 1 \in DOMAIN Needle /\ Needle[i + 1] \in Nat
    <3> DEFINE m == Len(Needle)
    <3>1. m \in Nat /\ i \in 1..m /\ i # m BY <1>7, <1>9
    <3> HIDE DEF m
    <3>2. i + 1 \in 1..m BY <3>1
    <3>3. i + 1 \in DOMAIN Needle BY <1>7, <3>2 DEF m
    <3> QED BY <1>7, <3>2, <3>3 DEF m
  <2>2. CASE same
    <3>1. read.value # None BY <2>1, <2>2 DEF None
    <3>2. at < Len(Us) BY <1>1, <1>5, <1>6, <3>1
    <3>3. read.mark = Stand(V, Ps, at + 1) /\ at + 1 \in 0..Len(Us) BY <1>5, <3>2, Zenon
    <3>4. at + 1 = p + (i + 1) BY <1>2
    <3>5. AdmissionKnows(on, at + 1) BY <1>2, <1>3, <2>1, <3>4, Zenon DEF AdmissionKnows
    <3>6. IsGood([v EXCEPT !.phase.index = i + 1, !.mark = read.mark])
      <4> DEFINE j == i + 1
                 q == at + 1
      <4>1. AdmissionKnows([v.phase EXCEPT !.index = j], q) BY <3>5 DEF on
      <4>2. q \in 0..Len(Us) /\ read.mark = Stand(V, Ps, q) BY <3>3
      <4> HIDE DEF j, q
      <4>3. IsGood([v EXCEPT !.phase.index = j, !.mark = read.mark]) BY <1>1, <4>1, <4>2, IndexMoves
      <4> QED BY <4>3 DEF j
    <3>7. IsGood(then) BY <2>2, <3>6, Zenon
    <3> HIDE DEF then
    <3> QED BY <1>4, <1>9, <3>7, SpendKeeps
  <2>3. CASE ~same
    <3>1. ~Holds(Us, p, Needle)
      <4> SUFFICES ASSUME Holds(Us, p, Needle) PROVE FALSE OBVIOUS
      <4>1. p + Len(Needle) <= Len(Us) /\ Us[p + (i + 1)] = Needle[i + 1] BY <2>1, Zenon DEF Holds
      <4>2. at < Len(Us) /\ at + 1 = p + (i + 1)
        <5> DEFINE m == Len(Needle)
                   n == Len(Us)
        <5>1. m \in Nat /\ i \in 1..m /\ i # m /\ n \in Nat /\ p \in 0..(n - 1) /\ p + m <= n /\ at = p + i
          BY <1>2, <1>6, <1>7, <1>9, <4>1
        <5> HIDE DEF m, n
        <5>2. at < n /\ at + 1 = p + (i + 1) BY <5>1
        <5> QED BY <5>2 DEF n
      <4>3. read.value = Us[at + 1] BY <1>5, <4>2, Zenon
      <4> QED BY <2>3, <4>1, <4>2, <4>3
    <3>2. NotBefore(p + 1) /\ p + 1 \in 0..Len(Us)
      <4>1. p + 1 \in 0..Len(Us) BY <1>6
      <4> SUFFICES ASSUME NEW x \in 0..((p + 1) - 1) PROVE ~Holds(Us, x, Needle) BY <4>1 DEF NotBefore
      <4>2. x \in 0..(p - 1) \/ x = p OBVIOUS
      <4> QED BY <1>2, <3>1, <4>2 DEF NotBefore
    <3>3. AdmissionKnows(In("AdmitScan"), p + 1) BY <1>2, <3>2, Zenon DEF AdmissionKnows
    <3> DEFINE mark == v.phase.scan
    <3>4. mark = Stand(V, Ps, p + 1) BY <1>3
    <3> HIDE DEF mark
    <3>5. IsGood([v EXCEPT !.phase = In("AdmitScan"), !.mark = mark]) BY <1>1, <3>2, <3>3, <3>4, MarkMoves
    <3>6. IsGood(then) BY <2>3, <3>5, Zenon DEF mark, Probed
    <3> HIDE DEF then
    <3> QED BY <1>4, <1>9, <3>6, SpendKeeps
  <2> QED BY <2>2, <2>3
<1> QED BY <1>8, <1>9

LEMMA SoughtKeeps ==
  ASSUME JobTrue, NEW v, IsGood(v), v.verified = 0, NEW target, Clear(target), NEW available
  PROVE  IsGood(SoughtFrom(v, target, available))
<1> DEFINE work == SeekWork(V, target)
           from == IF target <= V.units \div 2 THEN 0 ELSE V.units
           seek == [is |-> "Seek", target |-> target]
<1>1. target \in 0..Len(Us) /\ Len(Us) \in Nat /\ V.units = Len(Us) BY Context DEF Clear
<1>2. work \in Int BY <1>1 DEF SeekWork, Least
<1>3. \A p \in 0..Len(Us) : CursorAt(V, p) = Stand(V, Ps, p) BY CursorAtIs DEF JobTrue
<1>4. from \in 0..Len(Us) BY <1>1
<1>5. SoughtFrom(v, target, available) =
        IF work = 1 \/ work <= available THEN Spend(v, work, Began(v, CursorAt(V, target)))
        ELSE Spend(v, 1, [v EXCEPT !.phase = seek, !.mark = CursorAt(V, from)])
  BY Zenon DEF SoughtFrom
<1>6. IsGood(Began(v, CursorAt(V, target))) BY <1>1, <1>3, BeganKeeps
<1> HIDE DEF from
<1>7. IsGood([v EXCEPT !.phase = seek, !.mark = CursorAt(V, from)])
  <2>1. \A half : SearchKnows(seek, from, half, v.start, v.requiredAt) BY <1>1, Zenon DEF SearchKnows
  <2> HIDE DEF seek
  <2>2. CursorAt(V, from) = Stand(V, Ps, from) BY <1>3, <1>4
  <2> QED BY <1>4, <2>1, <2>2, MarkMoves
<1> HIDE DEF seek, work
<1>8. CASE work = 1 \/ work <= available
  <2>1. SoughtFrom(v, target, available) = Spend(v, work, Began(v, CursorAt(V, target))) BY <1>5, <1>8, Zenon
  <2> QED BY <1>2, <1>6, <2>1, SpendKeeps
<1>9. CASE ~(work = 1 \/ work <= available)
  <2>1. SoughtFrom(v, target, available) = Spend(v, 1, [v EXCEPT !.phase = seek, !.mark = CursorAt(V, from)])
    BY <1>5, <1>9, Zenon
  <2> QED BY <1>7, <2>1, SpendKeeps
<1> QED BY <1>8, <1>9

LEMMA StartKeeps ==
  ASSUME JobTrue, NEW v, IsGood(v), v.phase.is = "Start", NEW available
  PROVE  IsGood(Start(v, available))
<1> DEFINE late == job.from < Earliest
           none == (P.anchored /\ job.from >= 2) \/ (late /\ OneStart)
           paid == Spend(v, 1, v)
<1>1. v.verified = 0 /\ IsState(v) BY Admitting, StateParts
<1>2. Start(v, available) =
        IF none THEN Spend(v, 1, Finished(v))
        ELSE IF late THEN IF paid.phase.is = "WorkLimit" THEN paid ELSE SoughtFrom(paid, Earliest, available)
        ELSE SoughtFrom(v, job.from, available)
  BY Zenon DEF Start
<1>3. job.from \in Nat /\ job.from <= Len(Us) /\ Len(Us) \in Nat BY Context
<1>4. Earliest \in 0..Len(Us) /\ \A q \in Viable : Earliest <= q BY NotBeforeEarliest
<1>5. /\ Viable \subseteq job.matches /\ job.matches \subseteq 0..Len(Us)
      /\ \A q \in Viable : job.from <= q /\ (OneStart => q = job.from)
  BY ViableIn
<1>6. CASE none
  <2>1. Viable = {}
    <3> SUFFICES ASSUME NEW q \in Viable PROVE FALSE OBVIOUS
    <3>1. q \in 0..Len(Us) /\ job.from <= q /\ Earliest <= q /\ (OneStart => q = job.from) BY <1>4, <1>5
    <3>2. P.anchored => q = 0 BY <1>5 DEF JobTrue, ClaimsHold
    <3> QED BY <1>3, <1>4, <1>6, <3>1, <3>2
  <2>2. IsGood(Finished(v)) BY <1>1, <2>1, Finishes
  <2>3. Start(v, available) = Spend(v, 1, Finished(v)) BY <1>2, <1>6, Zenon
  <2> QED BY <2>2, <2>3, SpendKeeps
<1>7. CASE ~none /\ late
  <2>1. IsGood(paid) BY SpendKeeps
  <2>2. paid.phase.is = "WorkLimit" \/ paid.verified = 0 BY <1>1, Pays, Zenon
  <2> HIDE DEF paid
  <2>3. Start(v, available) = IF paid.phase.is = "WorkLimit" THEN paid ELSE SoughtFrom(paid, Earliest, available)
    BY <1>2, <1>7, Zenon
  <2>4. job.from <= Earliest /\ ~OneStart BY <1>3, <1>4, <1>7
  <2>5. Clear(Earliest) BY <1>4, <2>4, Zenon DEF Clear
  <2>6. CASE paid.phase.is = "WorkLimit" BY <2>1, <2>3, <2>6
  <2>7. CASE paid.phase.is # "WorkLimit"
    <3>1. paid.verified = 0 BY <2>2, <2>7
    <3>2. IsGood(SoughtFrom(paid, Earliest, available)) BY <2>1, <2>5, <3>1, SoughtKeeps
    <3> QED BY <2>3, <2>7, <3>2
  <2> QED BY <2>6, <2>7
<1>8. CASE ~none /\ ~late
  <2>1. Start(v, available) = SoughtFrom(v, job.from, available) BY <1>2, <1>8, Zenon
  <2>2. Clear(job.from) BY <1>3, <1>5 DEF Clear
  <2> QED BY <1>1, <2>1, <2>2, SoughtKeeps
<1> QED BY <1>6, <1>7, <1>8

(* A walk by units stays on places.                                        *)
Toward(target, mark) == (IF mark.units < target THEN NextUnit(V, mark) ELSE PreviousUnit(V, mark)).mark
Places == {Stand(V, Ps, q) : q \in 0..Len(Us)}

LEMMA TowardStands ==
  ASSUME JobTrue, NEW target, NEW mark \in Places
  PROVE  Toward(target, mark) \in Places
<1>1. PICK q \in 0..Len(Us) : mark = Stand(V, Ps, q) BY DEF Places
<1>2. Len(Us) \in Nat BY Context
<1>3. NextUnit(V, mark).mark \in Places
  <2>1. NextUnit(V, mark).mark = Stand(V, Ps, Least(Len(Us), q + 1)) BY <1>1, Reads
  <2>2. Least(Len(Us), q + 1) \in 0..Len(Us) BY <1>2 DEF Least
  <2> QED BY <2>1, <2>2 DEF Places
<1>4. PreviousUnit(V, mark).mark \in Places
  <2> DEFINE p == IF q = 0 THEN 0 ELSE q - 1
  <2>1. PreviousUnit(V, mark).mark = Stand(V, Ps, p) BY <1>1, Reads
  <2>2. p \in 0..Len(Us) BY <1>2
  <2> HIDE DEF p
  <2> QED BY <2>1, <2>2 DEF Places
<1> QED BY <1>3, <1>4, Zenon DEF Toward

LEMMA WalkedIs ==
  ASSUME JobTrue, NEW mark \in Places, NEW target, NEW steps \in Nat
  PROVE  Walked(mark, target, steps) \in Places
<1> DEFINE D == 0..steps
           S == Places
           Body(f, k) == IF k = 0 THEN mark ELSE Toward(target, f[k - 1])
           stop == {0}
           measure == [k \in D |-> k]
           leaf == [k \in D |-> mark]
           next == [k \in D |-> IF k = 0 THEN 0 ELSE k - 1]
           step == [k \in D |-> [m \in S |-> Toward(target, m)]]
<1>1. Grounded(D, S, steps, measure, stop, leaf, next, step)
  <2>1. \A m \in S : Toward(target, m) \in S BY TowardStands
  <2> HIDE DEF S
  <2>2. measure \in [D -> 0..steps] /\ stop \in SUBSET D OBVIOUS
  <2>3. leaf \in [D -> S] BY DEF S
  <2>4. next \in [D -> D] OBVIOUS
  <2>5. step \in [D -> [S -> S]] BY <2>1
  <2>6. \A k \in D : k \notin stop => measure[next[k]] < measure[k] OBVIOUS
  <2> HIDE DEF D, stop, measure, leaf, next, step
  <2> QED BY <2>2, <2>3, <2>4, <2>5, <2>6 DEF Grounded
<1>2. PICK f \in [D -> S] : Unfolds(f, D, stop, leaf, next, step)
  <2> HIDE DEF D, stop, measure, leaf, next, step, S
  <2> QED BY <1>1, RecursionExists
<1>3. f = [k \in D |-> Body(f, k)]
  <2>1. ASSUME NEW k \in D PROVE f[k] = Body(f, k)
    <3>1. f[k] = IF k \in stop THEN leaf[k] ELSE step[k][f[next[k]]]
      <4> HIDE DEF stop, leaf, next, step, D
      <4> QED BY <1>2 DEF Unfolds
    <3>2. CASE k = 0 BY <3>1, <3>2
    <3>3. CASE k # 0
      <4>1. next[k] = k - 1 /\ k - 1 \in D BY <3>3
      <4>2. f[k - 1] \in S
        <5> HIDE DEF D, S
        <5> QED BY <4>1
      <4>3. f[k] = step[k][f[k - 1]]
        <5>1. k \notin stop BY <3>3
        <5> HIDE DEF stop, leaf, next, step, D
        <5> QED BY <3>1, <4>1, <5>1, Zenon
      <4>4. step[k][f[k - 1]] = Toward(target, f[k - 1])
        <5> HIDE DEF S, D
        <5> QED BY <4>2
      <4> QED BY <3>3, <4>3, <4>4, Zenon
    <3> QED BY <3>2, <3>3
  <2> HIDE DEF Body, D, S
  <2> QED BY <2>1
<1> DEFINE W == CHOOSE g : g = [k \in D |-> Body(g, k)]
<1>4. Walked(mark, target, steps) = W[steps] BY Zenon DEF Walked, Toward
<1>5. W = [k \in D |-> Body(W, k)]
  <2> HIDE DEF Body, D, S
  <2> QED BY <1>3
<1> HIDE DEF W
<1>6. \A k \in D : W[k] = Body(W, k)
  <2> HIDE DEF Body, D
  <2> QED BY <1>5
<1> DEFINE Bad == {k \in D : W[k] \notin S}
<1>7. Bad = {}
  <2> SUFFICES ASSUME Bad # {} PROVE FALSE OBVIOUS
  <2>1. Bad \in SUBSET Nat OBVIOUS
  <2>2. PICK k \in Bad : \A j \in Bad : k <= j
    <3> HIDE DEF Bad
    <3> QED BY <2>1, LeastOf
  <2>3. k \in D /\ W[k] \notin S OBVIOUS
  <2>4. W[k] = IF k = 0 THEN mark ELSE Toward(target, W[k - 1]) BY <1>6, <2>3
  <2>5. k # 0 BY <2>3, <2>4
  <2>6. k - 1 \in D /\ ~(k <= k - 1) BY <2>3, <2>5
  <2>7. W[k - 1] \in S BY <2>2, <2>6
  <2>8. Toward(target, W[k - 1]) \in S
    <3> DEFINE m == W[k - 1]
    <3>1. m \in Places BY <2>7
    <3> HIDE DEF m
    <3>2. Toward(target, m) \in Places BY <3>1, TowardStands
    <3> QED BY <3>2 DEF m
  <2> QED BY <2>3, <2>4, <2>5, <2>8, Zenon
<1>8. steps \in D OBVIOUS
<1> QED BY <1>4, <1>7, <1>8

LEMMA SeekKeeps ==
  ASSUME JobTrue, NEW v, IsGood(v), v.phase.is = "Seek", NEW available \in Int
  PROVE  IsGood(Seek(v, available))
<1>1. SearchKnows(v.phase, v.mark.units, v.mark.half, v.start, v.requiredAt) /\ v.verified = 0 BY Searching
<1>2. PICK t \in 0..Len(Us) : v.phase = [is |-> "Seek", target |-> t] /\ Clear(t) BY <1>1, SearchTags
<1> DEFINE far == Distance(v.mark.units, t)
           steps == IF far = 0 THEN 0 ELSE Most(1, Least(Least(far, Most(1, available)), v.budget))
           mark == Walked(v.mark, t, steps)
           then == IF mark.units = t THEN Began(v, mark) ELSE [v EXCEPT !.mark = mark]
<1>3. v.phase.target = t BY <1>2
<1>4. Seek(v, available) = Spend(v, steps, then) BY <1>3, Zenon DEF Seek
<1>5. v.budget \in Nat /\ v.mark.units \in 0..Len(Us) /\ v.mark = Stand(V, Ps, v.mark.units) BY StateParts
<1>6. Len(Us) \in Nat BY Context
<1>7. steps \in Nat
  <2>1. far \in Nat BY <1>5, <1>6 DEF Distance
  <2> HIDE DEF far
  <2> QED BY <1>5, <2>1 DEF Most, Least
<1>8. v.mark \in Places BY <1>5 DEF Places
<1> HIDE DEF steps
<1>9. PICK q \in 0..Len(Us) : mark = Stand(V, Ps, q) BY <1>7, <1>8, WalkedIs DEF Places
<1> HIDE DEF mark
<1>10. mark.units = q BY <1>9, StandIs
<1>11. IsGood(then)
  <2>1. CASE mark.units = t
    <3>1. IsGood(Began(v, mark)) BY <1>1, <1>2, <1>9, <1>10, <2>1, BeganKeeps
    <3> QED BY <2>1, <3>1, Zenon
  <2>2. CASE mark.units # t
    <3>1. SearchKnows(v.phase, q, mark.half, v.start, v.requiredAt) BY <1>2, Zenon DEF SearchKnows
    <3>2. IsGood([v EXCEPT !.mark = mark]) BY <1>1, <1>9, <3>1, MarkStays
    <3> QED BY <2>2, <3>2, Zenon
  <2> QED BY <2>1, <2>2
<1> HIDE DEF then
<1> QED BY <1>4, <1>7, <1>11, SpendKeeps
-----------------------------------------------------------------------------
(* A part of a multiple.                                                   *)
LEMMA Multiples ==
  ASSUME NEW n \in Nat \ {0}
  PROVE  /\ \A x \in Nat : x \div n \in Nat /\ n * (x \div n) \in Nat /\ n * (x \div n) <= x
         /\ \A k \in Nat : n * k \in Nat /\ (n * k) \div n = k
         /\ \A k \in Nat : \A d \in 0..(n * k - 1) :
              d \div n \in 0..(k - 1) /\ d % n \in 0..(n - 1) /\ d = n * (d \div n) + (d % n)
         /\ \A k \in Nat : \A w \in 0..(k - 1) : n * w \in Nat /\ n * w + n <= n * k
<1>1. ASSUME NEW x \in Nat
      PROVE  x \div n \in Nat /\ n * (x \div n) \in Nat /\ n * (x \div n) <= x /\ x % n \in 0..(n - 1)
             /\ x = n * (x \div n) + (x % n)
  OBVIOUS
<1>2. ASSUME NEW k \in Nat PROVE n * k \in Nat /\ (n * k) \div n = k
  OBVIOUS
<1>3. ASSUME NEW k \in Nat, NEW w \in 0..(k - 1) PROVE n * w \in Nat /\ n * w + n <= n * k
  <2>1. PICK e \in Nat : k = w + 1 + e
    <3>1. k - w - 1 \in Nat /\ k = w + 1 + (k - w - 1) OBVIOUS
    <3> QED BY <3>1
  <2>2. n * k = n * w + n + n * e BY <2>1
  <2>3. n * w \in Nat /\ n * e \in Nat BY <2>1
  <2> QED BY <2>2, <2>3
<1>4. ASSUME NEW k \in Nat, NEW d \in 0..(n * k - 1)
      PROVE  d \div n \in 0..(k - 1) /\ d % n \in 0..(n - 1) /\ d = n * (d \div n) + (d % n)
  <2>1. n * k \in Nat BY <1>2
  <2>2. d \in Nat /\ d < n * k BY <2>1
  <2>3. d \div n \in Nat /\ d % n \in 0..(n - 1) /\ d = n * (d \div n) + (d % n) BY <1>1, <2>2
  <2>4. d \div n < k
    <3> SUFFICES ASSUME k <= d \div n PROVE FALSE BY <2>3
    <3> DEFINE w == d \div n
    <3>1. w \in Nat /\ k <= w BY <2>3
    <3>2. k \in 0..((w + 1) - 1) /\ w + 1 \in Nat BY <3>1
    <3> HIDE DEF w
    <3>3. n * k + n <= n * (w + 1) BY <1>3, <3>2
    <3>4. n * (w + 1) = n * w + n BY <3>1
    <3>5. n * w \in Nat BY <3>1
    <3>6. n * w <= d BY <1>1, <2>2 DEF w
    <3> QED BY <2>1, <2>2, <3>3, <3>4, <3>5, <3>6
  <2> QED BY <2>3, <2>4
<1> QED BY <1>1, <1>2, <1>3, <1>4

(* How far blocks and words go.                                            *)
LEMMA WordsAre ==
  ASSUME Len(Data) \in Nat, NEW at \in Nat, NEW limit \in Nat, at + limit <= Len(Data), limit >= 1
  PROVE  \E k \in Nat : /\ InBlocks(at, limit) \in 0..limit /\ InWords(at, limit) = InBlocks(at, limit) + Word * k
                        /\ Word * k \in Nat /\ InWords(at, limit) <= limit
                        /\ at + InWords(at, limit) + 1 <= Len(Data)
<1>1. Word \in Nat \ {0} /\ Block \in Nat \ {0} /\ BlockMin \in Nat BY ScanConstants
<1> DEFINE n == Len(Data)
           blocks == InBlocks(at, limit)
           x == Least(limit, n - at - 1)
           y == Least(limit - blocks, n - at - blocks - 1)
           k == y \div Word
<1>2. n \in Nat /\ at + limit <= n OBVIOUS
<1>3. blocks = IF limit < BlockMin THEN 0 ELSE Block * (x \div Block) BY Zenon DEF InBlocks
<1>4. InWords(at, limit) = blocks + Word * k BY Zenon DEF InWords
<1> HIDE DEF n, blocks
<1>5. x \in Nat /\ x <= limit /\ x <= n - at - 1 BY <1>2 DEF Least
<1> HIDE DEF x
<1>6. blocks \in Nat /\ blocks <= x
  <2>1. x \div Block \in Nat /\ Block * (x \div Block) \in Nat /\ Block * (x \div Block) <= x
    BY <1>1, <1>5, Multiples
  <2> QED BY <1>3, <1>5, <2>1
<1>7. y \in Nat /\ y <= limit - blocks /\ y <= n - at - blocks - 1 BY <1>2, <1>5, <1>6 DEF Least
<1> HIDE DEF y
<1>8. k \in Nat /\ Word * k \in Nat /\ Word * k <= y BY <1>1, <1>7, Multiples
<1> HIDE DEF k
<1>9. blocks + Word * k <= limit /\ at + (blocks + Word * k) + 1 <= n /\ blocks \in 0..limit
  <2> DEFINE m == Word * k
  <2>1. m \in Nat /\ m <= y BY <1>8
  <2> HIDE DEF m
  <2>2. blocks + m <= limit /\ at + (blocks + m) + 1 <= n /\ blocks \in 0..limit
    BY <1>2, <1>5, <1>6, <1>7, <2>1
  <2> QED BY <2>2 DEF m
<1> QED BY <1>4, <1>8, <1>9 DEF n, blocks

LEMMA LanesAre ==
  ASSUME NEW base \in Nat, NEW wanted
  PROVE  /\ \A place \in Lanes(base, wanted) : \E lane \in 0..(Word - 1) : place = base + lane
         /\ \A lane \in 0..(Word - 1) : Byte(base + lane) = wanted => base + lane \in Lanes(base, wanted)
<1> DEFINE other == IF wanted % 2 = 0 THEN wanted + 1 ELSE wanted - 1
           marked(lane) == \E k \in 0..lane : /\ Byte(base + k) = wanted
                                               /\ \A i \in (k + 1)..lane : Byte(base + i) = other
           lanes == {lane \in 0..(Word - 1) : marked(lane)}
<1>1. Lanes(base, wanted) = {base + lane : lane \in lanes} BY Zenon DEF Lanes
<1>2. ASSUME NEW lane \in 0..(Word - 1), Byte(base + lane) = wanted PROVE lane \in lanes
  <2>1. Word \in Nat /\ lane \in Nat BY ScanConstants
  <2>2. lane \in 0..lane /\ (lane + 1)..lane = {} BY <2>1
  <2> HIDE DEF other
  <2> QED BY <1>2, <2>2
<1> HIDE DEF marked
<1> QED BY <1>1, <1>2

LEMMA MarkedIs ==
  ASSUME NEW bases, NEW place
  PROVE  place \in MarkedFrom(bases) <=>
           \E base \in bases, pair \in P.pairs :
             place \in Lanes(base, pair[1]) /\ place + 1 \in Lanes(base + 1, pair[2])
<1> DEFINE found(base, pair) == {x \in Lanes(base, pair[1]) : x + 1 \in Lanes(base + 1, pair[2])}
<1>1. MarkedFrom(bases) = UNION {found(base, pair) : base \in bases, pair \in P.pairs} BY DEF MarkedFrom
<1>2. \A base, pair : place \in found(base, pair) <=>
        place \in Lanes(base, pair[1]) /\ place + 1 \in Lanes(base + 1, pair[2])
  OBVIOUS
<1> HIDE DEF found
<1>3. place \in MarkedFrom(bases) <=> \E base \in bases, pair \in P.pairs : place \in found(base, pair)
  BY <1>1
<1> QED BY <1>2, <1>3

(* The first marked place of some, and no place that begins a pair is      *)
(* before it.                                                              *)
LEMMA FirstMarkedIs ==
  ASSUME Len(Data) \in Nat, P.pairs \in SUBSET (Nat \X Nat),
         NEW at \in Nat, NEW limit \in Nat, at + limit <= Len(Data), limit >= 1
  PROVE  /\ FirstMarked(at, limit) = UNSET => \A q \in at..(at + limit - 1) : ~CandidateAt(q)
         /\ FirstMarked(at, limit) # UNSET =>
              /\ FirstMarked(at, limit) \in at..(at + limit - 1)
              /\ \A q \in at..(FirstMarked(at, limit) - 1) : ~CandidateAt(q)
<1> DEFINE blocks == InBlocks(at, limit)
           words == InWords(at, limit)
           bases == {at + blocks + Word * w : w \in 0..((words - blocks) \div Word - 1)}
           marked == MarkedFrom(bases)
           exact == {place \in at..(at + limit - 1) : CandidateAt(place)}
           places == IF P.pairs = {} THEN exact
                     ELSE marked \cup {place \in exact : place < at + blocks \/ place >= at + words}
           first == FirstMarked(at, limit)
<1>1. first = IF places = {} THEN UNSET ELSE Lowest(places) BY Zenon DEF FirstMarked
<1>2. PICK k \in Nat : /\ blocks \in 0..limit /\ words = blocks + Word * k /\ Word * k \in Nat /\ words <= limit
                       /\ at + words + 1 <= Len(Data)
  BY WordsAre
<1>3. Word \in Nat \ {0} /\ Len(Data) \in Nat BY ScanConstants
<1> HIDE DEF blocks, words
<1>4. bases = {at + blocks + Word * w : w \in 0..(k - 1)}
  <2>1. words - blocks = Word * k
    <3> DEFINE m == Word * k
    <3>1. m \in Nat /\ words = blocks + m /\ blocks \in Nat BY <1>2
    <3> HIDE DEF m
    <3>2. words - blocks = m BY <3>1
    <3> QED BY <3>2 DEF m
  <2>2. (words - blocks) \div Word = k BY <1>3, <2>1, Multiples
  <2> QED BY <2>2, Zenon
<1>5. ASSUME NEW w \in 0..(k - 1), NEW lane \in 0..(Word - 1)
      PROVE  at + blocks + Word * w \in Nat /\ (at + blocks + Word * w) + lane \in at..(at + limit - 1)
  <2> DEFINE m == Word * w
             n == Word * k
  <2>1. m \in Nat /\ m + Word <= n BY <1>3, Multiples
  <2>2. n \in Nat /\ words = blocks + n BY <1>2
  <2> HIDE DEF m, n
  <2>3. at + blocks + m \in Nat /\ (at + blocks + m) + lane \in at..(at + limit - 1)
    BY <1>2, <1>3, <2>1, <2>2
  <2> QED BY <2>3 DEF m
<1> HIDE DEF bases
<1>6. \A base \in bases : base \in Nat
  <2>1. 0 \in 0..(Word - 1) BY <1>3
  <2>2. \A w \in 0..(k - 1) : at + blocks + Word * w \in Nat BY <1>5, <2>1
  <2> QED BY <1>4, <2>2
<1>7. marked \subseteq at..(at + limit - 1)
  <2> SUFFICES ASSUME NEW place \in marked PROVE place \in at..(at + limit - 1) OBVIOUS
  <2>1. PICK base \in bases, pair \in P.pairs : place \in Lanes(base, pair[1])
    <3>1. place \in MarkedFrom(bases) OBVIOUS
    <3> QED BY <3>1, MarkedIs
  <2>2. PICK lane \in 0..(Word - 1) : place = base + lane BY <1>6, <2>1, LanesAre
  <2>3. PICK w \in 0..(k - 1) : base = at + blocks + Word * w BY <1>4
  <2> QED BY <1>5, <2>2, <2>3
<1>8. ASSUME NEW q \in at..(at + limit - 1), CandidateAt(q) PROVE q \in places
  <2>1. q \in exact BY <1>8
  <2>2. CASE P.pairs = {} BY <2>1, <2>2
  <2>3. CASE P.pairs # {} /\ (q < at + blocks \/ q >= at + words) BY <2>1, <2>3
  <2>4. CASE P.pairs # {} /\ ~(q < at + blocks \/ q >= at + words)
    <3>1. PICK pair \in P.pairs : Has(q, pair) BY <1>8, <2>4 DEF CandidateAt
    <3>2. pair \in Nat \X Nat OBVIOUS
    <3>3. pair = <<pair[1], pair[2]>> BY <3>2
    <3>4. Byte(q) = pair[1] /\ Byte(q + 1) = pair[2]
      <4>1. 1 \in DOMAIN pair /\ 2 \in DOMAIN pair BY <3>3
      <4>2. Data[q + 1] = pair[1] /\ Data[q + 2] = pair[2] BY <3>1, <4>1, Zenon DEF Has, Holds
      <4>3. (q + 1) + 1 = q + 2 OBVIOUS
      <4> QED BY <4>2, <4>3 DEF Byte
    <3> DEFINE d == q - at - blocks
               w == d \div Word
               lane == d % Word
               base == at + blocks + Word * w
    <3>5. d \in 0..(Word * k - 1)
      <4> DEFINE n == Word * k
      <4>1. n \in Nat /\ words = blocks + n BY <1>2
      <4> HIDE DEF n
      <4>2. d \in 0..(n - 1) BY <1>2, <2>4, <4>1
      <4> QED BY <4>2 DEF n
    <3>6. w \in 0..(k - 1) /\ lane \in 0..(Word - 1) /\ d = Word * w + lane
      <4> HIDE DEF d
      <4> QED BY <1>3, <3>5, Multiples
    <3>7. q \in Nat /\ q = base + lane /\ base \in Nat
      <4> DEFINE m == Word * w
      <4>1. m \in Nat /\ d = m + lane BY <1>3, <3>6, Multiples
      <4>2. lane \in Int BY <1>3, <3>6
      <4> HIDE DEF m, w, lane
      <4>3. q = (at + blocks + m) + lane /\ at + blocks + m \in Nat BY <1>2, <4>1, <4>2
      <4> QED BY <4>3 DEF m
    <3>8. base \in bases BY <1>4, <3>6
    <3> HIDE DEF base, lane
    <3>9. q \in Lanes(base, pair[1]) BY <3>4, <3>6, <3>7, LanesAre
    <3>10. q + 1 \in Lanes(base + 1, pair[2])
      <4>1. base + 1 \in Nat /\ q + 1 = (base + 1) + lane BY <1>3, <3>6, <3>7
      <4> DEFINE up == base + 1
      <4>2. up \in Nat /\ q + 1 = up + lane BY <4>1
      <4> HIDE DEF up
      <4>3. q + 1 \in Lanes(up, pair[2]) BY <3>4, <3>6, <4>2, LanesAre
      <4> QED BY <4>3 DEF up
    <3>11. q \in marked BY <3>8, <3>9, <3>10, MarkedIs
    <3> HIDE DEF marked, exact
    <3> QED BY <2>4, <3>11
  <2> QED BY <2>2, <2>3, <2>4
<1>9. places \subseteq at..(at + limit - 1)
  <2> HIDE DEF marked
  <2> QED BY <1>7
<1>10. places \in SUBSET Nat BY <1>9
<1> HIDE DEF places, first
<1>11. places # {} => first \in places /\ \A q \in places : first <= q
  BY <1>1, <1>10, LowestIs
<1>12. CASE places = {}
  <2>1. first = UNSET BY <1>1, <1>12
  <2> QED BY <1>8, <1>12, <2>1 DEF first
<1>13. CASE places # {}
  <2>1. first \in at..(at + limit - 1) /\ first # UNSET
    <3>1. first \in at..(at + limit - 1) BY <1>9, <1>11, <1>13, Zenon
    <3>2. first \in Nat BY <3>1
    <3> QED BY <3>1, <3>2 DEF UNSET
  <2>2. \A q \in at..(first - 1) : ~CandidateAt(q)
    <3> SUFFICES ASSUME NEW q \in at..(first - 1), CandidateAt(q) PROVE FALSE OBVIOUS
    <3>1. q \in at..(at + limit - 1) /\ ~(first <= q) BY <2>1
    <3>2. q \in places BY <1>8, <3>1
    <3> QED BY <1>11, <1>13, <3>1, <3>2
  <2> QED BY <2>1, <2>2 DEF first
<1> QED BY <1>12, <1>13

(* What a scan goes by holds of every start a match begins at.             *)
LEMMA CandidateIs ==
  ASSUME JobTrue, V.kind = "ascii", Claims(P.first), NEW q \in Viable
  PROVE  q \in 0..(Len(Data) - 1) /\ CandidateAt(q)
<1>1. Data = Us /\ (\A i \in 1..Len(Us) : Us[i] < 128) /\ Len(Us) \in Nat BY Context
<1>2. /\ q \in 0..(Len(Us) - 1) /\ Us[q + 1] \in Nat
      /\ Us[q + 1] >= 128 \/ Admits(P.first, Us[q + 1])
  BY FirstClaimed
<1>3. q + 1 \in 1..Len(Us) BY <1>1, <1>2
<1>4. Us[q + 1] < 128 BY <1>1, <1>3
<1>5. Admits(P.first, Byte(q)) BY <1>1, <1>2, <1>4 DEF Byte
<1>6. q \in job.matches BY ViableIn
<1>7. P.pairs # {} => \E pair \in P.pairs : Has(q, pair) BY <1>1, <1>6 DEF JobTrue, ClaimsHold, Has
<1> QED BY <1>1, <1>2, <1>5, <1>7, Zenon DEF CandidateAt

LEMMA AlternativesAre ==
  ASSUME JobTrue, NEW at
  PROVE  /\ Alternatives(at).cost \in Int
         /\ Alternatives(at).is = \E k \in DOMAIN P.entry : P.entry[k] # <<>> /\ Has(at, P.entry[k])
<1> DEFINE there == {k \in DOMAIN P.entry : P.entry[k] # <<>> /\ Has(at, P.entry[k])}
           last == IF there = {} THEN Len(P.entry) ELSE Lowest(there)
           compared == {one \in (1..last) \X (1..MostCompared) :
                          one[2] <= Len(P.entry[one[1]]) /\ Has(at, SubSeq(P.entry[one[1]], 1, one[2] - 1))}
<1>1. Alternatives(at) = [cost |-> last + Cardinality(compared), is |-> there # {}] BY Zenon DEF Alternatives
<1>2. P.entry \in Seq(Seq(Nat)) BY DEF JobTrue, ClaimsAre
<1>3. there \in SUBSET Nat /\ Len(P.entry) \in Nat BY <1>2
<1>4. there # {} <=> \E k \in DOMAIN P.entry : P.entry[k] # <<>> /\ Has(at, P.entry[k]) OBVIOUS
<1> HIDE DEF there
<1>5. last \in Nat BY <1>3, LowestIs
<1>6. MostCompared \in Nat BY ScanConstants
<1> HIDE DEF last
<1>7. IsFiniteSet((1..last) \X (1..MostCompared))
  <2>1. IsFiniteSet(1..last) /\ IsFiniteSet(1..MostCompared) BY <1>5, <1>6, FS_Interval
  <2> QED BY <2>1, FS_Product
<1>8. compared \subseteq (1..last) \X (1..MostCompared) OBVIOUS
<1> HIDE DEF compared
<1>9. Cardinality(compared) \in Nat
  <2>1. IsFiniteSet(compared) BY <1>7, <1>8, FS_Subset
  <2> QED BY <2>1, FS_CardinalityType
<1>10. last + Cardinality(compared) \in Int BY <1>5, <1>9
<1> DEFINE cost == last + Cardinality(compared)
           is == there # {}
<1> HIDE DEF cost, is
<1>11. Alternatives(at).cost = cost /\ Alternatives(at).is = is
  <2>1. Alternatives(at) = [cost |-> cost, is |-> is] BY <1>1 DEF cost, is
  <2> QED BY <2>1
<1> QED BY <1>4, <1>10, <1>11, Zenon DEF cost, is

LEMMA LeadsAre ==
  ASSUME JobTrue, V.kind = "ascii", NEW at \in Nat
  PROVE  /\ Leads(at).cost \in Int /\ Leads(at).is \in BOOLEAN /\ Leads(at).fits \in BOOLEAN
         /\ at \in Viable => Leads(at).is
         /\ ~Leads(at).fits => \A q \in Viable : q < at
         /\ Leads(at).is /\ Leads(at).fits /\ Len(P.runs) = 1 => Has(at, P.runs[1])
<1>1. Data = Us /\ Len(Us) \in Nat BY Context
<1>2. P.runs \in Seq(Seq(Nat)) BY DEF JobTrue, ClaimsAre
<1>3. \A q \in Viable :
        /\ q \in Nat
        /\ P.runs # <<>> => \E k \in DOMAIN P.runs : Has(q, P.runs[k])
        /\ Len(P.runs) > 1 => \E k \in DOMAIN P.entry : P.entry[k] # <<>> /\ Has(q, P.entry[k])
  BY <1>1, ViableIn DEF JobTrue, ClaimsHold, Has
<1>4. CASE P.runs = <<>>
  <2>1. Leads(at) = [cost |-> 0, is |-> TRUE, fits |-> TRUE] BY <1>4, Zenon DEF Leads
  <2>2. Len(P.runs) # 1 BY <1>4
  <2> QED BY <2>1, <2>2
<1>5. CASE P.runs # <<>> /\ Len(P.runs) > 1
  <2> DEFINE found == Alternatives(at)
  <2>1. Leads(at) = [cost |-> found.cost, is |-> found.is, fits |-> TRUE] BY <1>5, Zenon DEF Leads
  <2>2. found.cost \in Int /\ found.is = \E k \in DOMAIN P.entry : P.entry[k] # <<>> /\ Has(at, P.entry[k])
    BY AlternativesAre
  <2>3. found.is \in BOOLEAN BY <2>2, Zenon
  <2>4. at \in Viable => found.is BY <1>3, <1>5, <2>2, Zenon
  <2>5. Len(P.runs) # 1
    <3> DEFINE m == Len(P.runs)
    <3>1. m \in Nat /\ m > 1 BY <1>2, <1>5
    <3> HIDE DEF m
    <3>2. m # 1 BY <3>1
    <3> QED BY <3>2 DEF m
  <2> HIDE DEF found
  <2>6. Leads(at).cost = found.cost /\ Leads(at).is = found.is /\ Leads(at).fits = TRUE BY <2>1
  <2> QED BY <2>2, <2>3, <2>4, <2>5, <2>6, Zenon
<1>6. CASE P.runs # <<>> /\ ~(Len(P.runs) > 1)
  <2> DEFINE run == P.runs[1]
             fits == ~(at + Len(run) > Len(Data))
  <2>1. Len(P.runs) = 1 /\ DOMAIN P.runs = {1} /\ run \in Seq(Nat)
    <3> DEFINE runs == P.runs
               m == Len(runs)
    <3>1. runs \in Seq(Seq(Nat)) /\ runs # <<>> /\ ~(m > 1) /\ m \in Nat BY <1>2, <1>6
    <3> HIDE DEF runs
    <3>2. Len(runs) = 1 /\ DOMAIN runs = 1..Len(runs)
      <4>1. m # 0 /\ DOMAIN runs = 1..m BY <3>1
      <4> HIDE DEF m
      <4>2. m = 1 BY <3>1, <4>1
      <4> QED BY <4>1, <4>2 DEF m
    <3>3. 1 \in DOMAIN runs /\ DOMAIN runs = {1} BY <3>2
    <3>4. runs[1] \in Seq(Nat) BY <3>1, <3>3
    <3> QED BY <3>2, <3>3, <3>4 DEF runs
  <2>2. Len(run) \in Nat BY <2>1
  <2>3. \A q \in Viable : Has(q, run) BY <1>3, <1>6, <2>1, Zenon
  <2>4. CASE ~fits
    <3>1. Leads(at) = [cost |-> 1, is |-> FALSE, fits |-> FALSE] BY <1>6, <2>4, Zenon DEF Leads
    <3>2. \A q \in Viable : q < at
      <4> SUFFICES ASSUME NEW q \in Viable PROVE q < at OBVIOUS
      <4>1. q + Len(run) <= Len(Data) /\ q \in Nat BY <1>3, <2>3, Zenon DEF Has, Holds
      <4> QED BY <1>1, <2>2, <2>4, <4>1
    <3>3. at \notin Viable BY <3>2
    <3> QED BY <3>1, <3>2, <3>3
  <2>5. CASE fits
    <3> DEFINE is == Has(at, run)
    <3>1. Leads(at) = [cost |-> Len(run), is |-> is, fits |-> TRUE] BY <1>6, <2>5, Zenon DEF Leads
    <3>2. is \in BOOLEAN BY Zenon DEF Has, Holds
    <3>3. at \in Viable => is BY <2>3
    <3> HIDE DEF is
    <3>4. Leads(at).cost = Len(run) /\ Leads(at).is = is /\ Leads(at).fits = TRUE BY <3>1
    <3>5. Leads(at).cost \in Int BY <2>2, <3>4
    <3> QED BY <3>2, <3>3, <3>4, <3>5, Zenon DEF is
  <2> QED BY <2>4, <2>5
<1> QED BY <1>4, <1>5, <1>6

(* A sweep from a place, by the first place that is marked.                *)
PlaceFrom(at, end) == IF at = end THEN UNSET ELSE FirstMarked(at, end - at)
Halts(at, end) ==
  LET place == PlaceFrom(at, end)
  IN place = UNSET \/ Leads(place).is \/ ~Leads(place).fits
HaltedAt(place, lead) == [PassedOver(0) EXCEPT !.stop = place, !.fits = lead.fits]
SweptOn(f, at, end) ==
  LET place == PlaceFrom(at, end)
      lead == Leads(place)
  IN IF place = UNSET THEN PassedOver(end - at)
     ELSE Compared(at, place, lead, IF lead.is \/ ~lead.fits THEN HaltedAt(place, lead) ELSE f[place + 1])
Sweeps == [stop : Int, fits : BOOLEAN, cost : Int, mistaken : Int]

(* What a sweep says of the starts a match begins at.                      *)
SweepTrue(at, end, r) ==
  /\ r \in Sweeps
  /\ r.stop = UNSET => \A q \in Viable : q < at \/ q >= end
  /\ r.stop # UNSET =>
       /\ r.stop \in at..(end - 1) /\ \A q \in Viable : q < at \/ q >= r.stop
       /\ ~r.fits => \A q \in Viable : q < at
       /\ r.fits /\ Len(P.runs) = 1 => Has(r.stop, P.runs[1])

LEMMA PlaceIs ==
  ASSUME JobTrue, V.kind = "ascii", Claims(P.first), NEW end \in Nat, end <= Len(Data), NEW at \in Nat, at <= end
  PROVE  /\ PlaceFrom(at, end) = UNSET => \A q \in Viable : q < at \/ q >= end
         /\ PlaceFrom(at, end) # UNSET =>
              /\ PlaceFrom(at, end) \in at..(end - 1)
              /\ \A q \in Viable : q < at \/ q >= PlaceFrom(at, end)
<1>1. Len(Data) \in Nat /\ P.pairs \in SUBSET (Nat \X Nat) BY Context DEF JobTrue, ClaimsAre
<1>2. \A q \in Viable : q \in Nat /\ CandidateAt(q)
  <2>1. \A q \in Viable : q \in 0..(Len(Data) - 1) /\ CandidateAt(q) BY CandidateIs
  <2> QED BY <1>1, <2>1
<1>3. CASE at = end
  <2>1. PlaceFrom(at, end) = UNSET BY <1>3 DEF PlaceFrom
  <2> QED BY <1>2, <1>3, <2>1
<1>4. CASE at # end
  <2> DEFINE limit == end - at
             place == FirstMarked(at, limit)
  <2>1. limit \in Nat /\ at + limit <= Len(Data) /\ limit >= 1 /\ at + limit = end BY <1>1, <1>4
  <2>2. PlaceFrom(at, end) = place BY <1>4 DEF PlaceFrom
  <2> HIDE DEF limit
  <2>3. /\ place = UNSET => \A q \in at..(at + limit - 1) : ~CandidateAt(q)
        /\ place # UNSET => place \in at..(at + limit - 1) /\ \A q \in at..(place - 1) : ~CandidateAt(q)
    BY <1>1, <2>1, FirstMarkedIs
  <2>4. at + limit - 1 = end - 1 BY <2>1
  <2> HIDE DEF place
  <2>5. place = UNSET => \A q \in Viable : q < at \/ q >= end BY <1>2, <2>3, <2>4
  <2>6. place # UNSET => place \in at..(end - 1) /\ \A q \in Viable : q < at \/ q >= place
    BY <1>2, <2>3, <2>4
  <2> QED BY <2>2, <2>5, <2>6
<1> QED BY <1>3, <1>4

LEMMA ComparedIs ==
  ASSUME NEW at \in Int, NEW place \in Int, NEW lead, lead.cost \in Int, NEW rest \in Sweeps
  PROVE  /\ Compared(at, place, lead, rest) \in Sweeps
         /\ Compared(at, place, lead, rest).stop = rest.stop /\ Compared(at, place, lead, rest).fits = rest.fits
<1> DEFINE cost == rest.cost + (place - at + 1) + lead.cost
           mistaken == rest.mistaken + (IF CandidateAt(place) THEN 0 ELSE lead.cost)
<1>1. cost \in Int /\ mistaken \in Int BY DEF Sweeps
<1>2. Compared(at, place, lead, rest) = [rest EXCEPT !.cost = cost, !.mistaken = mistaken] BY DEF Compared, Sweeps
<1> HIDE DEF cost, mistaken
<1> QED BY <1>1, <1>2 DEF Sweeps

LEMMA HaltedIs ==
  ASSUME NEW place \in Int, NEW lead, lead.fits \in BOOLEAN
  PROVE  /\ HaltedAt(place, lead) \in Sweeps
         /\ HaltedAt(place, lead).stop = place /\ HaltedAt(place, lead).fits = lead.fits
<1> DEFINE fits == lead.fits
<1> HIDE DEF fits
<1>1. HaltedAt(place, lead) = [stop |-> place, fits |-> fits, cost |-> 0, mistaken |-> 0]
  <2> DEFINE r == PassedOver(0)
  <2>1. r = [stop |-> UNSET, fits |-> TRUE, cost |-> 0, mistaken |-> 0] BY Zenon DEF PassedOver
  <2>2. HaltedAt(place, lead) = [r EXCEPT !.stop = place, !.fits = fits] BY Zenon DEF HaltedAt, fits
  <2> HIDE DEF r
  <2> QED BY <2>1, <2>2
<1>2. fits \in BOOLEAN BY DEF fits
<1>3. HaltedAt(place, lead) \in Sweeps /\ HaltedAt(place, lead).stop = place /\ HaltedAt(place, lead).fits = fits
  BY <1>1, <1>2 DEF Sweeps
<1> QED BY <1>3 DEF fits

LEMMA SweepUnfolds ==
  ASSUME JobTrue, V.kind = "ascii", Claims(P.first), NEW start \in Nat, NEW end \in Nat, start <= end,
         end <= Len(Data)
  PROVE  \A at \in start..end : SweepTo(start, end)[at] = SweptOn(SweepTo(start, end), at, end)
<1> DEFINE D == start..end
           S == Sweeps
           n == end - start
           place(at) == PlaceFrom(at, end)
           stop == {at \in D : Halts(at, end)}
           measure == [at \in D |-> end - at]
           leaf == [at \in D |-> IF at \notin stop \/ place(at) = UNSET THEN PassedOver(end - at)
                                 ELSE Compared(at, place(at), Leads(place(at)), HaltedAt(place(at), Leads(place(at))))]
           next == [at \in D |-> IF at \in stop THEN at ELSE place(at) + 1]
           step == [at \in D |-> [r \in S |-> IF at \in stop THEN r
                                              ELSE Compared(at, place(at), Leads(place(at)), r)]]
<1>1. ASSUME NEW at \in D, place(at) # UNSET
      PROVE  /\ at \in Nat /\ place(at) \in Nat /\ place(at) \in at..(end - 1)
             /\ Leads(place(at)).cost \in Int /\ Leads(place(at)).fits \in BOOLEAN
  <2>1. at \in Nat /\ at <= end OBVIOUS
  <2>2. place(at) \in at..(end - 1) BY <1>1, <2>1, PlaceIs
  <2>3. place(at) \in Nat BY <2>1, <2>2
  <2> QED BY <2>1, <2>2, <2>3, LeadsAre
<1>2. Grounded(D, S, n, measure, stop, leaf, next, step)
  <2>1. \A k \in Int : PassedOver(k) \in S BY DEF PassedOver, Sweeps, UNSET
  <2>2. ASSUME NEW at \in D, place(at) # UNSET, NEW r \in S
        PROVE  Compared(at, place(at), Leads(place(at)), r) \in S
    <3> DEFINE p == place(at)
               lead == Leads(p)
    <3>1. at \in Int /\ p \in Int /\ lead.cost \in Int BY <1>1, <2>2
    <3> HIDE DEF p, lead
    <3>2. Compared(at, p, lead, r) \in S BY <3>1, ComparedIs
    <3> QED BY <3>2 DEF p, lead
  <2>3. ASSUME NEW at \in D, place(at) # UNSET
        PROVE  HaltedAt(place(at), Leads(place(at))) \in S
    <3> DEFINE p == place(at)
               lead == Leads(p)
    <3>1. p \in Int /\ lead.fits \in BOOLEAN BY <1>1, <2>3
    <3> HIDE DEF p, lead
    <3>2. HaltedAt(p, lead) \in S BY <3>1, HaltedIs
    <3> QED BY <3>2 DEF p, lead
  <2>4. \A at \in D : at \notin stop => place(at) # UNSET BY DEF Halts
  <2>5. n \in Nat /\ measure \in [D -> 0..n] /\ stop \in SUBSET D OBVIOUS
  <2>6. \A at \in D : end - at \in Int OBVIOUS
  <2>7. \A at \in D : at \notin stop => place(at) + 1 \in D /\ end - (place(at) + 1) < end - at
    <3> SUFFICES ASSUME NEW at \in D, at \notin stop
                 PROVE  place(at) + 1 \in D /\ end - (place(at) + 1) < end - at
      OBVIOUS
    <3> DEFINE p == place(at)
    <3>1. p \in Nat /\ at \in Nat /\ p \in at..(end - 1) BY <1>1, <2>4
    <3> HIDE DEF p
    <3>2. p + 1 \in D /\ end - (p + 1) < end - at BY <3>1
    <3> QED BY <3>2 DEF p
  <2> HIDE DEF S, stop, place
  <2>8. next \in [D -> D]
    <3> HIDE DEF D
    <3> QED BY <2>7
  <2>9. \A at \in D : at \notin stop => measure[next[at]] < measure[at] BY <2>7
  <2> HIDE DEF D
  <2>10. leaf \in [D -> S] BY <2>1, <2>2, <2>3, <2>6
  <2>11. step \in [D -> [S -> S]] BY <2>2, <2>4
  <2> HIDE DEF measure, leaf, next, step, n
  <2> QED BY <2>5, <2>8, <2>9, <2>10, <2>11 DEF Grounded
<1>3. PICK f \in [D -> S] : Unfolds(f, D, stop, leaf, next, step)
  <2> HIDE DEF D, stop, measure, leaf, next, step, S, n
  <2> QED BY <1>2, RecursionExists
<1>4. f = [at \in D |-> SweptOn(f, at, end)]
  <2>1. ASSUME NEW at \in D PROVE f[at] = SweptOn(f, at, end)
    <3> DEFINE p == place(at)
               lead == Leads(p)
    <3>1. f[at] = IF at \in stop THEN leaf[at] ELSE step[at][f[next[at]]]
      <4> HIDE DEF stop, leaf, next, step, D
      <4> QED BY <1>3 DEF Unfolds
    <3>2. SweptOn(f, at, end) = IF p = UNSET THEN PassedOver(end - at)
            ELSE Compared(at, p, lead, IF lead.is \/ ~lead.fits THEN HaltedAt(p, lead) ELSE f[p + 1])
      BY Zenon DEF SweptOn
    <3>3. at \in stop <=> p = UNSET \/ lead.is \/ ~lead.fits BY DEF Halts
    <3>4. CASE at \in stop
      <4>1. leaf[at] = IF at \notin stop \/ p = UNSET THEN PassedOver(end - at)
                       ELSE Compared(at, p, lead, HaltedAt(p, lead))
        <5> HIDE DEF D, stop
        <5> QED OBVIOUS
      <4> HIDE DEF D, stop, leaf, step, next, p, lead
      <4> QED BY <3>1, <3>2, <3>3, <3>4, <4>1, Zenon
    <3>5. CASE at \notin stop
      <4>1. next[at] = p + 1
        <5> HIDE DEF D, stop
        <5> QED BY <3>5
      <4>2. p + 1 \in D
        <5>1. p \in Nat /\ p \in at..(end - 1) BY <1>1, <3>3, <3>5
        <5> HIDE DEF p
        <5> QED BY <5>1
      <4>3. f[p + 1] \in S
        <5> HIDE DEF D, S, p
        <5> QED BY <4>2
      <4>4. step[at][f[p + 1]] = Compared(at, p, lead, f[p + 1])
        <5> HIDE DEF S, D, stop
        <5> QED BY <3>5, <4>3
      <4> HIDE DEF D, stop, leaf, step, next, p, lead
      <4> QED BY <3>1, <3>2, <3>3, <3>5, <4>1, <4>4, Zenon
    <3> QED BY <3>4, <3>5
  <2> HIDE DEF D, S
  <2> QED BY <2>1
<1>5. SweepTo(start, end) = CHOOSE g : g = [at \in D |-> SweptOn(g, at, end)]
  BY Zenon DEF SweepTo, SweptOn, PlaceFrom, HaltedAt
<1> DEFINE W == SweepTo(start, end)
<1>6. W = [at \in D |-> SweptOn(W, at, end)]
  <2> HIDE DEF D, S
  <2> QED BY <1>4, <1>5
<1>7. \A at \in D : W[at] = SweptOn(W, at, end)
  <2> HIDE DEF D, W
  <2> QED BY <1>6
<1> QED BY <1>7

LEMMA SweepIs ==
  ASSUME JobTrue, V.kind = "ascii", Claims(P.first), NEW start \in Nat, NEW end \in Nat, start <= end,
         end <= Len(Data)
  PROVE  \A at \in start..end : SweepTrue(at, end, SweepTo(start, end)[at])
<1> DEFINE W == SweepTo(start, end)
           Bad == {d \in Nat : d <= end - start /\ ~SweepTrue(end - d, end, W[end - d])}
<1>1. \A at \in start..end : W[at] = SweptOn(W, at, end) BY SweepUnfolds
<1> HIDE DEF W
<1>2. Bad = {}
  <2> SUFFICES ASSUME Bad # {} PROVE FALSE OBVIOUS
  <2>1. Bad \in SUBSET Nat OBVIOUS
  <2>2. PICK d \in Bad : \A e \in Bad : d <= e
    <3> HIDE DEF Bad
    <3> QED BY <2>1, LeastOf
  <2> DEFINE at == end - d
             place == PlaceFrom(at, end)
             lead == Leads(place)
  <2>3. at \in start..end /\ at \in Nat /\ at <= end /\ ~SweepTrue(at, end, W[at]) /\ d = end - at OBVIOUS
  <2> HIDE DEF at
  <2>4. /\ place = UNSET => \A q \in Viable : q < at \/ q >= end
        /\ place # UNSET => place \in at..(end - 1) /\ \A q \in Viable : q < at \/ q >= place
    BY <2>3, PlaceIs
  <2>5. W[at] = IF place = UNSET THEN PassedOver(end - at)
                ELSE Compared(at, place, lead, IF lead.is \/ ~lead.fits THEN HaltedAt(place, lead) ELSE W[place + 1])
    BY <1>1, <2>3, Zenon DEF SweptOn
  <2>6. place # UNSET =>
          /\ place \in Nat /\ lead.cost \in Int /\ lead.is \in BOOLEAN /\ lead.fits \in BOOLEAN
          /\ place \in Viable => lead.is
          /\ ~lead.fits => \A q \in Viable : q < place
          /\ lead.is /\ lead.fits /\ Len(P.runs) = 1 => Has(place, P.runs[1])
    <3> SUFFICES ASSUME place # UNSET
                 PROVE  /\ place \in Nat /\ lead.cost \in Int /\ lead.is \in BOOLEAN /\ lead.fits \in BOOLEAN
                        /\ place \in Viable => lead.is
                        /\ ~lead.fits => \A q \in Viable : q < place
                        /\ lead.is /\ lead.fits /\ Len(P.runs) = 1 => Has(place, P.runs[1])
      OBVIOUS
    <3> HIDE DEF place
    <3>1. place \in Nat BY <2>3, <2>4
    <3> QED BY <3>1, LeadsAre
  <2>7. \A q \in Viable : q \in Nat
    <3>1. Len(Us) \in Nat BY Context
    <3> QED BY <3>1, ViableIn
  <2> HIDE DEF place, lead
  <2>8. CASE place = UNSET
    <3> DEFINE r == PassedOver(end - at)
    <3>1. r = [stop |-> UNSET, fits |-> TRUE, cost |-> end - at, mistaken |-> 0] BY Zenon DEF PassedOver
    <3>2. r \in Sweeps /\ r.stop = UNSET
      <4> HIDE DEF r
      <4> QED BY <2>3, <3>1 DEF Sweeps, UNSET
    <3> HIDE DEF r
    <3>3. SweepTrue(at, end, r) BY <2>4, <2>8, <3>2, Zenon DEF SweepTrue
    <3>4. W[at] = r BY <2>5, <2>8, Zenon DEF r
    <3> QED BY <2>3, <3>3, <3>4, Zenon
  <2>9. CASE place # UNSET /\ (lead.is \/ ~lead.fits)
    <3> DEFINE h == HaltedAt(place, lead)
               r == Compared(at, place, lead, h)
    <3>1. h \in Sweeps /\ h.stop = place /\ h.fits = lead.fits
      <4>1. place \in Int BY <2>6, <2>9
      <4> QED BY <2>6, <2>9, <4>1, HaltedIs
    <3> HIDE DEF h
    <3>2. r \in Sweeps /\ r.stop = place /\ r.fits = lead.fits
      <4>1. at \in Int /\ place \in Int BY <2>3, <2>6, <2>9
      <4> QED BY <2>6, <2>9, <3>1, <4>1, ComparedIs
    <3> HIDE DEF r
    <3>3. ~r.fits => \A q \in Viable : q < at
      <4> SUFFICES ASSUME ~r.fits, NEW q \in Viable PROVE q < at OBVIOUS
      <4>1. q < place /\ (q < at \/ q >= place) /\ q \in Nat /\ place \in Nat BY <2>4, <2>6, <2>7, <2>9, <3>2
      <4> QED BY <4>1
    <3>4. r.fits /\ Len(P.runs) = 1 => Has(place, P.runs[1]) BY <2>6, <2>9, <3>2
    <3>5. SweepTrue(at, end, r) BY <2>4, <2>9, <3>2, <3>3, <3>4, Zenon DEF SweepTrue
    <3>6. W[at] = r BY <2>5, <2>9, Zenon DEF r, h
    <3> QED BY <2>3, <3>5, <3>6, Zenon
  <2>10. CASE place # UNSET /\ ~(lead.is \/ ~lead.fits)
    <3> DEFINE h == W[place + 1]
               r == Compared(at, place, lead, h)
    <3>1. place \in Nat /\ place \in at..(end - 1) BY <2>4, <2>6, <2>10
    <3>2. SweepTrue(place + 1, end, h)
      <4> DEFINE e == end - (place + 1)
      <4>1. e \in Nat /\ e <= end - start /\ ~(d <= e) /\ end - e = place + 1 BY <2>3, <3>1
      <4> HIDE DEF e
      <4>2. e \notin Bad
        <5> HIDE DEF Bad
        <5> QED BY <2>2, <4>1
      <4>3. SweepTrue(end - e, end, W[end - e]) BY <4>1, <4>2
      <4> QED BY <4>1, <4>3
    <3> HIDE DEF h
    <3>3. h \in Sweeps BY <3>2 DEF SweepTrue
    <3>4. r \in Sweeps /\ r.stop = h.stop /\ r.fits = h.fits
      <4>1. at \in Int /\ place \in Int BY <2>3, <3>1
      <4> QED BY <2>6, <2>10, <3>3, <4>1, ComparedIs
    <3> HIDE DEF r
    <3>5. \A q \in Viable : q < place + 1 => q < at
      <4> SUFFICES ASSUME NEW q \in Viable, q < place + 1 PROVE q < at OBVIOUS
      <4>1. q # place BY <2>6, <2>10
      <4>2. q \in Nat /\ (q < at \/ q >= place) BY <2>4, <2>7, <2>10
      <4> QED BY <3>1, <4>1, <4>2
    <3>6. r.stop = UNSET => \A q \in Viable : q < at \/ q >= end BY <3>2, <3>4, <3>5 DEF SweepTrue
    <3>7. ASSUME r.stop # UNSET
          PROVE  /\ r.stop \in at..(end - 1) /\ \A q \in Viable : q < at \/ q >= r.stop
                 /\ ~r.fits => \A q \in Viable : q < at
                 /\ r.fits /\ Len(P.runs) = 1 => Has(r.stop, P.runs[1])
      <4>1. /\ h.stop \in (place + 1)..(end - 1) /\ \A q \in Viable : q < place + 1 \/ q >= h.stop
            /\ ~h.fits => \A q \in Viable : q < place + 1
            /\ h.fits /\ Len(P.runs) = 1 => Has(h.stop, P.runs[1])
        BY <3>2, <3>4, <3>7 DEF SweepTrue
      <4>2. r.stop \in at..(end - 1) BY <2>3, <3>1, <3>4, <4>1
      <4> QED BY <3>4, <3>5, <4>1, <4>2, Zenon
    <3>8. SweepTrue(at, end, r) BY <3>4, <3>6, <3>7, Zenon DEF SweepTrue
    <3>9. W[at] = r BY <2>5, <2>10, Zenon DEF r, h
    <3> QED BY <2>3, <3>8, <3>9, Zenon
  <2> QED BY <2>8, <2>9, <2>10
<1>3. ASSUME NEW at \in start..end PROVE SweepTrue(at, end, W[at])
  <2> DEFINE d == end - at
  <2>1. d \in Nat /\ d <= end - start /\ end - d = at OBVIOUS
  <2> HIDE DEF d
  <2>2. SweepTrue(end - d, end, W[end - d]) BY <1>2, <2>1
  <2> QED BY <2>1, <2>2
<1> QED BY <1>3 DEF W

(* What a round of places comes to.                                        *)
LEMMA SweptKeeps ==
  ASSUME JobTrue, NEW v, IsGood(v), v.verified = 0, V.kind = "ascii", v.phase = In("Candidate"),
         NEW at, at = v.mark.units, Scanning(at),
         NEW end \in 1..Len(Data), at < end, Bounded(v) => end <= v.requiredAt + 1,
         NEW r, SweepTrue(at, end, r)
  PROVE  IsGood(Swept(v, end, r))
<1> DEFINE on == [v EXCEPT !.mistaken = @ + r.mistaken]
           ends == OneStart \/ end = Len(Data)
           wrong == ~r.fits \/ (OneStart /\ r.stop # job.from)
           run == IF Len(P.runs) = 1 THEN Len(P.runs[1]) ELSE 0
           begun == [on EXCEPT !.mark = CursorAt(V, r.stop), !.start = r.stop, !.phase = In("Initialize"),
                               !.verified = run]
           then == IF r.stop = UNSET THEN IF ends THEN Finished(on) ELSE [on EXCEPT !.mark = CursorAt(V, end)]
                   ELSE IF wrong THEN Finished(on) ELSE begun
<1>1. Swept(v, end, r) = Spend(v, r.cost, then) BY Zenon DEF Swept
<1>2. Data = Us /\ Len(Us) \in Nat /\ Len(Data) = Len(Us) /\ job.from \in Nat BY Context
<1>3. /\ at \in 0..Len(Us) /\ job.from <= at /\ (OneStart => at = job.from) /\ (\A q \in Viable : at <= q)
      /\ Claims(P.first)
  BY DEF Scanning, Clear
<1>4. r.cost \in Int /\ r.stop \in Int BY DEF SweepTrue, Sweeps
<1>5. \A p \in 0..Len(Us) : CursorAt(V, p) = Stand(V, Ps, p) /\ ~Stand(V, Ps, p).half
  <2>1. \A p \in 0..Len(Us) : CursorAt(V, p) = Stand(V, Ps, p) BY CursorAtIs DEF JobTrue
  <2>2. \A p : ~Stand(V, Ps, p).half BY DEF Stand, Mark
  <2> QED BY <2>1, <2>2
<1>6. \A q \in Viable : q \in 0..(Len(Us) - 1) /\ (OneStart => q = job.from)
  <2>1. \A q \in Viable : q \in 0..(Len(Us) - 1) BY <1>3, FirstClaimed
  <2> QED BY <2>1, ViableIn
<1>7. IsState(v) /\ v.budget \in Nat /\ v.used \in Int /\ NoteTrue(v.requiredAt, v.requiredFrom) BY StateParts
<1>8. /\ IsState(on) /\ on.phase = v.phase /\ on.mark = v.mark /\ on.start = v.start /\ on.budget = v.budget
      /\ on.requiredAt = v.requiredAt /\ on.requiredFrom = v.requiredFrom /\ on.verified = v.verified
      /\ on.used = v.used
  BY <1>7 DEF IsState, Fields
<1> HIDE DEF on
<1>9. IsGood(on) 
  <2>1. v.mark.units \in 0..Len(Us) /\ v.mark = Stand(V, Ps, v.mark.units) BY StateParts
  <2>2. \/ AdmissionKnows(v.phase, v.mark.units)
        \/ SearchKnows(v.phase, v.mark.units, v.mark.half, v.start, v.requiredAt)
    BY StateParts
  <2> QED BY <1>8, <2>1, <2>2, ByParts
<1>10. CASE r.stop = UNSET
  <2>1. \A q \in Viable : q < at \/ q >= end BY <1>10 DEF SweepTrue
  <2>2. \A q \in Viable : q >= end /\ q \in Nat BY <1>3, <1>6, <2>1
  <2>3. CASE ends
    <3>1. Viable = {}
      <4> SUFFICES ASSUME NEW q \in Viable PROVE FALSE OBVIOUS
      <4>1. q >= end /\ q \in 0..(Len(Us) - 1) /\ (OneStart => q = at) BY <1>3, <1>6, <2>2
      <4> QED BY <1>2, <1>3, <2>3, <4>1
    <3>2. IsGood(Finished(on)) BY <1>8, <1>9, <3>1, Finishes
    <3>3. IsGood(then) BY <1>10, <2>3, <3>2, Zenon
    <3> HIDE DEF then
    <3> QED BY <1>1, <1>4, <3>3, SpendKeeps
  <2>4. CASE ~ends
    <3>1. end \in 0..Len(Us) /\ job.from <= end /\ \A q \in Viable : end <= q BY <1>2, <1>3, <2>2
    <3>2. Scanning(end) BY <1>3, <2>4, <3>1, Zenon DEF Scanning, Clear
    <3> DEFINE mark == CursorAt(V, end)
    <3>3. mark = Stand(V, Ps, end) /\ ~mark.half BY <1>5, <3>1
    <3> HIDE DEF mark
    <3>4. SearchKnows(on.phase, end, mark.half, on.start, on.requiredAt) BY <1>8, <3>2, <3>3, Zenon DEF SearchKnows
    <3>5. IsGood([on EXCEPT !.mark = mark]) BY <1>8, <1>9, <3>1, <3>3, <3>4, MarkStays
    <3>6. IsGood(then) BY <1>10, <2>4, <3>5, Zenon DEF mark
    <3> HIDE DEF then
    <3> QED BY <1>1, <1>4, <3>6, SpendKeeps
  <2> QED BY <2>3, <2>4
<1>11. CASE r.stop # UNSET
  <2>1. /\ r.stop \in at..(end - 1) /\ \A q \in Viable : q < at \/ q >= r.stop
        /\ ~r.fits => \A q \in Viable : q < at
        /\ r.fits /\ Len(P.runs) = 1 => Has(r.stop, P.runs[1])
    BY <1>11 DEF SweepTrue
  <2>2. \A q \in Viable : q \in Nat /\ at <= q /\ r.stop <= q BY <1>3, <1>6, <2>1
  <2>3. CASE wrong
    <3>1. Viable = {}
      <4> SUFFICES ASSUME NEW q \in Viable PROVE FALSE OBVIOUS
      <4>1. at <= q /\ r.stop <= q /\ q \in Nat /\ (OneStart => q = at /\ at = job.from) BY <1>3, <1>6, <2>2
      <4>2. ~r.fits => q < at BY <2>1
      <4>3. at \in Nat /\ r.stop \in Nat /\ at <= r.stop BY <1>3, <2>1
      <4> QED BY <2>3, <4>1, <4>2, <4>3
    <3>2. IsGood(Finished(on)) BY <1>8, <1>9, <3>1, Finishes
    <3>3. IsGood(then) BY <1>11, <2>3, <3>2, Zenon
    <3> HIDE DEF then
    <3> QED BY <1>1, <1>4, <3>3, SpendKeeps
  <2>4. CASE ~wrong
    <3> DEFINE stop == r.stop
               mark == CursorAt(V, stop)
    <3>1. /\ stop \in 0..Len(Us) /\ stop <= end - 1 /\ job.from <= stop /\ (OneStart => stop = job.from)
          /\ \A q \in Viable : stop <= q
      BY <1>2, <1>3, <2>1, <2>2, <2>4
    <3>2. mark = Stand(V, Ps, stop) BY <1>5, <3>1
    <3>3. r.fits /\ (Len(P.runs) = 1 => Has(stop, P.runs[1])) BY <2>1, <2>4
    <3>4. Clear(stop) BY <3>1, Zenon DEF Clear
    <3>5. P.forward /\ V.kind = "ascii" /\ v.requiredAt # UNSET => stop <= v.requiredAt
      <4> SUFFICES ASSUME P.forward, v.requiredAt # UNSET PROVE stop <= v.requiredAt OBVIOUS
      <4>1. end <= v.requiredAt + 1 /\ v.requiredAt \in Nat BY <1>7 DEF Bounded, NoteTrue
      <4> HIDE DEF stop
      <4> QED BY <1>2, <3>1, <4>1
    <3> HIDE DEF stop, mark, run
    <3>6. begun = [on EXCEPT !.mark = mark, !.start = stop, !.phase = In("Initialize"), !.verified = run]
      BY Zenon DEF stop, mark
    <3> HIDE DEF begun
    <3>7. /\ IsState(begun) /\ begun.phase = In("Initialize") /\ begun.mark = mark /\ begun.start = stop
          /\ begun.budget = v.budget /\ begun.requiredAt = v.requiredAt /\ begun.requiredFrom = v.requiredFrom
          /\ begun.verified = run /\ begun.used = v.used
      BY <1>8, <3>6 DEF IsState, Fields
    <3>8. RunTrue(begun.phase, begun.start, begun.verified)
      <4>1. begun.phase.is = "Initialize" BY <3>7, TagsDiffer, Zenon
      <4>2. run # 0 => Len(P.runs) = 1 /\ run = Len(P.runs[1]) BY DEF run
      <4> QED BY <3>3, <3>7, <4>1, <4>2 DEF RunTrue
    <3>9. Trying(stop, v.requiredAt) BY <3>4, <3>5, Zenon DEF Trying
    <3>10. SearchKnows(begun.phase, mark.units, mark.half, begun.start, begun.requiredAt)
      BY <3>7, <3>9 DEF SearchKnows
    <3>11. mark.units = stop BY <3>2, StandIs
    <3>12. Knows(begun.phase, begun.mark, begun.start, begun.requiredAt, begun.requiredFrom, begun.verified)
      BY <1>7, <3>1, <3>2, <3>7, <3>8, <3>10, <3>11 DEF Knows
    <3>13. IsGood(begun) BY <1>7, <3>7, <3>12 DEF IsGood
    <3>14. IsGood(then) BY <1>11, <2>4, <3>13, Zenon
    <3> HIDE DEF then
    <3> QED BY <1>1, <1>4, <3>14, SpendKeeps
  <2> QED BY <2>3, <2>4
<1> QED BY <1>10, <1>11

LEMMA AsciiKeeps ==
  ASSUME JobTrue, NEW v, IsGood(v), v.phase.is = "Candidate", V.kind = "ascii", NEW available \in Int, available > 0
  PROVE  IsGood(AsciiCandidate(v, available))
<1> DEFINE at == v.mark.units
           count == RoundOf(v, available)
           none == P.first.lo > P.first.hi \/ at = Len(Data)
           beyond == Bounded(v) /\ at > v.requiredAt
           prepare == [is |-> "BoundPrepare", from |-> v.requiredFrom]
<1>1. SearchKnows(v.phase, at, v.mark.half, v.start, v.requiredAt) /\ v.verified = 0 BY Searching
<1>2. v.phase = In("Candidate") /\ Scanning(at) BY <1>1, SearchTags
<1>3. AsciiCandidate(v, available) =
        IF none THEN Spend(v, 1, Finished(v))
        ELSE IF v.budget = 0 THEN Spend(v, 1, v)
        ELSE IF beyond THEN Spend(v, 1, Become(v, prepare))
        ELSE Swept(v, at + count, Sweep(at, count))
  BY Zenon DEF AsciiCandidate
<1>4. Data = Us /\ Len(Us) \in Nat /\ Len(Data) = Len(Us) BY Context
<1>5. /\ at \in 0..Len(Us) /\ Claims(P.first) /\ \A q \in Viable : at <= q BY <1>2 DEF Scanning, Clear
<1>6. v.budget \in Nat /\ v.used \in Int /\ NoteTrue(v.requiredAt, v.requiredFrom) BY StateParts
<1> HIDE DEF at
<1>7. CASE none
  <2>1. Viable = {}
    <3> SUFFICES ASSUME NEW q \in Viable PROVE FALSE OBVIOUS
    <3>1. q \in 0..(Len(Data) - 1) BY <1>5, CandidateIs
    <3>2. /\ q \in 0..(Len(Us) - 1) /\ Us[q + 1] \in Nat
          /\ Us[q + 1] >= 128 \/ Admits(P.first, Us[q + 1])
      BY <1>5, FirstClaimed
    <3>3. Us[q + 1] < 128
      <4>1. \A i \in 1..Len(Us) : Us[i] < 128 BY Context
      <4> QED BY <3>2, <4>1
    <3>4. Us[q + 1] \in P.first.lo..P.first.hi BY <3>2, <3>3 DEF Admits
    <3>5. P.first.lo \in Int /\ P.first.hi \in Int BY DEF JobTrue, ClaimsAre
    <3>6. ~(P.first.lo > P.first.hi) BY <3>2, <3>4, <3>5
    <3>7. at <= q BY <1>5
    <3> QED BY <1>4, <1>5, <1>7, <3>1, <3>6, <3>7
  <2>2. IsGood(Finished(v)) BY <1>1, <2>1, Finishes
  <2>3. AsciiCandidate(v, available) = Spend(v, 1, Finished(v)) BY <1>3, <1>7, Zenon
  <2> QED BY <2>2, <2>3, SpendKeeps
<1>8. CASE ~none /\ v.budget = 0
  <2>1. AsciiCandidate(v, available) = Spend(v, 1, v) BY <1>3, <1>8, Zenon
  <2> QED BY <2>1, SpendKeeps
<1>9. CASE ~none /\ v.budget # 0 /\ beyond
  <2>1. AsciiCandidate(v, available) = Spend(v, 1, Become(v, prepare)) BY <1>3, <1>9, Zenon
  <2>2. v.requiredAt # UNSET /\ P.forward BY <1>9 DEF Bounded
  <2>3. v.requiredFrom = v.requiredAt + 1 BY <1>6, <2>2 DEF NoteTrue
  <2>4. Beyond(at, v.requiredAt) BY <1>2, <1>9, <2>2 DEF Beyond
  <2>5. prepare = [is |-> "BoundPrepare", from |-> v.requiredAt + 1] BY <2>3
  <2> HIDE DEF prepare
  <2>6. SearchKnows(prepare, at, v.mark.half, v.start, v.requiredAt) BY <2>4, <2>5, Zenon DEF SearchKnows
  <2>7. IsGood(Become(v, prepare)) BY <1>1, <2>6, PhaseMoves DEF at
  <2> QED BY <2>1, <2>7, SpendKeeps
<1>10. CASE ~none /\ v.budget # 0 /\ ~beyond
  <2>1. AsciiCandidate(v, available) = Swept(v, at + count, Sweep(at, count)) BY <1>3, <1>10, Zenon
  <2>2. count \in Nat /\ count >= 1 /\ at + count <= Len(Data)
        /\ (Bounded(v) => at + count <= v.requiredAt + 1)
    <3> DEFINE most == IF OneStart THEN 1 ELSE Round
               places == Least(Least(Len(Data) - at, Least(available, most)), v.budget)
    <3>1. most \in Nat /\ most >= 1 BY ScanConstants
    <3>2. count = IF Bounded(v) THEN Least(places, v.requiredAt + 1 - at) ELSE places BY Zenon DEF RoundOf, at
    <3> HIDE DEF most, count
    <3>3. places \in Nat /\ places >= 1 /\ places <= Len(Data) - at BY <1>4, <1>5, <1>6, <1>10, <3>1 DEF Least
    <3> HIDE DEF places
    <3>4. Bounded(v) => v.requiredAt \in Nat /\ ~(at > v.requiredAt) BY <1>6, <1>10 DEF Bounded, NoteTrue
    <3>5. CASE Bounded(v) BY <1>4, <1>5, <3>2, <3>3, <3>4, <3>5 DEF Least
    <3>6. CASE ~Bounded(v) BY <1>4, <1>5, <3>2, <3>3, <3>6
    <3> QED BY <3>5, <3>6
  <2> DEFINE end == at + count
             r == SweepTo(at, end)[at]
  <2>3. Sweep(at, count) = r BY Zenon DEF Sweep
  <2> HIDE DEF count
  <2>4. at \in Nat /\ end \in Nat /\ at <= end /\ at < end /\ end <= Len(Data) /\ at \in at..end /\ end \in 1..Len(Data)
    BY <1>4, <1>5, <2>2
  <2>5. Bounded(v) => end <= v.requiredAt + 1 BY <2>2
  <2>6. AsciiCandidate(v, available) = Swept(v, end, r) BY <2>1, <2>3, Zenon
  <2> HIDE DEF end
  <2>7. SweepTrue(at, end, r) BY <1>5, <2>4, SweepIs
  <2> HIDE DEF r
  <2>8. IsGood(Swept(v, end, r)) BY <1>1, <1>2, <2>4, <2>5, <2>7, SweptKeeps DEF at
  <2> QED BY <2>6, <2>8
<1> QED BY <1>7, <1>8, <1>9, <1>10

(* ASCII bytes passed are units passed, and a cursor stands after them.    *)
LEMMA PassedIs ==
  ASSUME JobTrue, V.kind = "bytes", NEW p \in 0..Len(Us), NEW mark, mark = Stand(V, Ps, p), ~mark.half,
         NEW n \in Nat, mark.offset + n <= Len(Data), \A i \in 1..n : Data[mark.offset + i] < 128
  PROVE  /\ p + n <= Len(Us) /\ SkipAscii(V, mark, n) = Stand(V, Ps, p + n) /\ ~Stand(V, Ps, p + n).half
         /\ Stand(V, Ps, p + n).offset = mark.offset + n
         /\ \A i \in 1..n : Us[p + i] = Data[mark.offset + i]
<1>1. Data \in Seq(Octet) /\ Chain(Data, Us, Ps, 0) /\ Len(Us) \in Nat BY Context
<1> DEFINE o == mark.offset
           q == p + n
<1>2. mark.units = p /\ o = Ps[p + 1][1] /\ mark.half = Ps[p + 1][2] BY DEF Stand, Mark
<1>3. o \in Nat /\ mark.half = FALSE
  <2>1. p + 1 \in 1..(Len(Us) + 1) BY <1>1
  <2>2. Ps[p + 1][1] \in Int /\ 0 <= Ps[p + 1][1] /\ Ps[p + 1][2] \in BOOLEAN BY <1>1, <2>1, PlaceFacts
  <2> QED BY <1>2, <2>2
<1>4. At(Ps, p + 1, o, FALSE) BY <1>2, <1>3 DEF At
<1> HIDE DEF o
<1>5. o + n <= Len(Data) /\ \A i \in 1..n : Data[o + i] < 128 BY DEF o
<1>6. q <= Len(Us) /\ At(Ps, q + 1, o + n, FALSE) /\ \A i \in 1..n : SameAt(Us, p + i, Data, o + i)
  BY <1>1, <1>3, <1>4, <1>5, AsciiRun
<1>7. SkipAscii(V, mark, n) = Mark(o + n, FALSE, q)
  <2>1. V.kind # "units" /\ ~mark.half /\ mark.offset + n <= Len(V.data) /\ \A i \in 1..n : V.data[mark.offset + i] < 128
    BY Zenon DEF Data
  <2> QED BY <1>2, <2>1, Zenon DEF SkipAscii, o
<1>8. Stand(V, Ps, q) = Mark(o + n, FALSE, q)
  <2>1. Stand(V, Ps, q) = Mark(Ps[q + 1][1], Ps[q + 1][2], q) BY Zenon DEF Stand
  <2> QED BY <1>6, <2>1, Zenon DEF At
<1>9. ~Stand(V, Ps, q).half /\ Stand(V, Ps, q).offset = o + n BY <1>8 DEF Mark
<1>10. \A i \in 1..n : Us[p + i] = Data[o + i] BY <1>6 DEF SameAt
<1> QED BY <1>6, <1>7, <1>8, <1>9, <1>10, Zenon DEF o

LEMMA MixedKeeps ==
  ASSUME JobTrue, NEW v, IsGood(v), v.phase.is = "Candidate", V.kind # "ascii", NEW available \in Int, available > 0
  PROVE  IsGood(MixedCandidate(v, available))
<1> DEFINE p == v.mark.units
           offset == v.mark.offset
           most == IF OneStart THEN 1 ELSE Chunk
           count == Least(Least(Len(Data) - offset, Least(available, most)), v.budget)
           stops == {at \in offset..(offset + count - 1) : Stops(Byte(at))}
           passed == IF stops = {} THEN count ELSE Lowest(stops) - offset
           mark == SkipAscii(V, v.mark, passed)
           cost == IF stops = {} THEN count ELSE passed + 1
           begun == [v EXCEPT !.mark = mark, !.start = mark.units, !.phase = In("Initialize")]
           then == IF stops # {} THEN begun
                   ELSE IF OneStart \/ offset + count = Len(Data) THEN Finished(v)
                   ELSE [v EXCEPT !.mark = mark]
<1>1. SearchKnows(v.phase, p, v.mark.half, v.start, v.requiredAt) /\ v.verified = 0 BY Searching
<1>2. v.phase = In("Candidate") /\ Scanning(p) /\ (v.mark.half => v.start = p) BY <1>1, SearchTags
<1>3. MixedCandidate(v, available) =
        IF v.mark.half THEN Spend(v, 1, Become(v, In("Initialize")))
        ELSE IF offset = Len(Data) THEN Spend(v, 1, Finished(v))
        ELSE IF v.budget = 0 THEN Spend(v, 1, v)
        ELSE Spend(v, cost, then)
  BY Zenon DEF MixedCandidate
<1>4. V.kind = "bytes" /\ Len(Us) \in Nat /\ Len(Data) \in Nat /\ Data \in Seq(Octet) /\ Chain(Data, Us, Ps, 0)
      /\ job.from \in Nat
  BY <1>2, Context DEF Scanning
<1>5. /\ p \in 0..Len(Us) /\ job.from <= p /\ (OneStart => p = job.from) /\ (\A q \in Viable : p <= q)
      /\ Claims(P.first)
  BY <1>2 DEF Scanning, Clear
<1>6. v.budget \in Nat /\ v.used \in Int /\ v.mark = Stand(V, Ps, p) /\ IsState(v) BY StateParts
<1>7. offset \in Nat /\ offset <= Len(Data) /\ (offset = Len(Data) <=> p = Len(Us))
  <2>1. v.mark = Mark(Ps[p + 1][1], Ps[p + 1][2], p) BY <1>4, <1>6, Zenon DEF Stand
  <2>2. offset = Ps[p + 1][1] BY <2>1 DEF Mark
  <2>3. p + 1 \in 1..(Len(Us) + 1) BY <1>4, <1>5
  <2>4. Ps[p + 1][1] \in Int /\ 0 <= Ps[p + 1][1] /\ Ps[p + 1][1] <= Len(Data) BY <1>4, <2>3, PlaceFacts
  <2>5. Ps[p + 1][1] = Len(Data) <=> p = Len(Us) BY <1>4, <1>5, EndPlace
  <2> HIDE DEF offset, p
  <2> QED BY <2>2, <2>4, <2>5
<1>8. \A q \in Viable :
        /\ q \in 0..(Len(Us) - 1) /\ Us[q + 1] \in Nat
        /\ Us[q + 1] >= 128 \/ Admits(P.first, Us[q + 1])
        /\ OneStart => q = job.from
  BY <1>5, FirstClaimed, ViableIn
<1> HIDE DEF offset, p
<1>9. CASE v.mark.half
  <2>1. Trying(v.start, v.requiredAt) BY <1>2, <1>4, <1>9 DEF Trying, Scanning
  <2>2. SearchKnows(In("Initialize"), v.mark.units, v.mark.half, v.start, v.requiredAt) BY <2>1 DEF SearchKnows
  <2>3. IsGood(Become(v, In("Initialize"))) BY <1>1, <2>2, PhaseMoves
  <2>4. MixedCandidate(v, available) = Spend(v, 1, Become(v, In("Initialize"))) BY <1>3, <1>9, Zenon
  <2> QED BY <2>3, <2>4, SpendKeeps
<1>10. CASE ~v.mark.half /\ offset = Len(Data)
  <2>1. Viable = {}
    <3> SUFFICES ASSUME NEW q \in Viable PROVE FALSE OBVIOUS
    <3>1. q \in 0..(Len(Us) - 1) /\ p <= q BY <1>5, <1>8
    <3> QED BY <1>4, <1>7, <1>10, <3>1
  <2>2. IsGood(Finished(v)) BY <1>1, <2>1, Finishes
  <2>3. MixedCandidate(v, available) = Spend(v, 1, Finished(v)) BY <1>3, <1>10, Zenon
  <2> QED BY <2>2, <2>3, SpendKeeps
<1>11. CASE ~v.mark.half /\ offset # Len(Data) /\ v.budget = 0
  <2>1. MixedCandidate(v, available) = Spend(v, 1, v) BY <1>3, <1>11, Zenon
  <2> QED BY <2>1, SpendKeeps
<1>12. CASE ~v.mark.half /\ offset # Len(Data) /\ v.budget # 0
  <2>1. MixedCandidate(v, available) = Spend(v, cost, then) BY <1>3, <1>12, Zenon
  <2>2. count \in Nat /\ count >= 1 /\ offset + count <= Len(Data) /\ (OneStart => count = 1)
    <3>1. most \in Nat /\ most >= 1 /\ (OneStart => most = 1) BY ScanConstants
    <3> HIDE DEF most
    <3> QED BY <1>4, <1>6, <1>7, <1>12, <3>1 DEF Least
  <2> HIDE DEF count
  <2>3. stops \in SUBSET Nat BY <1>7, <2>2
  <2>4. stops # {} => Lowest(stops) \in stops /\ \A x \in stops : Lowest(stops) <= x
    <3> HIDE DEF stops
    <3> QED BY <2>3, LowestIs
  <2>5. passed \in 0..count /\ (stops # {} => passed < count)
    <3>1. stops # {} => Lowest(stops) \in offset..(offset + count - 1) BY <2>4
    <3> HIDE DEF stops
    <3> QED BY <1>7, <2>2, <3>1
  <2>6. \A i \in 1..passed : ~Stops(Data[offset + i])
    <3> SUFFICES ASSUME NEW i \in 1..passed, Stops(Data[offset + i]) PROVE FALSE OBVIOUS
    <3> DEFINE x == offset + i - 1
    <3>1. i \in Nat /\ passed \in Nat /\ i >= 1 /\ i <= passed /\ passed <= count BY <2>2, <2>5
    <3> HIDE DEF passed
    <3>2. x \in offset..(offset + count - 1) /\ x + 1 = offset + i BY <1>7, <2>2, <3>1
    <3>3. Stops(Byte(x)) BY <3>2 DEF Byte
    <3> HIDE DEF x
    <3>4. x \in stops BY <3>2, <3>3
    <3>5. Lowest(stops) <= x /\ passed = Lowest(stops) - offset /\ Lowest(stops) \in Nat
      <4>1. Lowest(stops) <= x /\ Lowest(stops) \in stops BY <2>4, <3>4
      <4> HIDE DEF stops
      <4> QED BY <2>3, <3>4, <4>1 DEF passed
    <3> HIDE DEF stops
    <3> QED BY <1>7, <3>1, <3>5 DEF x
  <2>7. cost \in Int
    <3> HIDE DEF stops, passed
    <3> QED BY <2>2, <2>5
  <2> HIDE DEF passed
  <2>8. passed \in Nat /\ offset + passed <= Len(Data) BY <1>4, <1>7, <2>2, <2>5
  <2>9. \A i \in 1..passed : Data[offset + i] < 128
    <3>1. \A i \in 1..passed : offset + i \in 1..Len(Data) BY <1>4, <1>7, <2>8
    <3>2. \A x \in 1..Len(Data) : Data[x] \in Octet BY <1>4
    <3>3. Octet \subseteq Int BY DEF Octet
    <3>4. \A i \in 1..passed : Data[offset + i] \in Int BY <3>1, <3>2, <3>3, Zenon
    <3> QED BY <2>6, <3>4 DEF Stops
  <2> DEFINE q == p + passed
  <2>10. /\ q <= Len(Us) /\ mark = Stand(V, Ps, q) /\ ~mark.half /\ mark.offset = offset + passed
         /\ \A i \in 1..passed : Us[p + i] = Data[offset + i]
    <3>1. v.mark.offset + passed <= Len(Data) /\ \A i \in 1..passed : Data[v.mark.offset + i] < 128
      BY <2>8, <2>9 DEF offset
    <3>2. ~v.mark.half BY <1>12
    <3> DEFINE m == v.mark
    <3> HIDE DEF m
    <3>3. /\ q <= Len(Us) /\ SkipAscii(V, m, passed) = Stand(V, Ps, q) /\ ~Stand(V, Ps, q).half
          /\ Stand(V, Ps, q).offset = m.offset + passed
          /\ \A i \in 1..passed : Us[p + i] = Data[m.offset + i]
      BY <1>4, <1>5, <1>6, <2>8, <3>1, <3>2, PassedIs DEF m
    <3> QED BY <3>3, Zenon DEF m, offset
  <2> HIDE DEF mark
  <2>11. q \in 0..Len(Us) /\ mark.units = q BY <1>4, <1>5, <2>8, <2>10, StandIs
  <2>12. \A x \in Viable : q <= x
    <3> SUFFICES ASSUME NEW x \in Viable, ~(q <= x) PROVE FALSE OBVIOUS
    <3>1. x \in 0..(Len(Us) - 1) /\ p <= x /\ Us[x + 1] \in Nat /\ (Us[x + 1] >= 128 \/ Admits(P.first, Us[x + 1]))
      BY <1>5, <1>8
    <3> DEFINE i == x + 1 - p
    <3>2. i \in 1..passed /\ p + i = x + 1 BY <1>4, <1>5, <2>8, <3>1
    <3> HIDE DEF i
    <3>3. Us[x + 1] = Data[offset + i] BY <2>10, <3>2
    <3>4. ~Stops(Us[x + 1]) BY <2>6, <3>2, <3>3
    <3> QED BY <3>1, <3>4 DEF Stops
  <2> HIDE DEF q, cost
  <2>13. CASE stops # {}
    <3>1. OneStart => q = job.from BY <1>4, <1>5, <2>2, <2>5, <2>13 DEF q
    <3>2. job.from <= q BY <1>4, <1>5, <2>8 DEF q
    <3>3. Trying(q, v.requiredAt) BY <1>4, <2>11, <2>12, <3>1, <3>2 DEF Trying, Clear
    <3>4. begun = [v EXCEPT !.mark = mark, !.start = q, !.phase = In("Initialize")] BY <2>11
    <3> HIDE DEF begun
    <3>5. /\ IsState(begun) /\ begun.phase = In("Initialize") /\ begun.mark = mark /\ begun.start = q
          /\ begun.budget = v.budget /\ begun.requiredAt = v.requiredAt /\ begun.requiredFrom = v.requiredFrom
          /\ begun.verified = v.verified /\ begun.used = v.used
      BY <1>6, <3>4 DEF IsState, Fields
    <3>6. SearchKnows(begun.phase, q, begun.mark.half, begun.start, begun.requiredAt) BY <3>3, <3>5 DEF SearchKnows
    <3>7. begun.mark = Stand(V, Ps, q) BY <2>10, <3>5
    <3>8. IsGood(begun) BY <1>1, <2>11, <3>5, <3>6, <3>7, ByParts
    <3>9. IsGood(then) BY <2>13, <3>8, Zenon
    <3> HIDE DEF then
    <3> QED BY <2>1, <2>7, <3>9, SpendKeeps
  <2>14. CASE stops = {} /\ (OneStart \/ offset + count = Len(Data))
    <3>1. passed = count BY <2>14 DEF passed
    <3>2. Viable = {}
      <4> SUFFICES ASSUME NEW x \in Viable PROVE FALSE OBVIOUS
      <4>1. x \in 0..(Len(Us) - 1) /\ q <= x /\ (OneStart => x = p) BY <1>5, <1>8, <2>12
      <4>2. ~OneStart BY <1>4, <1>5, <2>2, <3>1, <4>1 DEF q
      <4>3. mark.offset = Len(Data) BY <2>10, <2>14, <3>1, <4>2
      <4>4. q = Len(Us)
        <5>1. mark = Mark(Ps[q + 1][1], Ps[q + 1][2], q) BY <1>4, <2>10, Zenon DEF Stand
        <5>2. Ps[q + 1][1] = Len(Data) BY <4>3, <5>1 DEF Mark
        <5> QED BY <1>4, <2>11, <5>2, EndPlace
      <4> QED BY <1>4, <4>1, <4>4
    <3>3. IsGood(Finished(v)) BY <1>1, <3>2, Finishes
    <3>4. IsGood(then) BY <2>14, <3>3, Zenon
    <3> HIDE DEF then
    <3> QED BY <2>1, <2>7, <3>4, SpendKeeps
  <2>15. CASE stops = {} /\ ~(OneStart \/ offset + count = Len(Data))
    <3>1. job.from <= q BY <1>4, <1>5, <2>8 DEF q
    <3>2. Scanning(q) BY <1>4, <1>5, <2>11, <2>12, <2>15, <3>1 DEF Scanning, Clear
    <3>3. SearchKnows(v.phase, q, mark.half, v.start, v.requiredAt) BY <1>2, <2>10, <3>2, Zenon DEF SearchKnows
    <3>4. IsGood([v EXCEPT !.mark = mark]) BY <1>1, <2>10, <2>11, <3>3, MarkStays
    <3>5. IsGood(then) BY <2>15, <3>4, Zenon
    <3> HIDE DEF then
    <3> QED BY <2>1, <2>7, <3>5, SpendKeeps
  <2> QED BY <2>13, <2>14, <2>15
<1> QED BY <1>9, <1>10, <1>11, <1>12

LEMMA CandidateKeeps ==
  ASSUME JobTrue, NEW v, IsGood(v), v.phase.is = "Candidate", NEW available \in Int, available > 0
  PROVE  IsGood(Candidate(v, available))
BY AsciiKeeps, MixedKeeps, Zenon DEF Candidate

LEMMA InitializeKeeps ==
  ASSUME JobTrue, NEW v, IsGood(v), v.phase.is = "Initialize"
  PROVE  IsGood(Initialize(v))
<1> DEFINE skipped == IF v.verified = 0 THEN 0 ELSE P.leading_pc - 1 + v.verified
           at == v.start + v.verified
           mark == CursorAt(V, at)
           then == [v EXCEPT !.phase = In("Trial"), !.mark = mark]
<1>1. Initialize(v) = Spend(v, 2 * P.captures + skipped, then) BY Zenon DEF Initialize
<1>2. /\ IsState(v) /\ v.budget \in Nat /\ v.used \in Int /\ NoteTrue(v.requiredAt, v.requiredFrom)
      /\ RunTrue(v.phase, v.start, v.verified)
  BY Zenon DEF IsGood, Knows
<1>3. Trying(v.start, v.requiredAt)
  <2>1. SearchKnows(v.phase, v.mark.units, v.mark.half, v.start, v.requiredAt) BY Searching
  <2> QED BY <2>1, SearchTags
<1>4. v.start \in 0..Len(Us) /\ Len(Us) \in Nat BY <1>3, Context DEF Trying, Clear
<1>5. v.verified \in Nat /\ at \in 0..Len(Us)
  <2>1. CASE v.verified = 0 BY <1>4, <2>1
  <2>2. CASE v.verified # 0
    <3>1. V.kind = "ascii" /\ Len(P.runs) = 1 /\ v.verified = Len(P.runs[1]) /\ Has(v.start, P.runs[1])
      BY <1>2, <2>2 DEF RunTrue
    <3>2. P.runs[1] \in Seq(Nat)
      <4>1. P.runs \in Seq(Seq(Nat)) BY DEF JobTrue, ClaimsAre
      <4>2. 1 \in 1..Len(P.runs) BY <3>1
      <4> QED BY <4>1, <4>2
    <3>3. v.start + Len(P.runs[1]) <= Len(Data) BY <3>1, Zenon DEF Has, Holds
    <3>4. Data = Us BY <3>1, Context
    <3> QED BY <1>4, <3>1, <3>2, <3>3, <3>4
  <2> QED BY <2>1, <2>2
<1>6. 2 * P.captures + skipped \in Int
  <2>1. P.captures \in Nat /\ P.leading_pc \in Nat BY DEF JobTrue, ClaimsAre
  <2> QED BY <1>5, <2>1
<1> HIDE DEF at
<1>7. mark = Stand(V, Ps, at) /\ mark.units = at BY <1>5, CursorAtIs, StandIs DEF JobTrue
<1> HIDE DEF mark
<1>8. /\ IsState(then) /\ then.phase = In("Trial") /\ then.mark = mark /\ then.start = v.start
      /\ then.budget = v.budget /\ then.requiredAt = v.requiredAt /\ then.requiredFrom = v.requiredFrom
      /\ then.verified = v.verified /\ then.used = v.used
  BY <1>2 DEF IsState, Fields
<1> HIDE DEF then
<1>9. RunTrue(then.phase, then.start, then.verified)
  <2>1. then.phase.is = "Trial" BY <1>8 DEF In
  <2> QED BY <1>2, <1>8, <2>1 DEF RunTrue
<1>10. SearchKnows(then.phase, mark.units, mark.half, then.start, then.requiredAt) BY <1>3, <1>8 DEF SearchKnows
<1>11. Knows(then.phase, then.mark, then.start, then.requiredAt, then.requiredFrom, then.verified)
  BY <1>2, <1>5, <1>7, <1>8, <1>9, <1>10 DEF Knows
<1>12. IsGood(then) BY <1>2, <1>8, <1>11 DEF IsGood
<1> QED BY <1>1, <1>6, <1>12, SpendKeeps

LEMMA TrialKeeps ==
  ASSUME JobTrue, NEW v, IsGood(v), v.phase.is = "Trial"
  PROVE  IsGood(Trial(v))
<1> DEFINE mark == CursorAt(V, v.start)
           next == [v EXCEPT !.phase = In("NextStart"), !.mark = mark, !.verified = 0]
           then == IF v.start \in job.matches THEN Become(v, In("Match")) ELSE next
<1>1. Trial(v) = Spend(v, 1, then) BY Zenon DEF Trial
<1>2. /\ IsState(v) /\ v.budget \in Nat /\ v.used \in Int /\ NoteTrue(v.requiredAt, v.requiredFrom)
      /\ RunTrue(v.phase, v.start, v.verified) /\ v.mark.units \in 0..Len(Us)
      /\ v.mark = Stand(V, Ps, v.mark.units)
  BY Zenon DEF IsGood, Knows
<1>3. Clear(v.start) /\ v.start \in 0..Len(Us)
  <2>1. SearchKnows(v.phase, v.mark.units, v.mark.half, v.start, v.requiredAt) BY Searching
  <2> QED BY <2>1, SearchTags DEF Trying, Clear
<1>4. mark = Stand(V, Ps, v.start) /\ mark.units = v.start BY <1>3, CursorAtIs, StandIs DEF JobTrue
<1> HIDE DEF mark
<1>5. CASE v.start \in job.matches
  <2> DEFINE w == [v EXCEPT !.phase = In("Match")]
  <2>1. /\ IsState(w) /\ w.phase = In("Match") /\ w.mark = v.mark /\ w.start = v.start
        /\ w.budget = v.budget /\ w.requiredAt = v.requiredAt /\ w.requiredFrom = v.requiredFrom
        /\ w.verified = v.verified /\ w.used = v.used
    BY <1>2 DEF IsState, Fields
  <2>2. then = w BY <1>5, Zenon DEF Become
  <2> HIDE DEF w, then
  <2>3. RunTrue(w.phase, w.start, w.verified)
    <3>1. w.phase.is = "Match" BY <2>1 DEF In
    <3> QED BY <1>2, <2>1, <3>1 DEF RunTrue
  <2>4. SearchKnows(w.phase, w.mark.units, w.mark.half, w.start, w.requiredAt) BY <1>3, <1>5, <2>1, Zenon DEF SearchKnows
  <2>5. Knows(w.phase, w.mark, w.start, w.requiredAt, w.requiredFrom, w.verified) BY <1>2, <2>1, <2>3, <2>4 DEF Knows
  <2>6. IsGood(w) BY <1>2, <2>1, <2>5 DEF IsGood
  <2> QED BY <1>1, <2>2, <2>6, SpendKeeps
<1>6. CASE v.start \notin job.matches
  <2>1. /\ IsState(next) /\ next.phase = In("NextStart") /\ next.mark = mark /\ next.start = v.start
        /\ next.budget = v.budget /\ next.requiredAt = v.requiredAt /\ next.requiredFrom = v.requiredFrom
        /\ next.verified = 0 /\ next.used = v.used
    BY <1>2 DEF IsState, Fields
  <2>2. then = next BY <1>6, Zenon
  <2> HIDE DEF next, then
  <2>3. SearchKnows(next.phase, v.start, next.mark.half, next.start, next.requiredAt)
    BY <1>3, <1>6, <2>1, Zenon DEF SearchKnows
  <2>4. next.mark = Stand(V, Ps, v.start) BY <1>4, <2>1
  <2>5. IsGood(next) BY <1>3, <2>1, <2>3, <2>4, ByParts
  <2> QED BY <1>1, <2>2, <2>5, SpendKeeps
<1> QED BY <1>5, <1>6

LEMMA NextStartKeeps ==
  ASSUME JobTrue, NEW v, IsGood(v), v.phase.is = "NextStart"
  PROVE  IsGood(NextStart(v))
<1> DEFINE p == v.mark.units
           read == NextUnit(V, v.mark)
           then == IF read.value = None THEN Finished(v) ELSE Began(v, read.mark)
<1>1. NextStart(v) = IF OneStart THEN Finished(v) ELSE Spend(v, 1, then) BY Zenon DEF NextStart
<1>2. SearchKnows(v.phase, p, v.mark.half, v.start, v.requiredAt) /\ v.verified = 0 BY Searching
<1>3. Clear(p) /\ p \notin job.matches BY <1>2, SearchTags
<1>4. p \in 0..Len(Us) /\ v.mark = Stand(V, Ps, p) BY StateParts
<1>5. /\ Viable \subseteq job.matches /\ job.matches \subseteq 0..Len(Us)
      /\ \A q \in Viable : job.from <= q /\ (OneStart => q = job.from)
  BY ViableIn
<1>6. job.from <= p /\ (OneStart => p = job.from) /\ \A q \in Viable : p <= q BY <1>3 DEF Clear
<1>7. Len(Us) \in Nat /\ job.from \in Nat BY Context
<1>8. /\ read.value = UnitHere(Us, p) /\ read.mark = Stand(V, Ps, Least(Len(Us), p + 1))
      /\ UnitHere(Us, p) = None <=> p = Len(Us)
      /\ p < Len(Us) => Least(Len(Us), p + 1) = p + 1 /\ p + 1 \in 0..Len(Us)
  BY <1>4, Reads, Zenon
<1> HIDE DEF p, read
<1>9. \A q \in Viable : q # p /\ q \in 0..Len(Us) BY <1>3, <1>5
<1>10. CASE OneStart
  <2>1. Viable = {} BY <1>5, <1>6, <1>9, <1>10
  <2>2. IsGood(Finished(v)) BY <1>2, <2>1, Finishes
  <2> QED BY <1>1, <1>10, <2>2
<1>11. CASE ~OneStart /\ read.value = None
  <2>1. p = Len(Us) BY <1>8, <1>11
  <2>2. Viable = {}
    <3> SUFFICES ASSUME NEW q \in Viable PROVE FALSE OBVIOUS
    <3>1. q # p /\ q \in 0..Len(Us) /\ p <= q BY <1>6, <1>9
    <3> QED BY <1>7, <2>1, <3>1
  <2>3. IsGood(Finished(v)) BY <1>2, <2>2, Finishes
  <2>4. NextStart(v) = Spend(v, 1, Finished(v)) BY <1>1, <1>11, Zenon
  <2> QED BY <2>3, <2>4, SpendKeeps
<1>12. CASE ~OneStart /\ read.value # None
  <2>1. p < Len(Us) BY <1>4, <1>7, <1>8, <1>12
  <2>2. read.mark = Stand(V, Ps, p + 1) /\ p + 1 \in 0..Len(Us) BY <1>8, <2>1, Zenon
  <2>3. \A q \in Viable : p + 1 <= q
    <3> SUFFICES ASSUME NEW q \in Viable PROVE p + 1 <= q OBVIOUS
    <3>1. q # p /\ q \in 0..Len(Us) /\ p <= q BY <1>6, <1>9
    <3> QED BY <1>4, <1>7, <3>1
  <2>4. job.from <= p + 1 BY <1>4, <1>6, <1>7
  <2>5. Clear(p + 1) BY <1>12, <2>2, <2>3, <2>4, Zenon DEF Clear
  <2>6. IsGood(Began(v, read.mark)) BY <1>2, <2>2, <2>5, BeganKeeps
  <2>7. NextStart(v) = Spend(v, 1, Began(v, read.mark)) BY <1>1, <1>12, Zenon
  <2> QED BY <2>6, <2>7, SpendKeeps
<1> QED BY <1>10, <1>11, <1>12
-----------------------------------------------------------------------------
(* What is known of a state is known of it in the next one: no step        *)
(* changes the search it belongs to.                                       *)
LEMMA Carried ==
  ASSUME JobTrue, job' = job, IsGood(s')
  PROVE  JobTrue' /\ IsGood(s)'
<1>1. V' = V /\ P' = P BY DEF V, P
<1>2. Data' = Data BY <1>1 DEF Data
<1>3. Us' = Us /\ Ps' = Ps BY <1>1, <1>2 DEF Us, Ps
<1>4. Condition' = Condition BY <1>1 DEF Condition
<1>5. Needle' = Needle BY <1>4 DEF Needle
<1>6. OneStart' = OneStart /\ ConditionFrom' = ConditionFrom BY <1>1 DEF OneStart, ConditionFrom
<1>7. Viable' = Viable BY <1>1 DEF Viable
<1>8. Needled' = Needled /\ Classed' = Classed BY <1>1, <1>5 DEF Needled, Classed
<1>9. NeedledBytes' = NeedledBytes BY <1>1, <1>5, <1>8 DEF NeedledBytes
<1>10. JobTrue' BY <1>1, <1>3 DEF JobTrue
<1>11. /\ IsState(s') /\ s'.budget \in Nat /\ s'.used \in Int
       /\ s'.mark.units \in 0..Len(Us) /\ s'.mark = Stand(V, Ps, s'.mark.units)
       /\ NoteTrue(s'.requiredAt, s'.requiredFrom) /\ RunTrue(s'.phase, s'.start, s'.verified)
       /\ \/ AdmissionKnows(s'.phase, s'.mark.units)
          \/ SearchKnows(s'.phase, s'.mark.units, s'.mark.half, s'.start, s'.requiredAt)
  BY Zenon DEF IsGood, Knows
<1>12. NoteTrue(s.requiredAt, s.requiredFrom)' BY <1>1, <1>2, <1>5, <1>8, <1>11 DEF NoteTrue, Has
<1>13. RunTrue(s.phase, s.start, s.verified)' BY <1>1, <1>2, <1>11 DEF RunTrue, Has
<1>14. AdmissionKnows(s'.phase, s'.mark.units) => AdmissionKnows(s.phase, s.mark.units)'
  BY <1>1, <1>2, <1>3, <1>4, <1>5, <1>6, <1>8, <1>9
  DEF AdmissionKnows, InClass, NotBetween, NotBefore, Has, Byte
<1>15. SearchKnows(s'.phase, s'.mark.units, s'.mark.half, s'.start, s'.requiredAt)
         => SearchKnows(s.phase, s.mark.units, s.mark.half, s.start, s.requiredAt)'
  BY <1>1, <1>2, <1>3, <1>5, <1>6, <1>7
  DEF SearchKnows, Beyond, Scanning, Clear, Trying, NotBetween, Has
<1>16. Knows(s.phase, s.mark, s.start, s.requiredAt, s.requiredFrom, s.verified)'
  BY <1>1, <1>3, <1>11, <1>12, <1>13, <1>14, <1>15 DEF Knows
<1>17. IsState(s)' BY <1>11 DEF IsState
<1> QED BY <1>10, <1>11, <1>16, <1>17 DEF IsGood

LEMMA Begins == Init => Inductive
<1> SUFFICES ASSUME Init PROVE Inductive OBVIOUS
<1>c. PICK choice \in {<<k, Programs[k]>> : k \in DOMAIN Programs}, bytes \in Texts :
        \E units \in {Text(bytes).units} :
        \E matches \in {choice[2].matches[units]}, view \in {Wtf8(bytes), Utf16(units)} :
        \E from \in Froms, budget \in Budgets :
          /\ from <= view.units
          /\ job = [program |-> choice[2].claims, view |-> view, from |-> from, budget |-> budget,
                    matches |-> matches]
          /\ s = Begin(budget)
  BY DEF Init
<1>p. PICK k \in DOMAIN Programs : choice[2] = Programs[k] OBVIOUS
<1>v. PICK view \in {Wtf8(bytes), Utf16(Text(bytes).units)} :
        \E from \in Froms, budget \in Budgets :
          /\ from <= view.units
          /\ job = [program |-> Programs[k].claims, view |-> view, from |-> from, budget |-> budget,
                    matches |-> Programs[k].matches[Text(bytes).units]]
          /\ s = Begin(budget)
  BY <1>c, <1>p
<1>1. PICK from \in Froms, budget \in Budgets :
        /\ from <= view.units
        /\ job = [program |-> Programs[k].claims, view |-> view, from |-> from, budget |-> budget,
                  matches |-> Programs[k].matches[Text(bytes).units]]
        /\ s = Begin(budget)
  BY <1>v
<1>2. /\ bytes \in Seq(Octet) /\ Text(bytes).error = None
      /\ from \in Nat /\ budget \in Nat /\ ClaimsAre(Programs[k].claims)
      /\ ClaimsHold(Programs[k].claims, Text(bytes).units, Programs[k].matches[Text(bytes).units])
  BY ScanConstants DEF Octet
<1>3. V = view /\ P = Programs[k].claims /\ job.from = from /\ job.matches = Programs[k].matches[Text(bytes).units]
  BY <1>1 DEF V, P
<1>4. Viewed(view, Text(bytes).units, Text(bytes).places)
      /\ Viewed(Utf16(Text(bytes).units), Text(bytes).units, <<>>)
  <2>1. Viewed(Wtf8(bytes), Text(bytes).units, Text(bytes).places)
        /\ Viewed(Utf16(Text(bytes).units), Text(bytes).units, Text(bytes).places)
        /\ Text(bytes).units \in Seq(Nat)
    BY <1>2, TextViewed
  <2>2. Viewed(Utf16(Text(bytes).units), Text(bytes).units, <<>>) BY <2>1 DEF Viewed, Utf16, View
  <2> QED BY <1>1, <2>1, <2>2
<1>5. Viewed(V, Us, Ps) /\ Us = Text(bytes).units
  <2>1. CASE view = Utf16(Text(bytes).units)
    <3>1. V.kind = "units" /\ Data = Text(bytes).units BY <1>3, <2>1 DEF Data, Utf16, View
    <3>2. Us = Text(bytes).units /\ Ps = <<>> BY <3>1 DEF Us, Ps
    <3> QED BY <1>3, <1>4, <2>1, <3>2
  <2>2. CASE view = Wtf8(bytes)
    <3>1. V.kind # "units" /\ Data = bytes BY <1>3, <2>2 DEF Data, Wtf8, View
    <3>2. Us = Text(bytes).units /\ Ps = Text(bytes).places BY <3>1 DEF Us, Ps
    <3> QED BY <1>3, <1>4, <3>2
  <2> QED BY <1>1, <2>1, <2>2
<1>6. view.units = Len(Us) /\ Len(Us) \in Nat BY <1>3, <1>5 DEF Viewed
<1>7. JobTrue BY <1>1, <1>2, <1>3, <1>5, <1>6 DEF JobTrue
<1>8. IsGood(s)
  <2>1. s.mark = Stand(V, Ps, 0) /\ s.mark.units = 0 BY <1>1, <1>7, ZeroStands DEF Begin, Mark
  <2>2. /\ IsState(s) /\ s.phase = In("Admission") /\ s.budget \in Nat /\ s.used = 0
        /\ s.requiredAt = UNSET /\ s.verified = 0
    BY <1>1, <1>2 DEF Begin, IsState, Fields
  <2>3. AdmissionKnows(s.phase, s.mark.units) BY <2>2 DEF AdmissionKnows
  <2>4. NoteTrue(s.requiredAt, s.requiredFrom) /\ RunTrue(s.phase, s.start, s.verified)
    BY <2>2 DEF NoteTrue, RunTrue
  <2>5. 0 \in 0..Len(Us) BY <1>6
  <2> QED BY <2>1, <2>2, <2>3, <2>4, <2>5 DEF IsGood, Knows
<1> QED BY <1>7, <1>8 DEF Inductive, Init

LEMMA Continues == Inductive /\ [Next]_vars => Inductive'
<1> SUFFICES ASSUME Inductive, [Next]_vars PROVE Inductive' OBVIOUS
<1>1. JobTrue /\ IsGood(s) /\ window \in Int BY DEF Inductive
<1>2. ASSUME NEW tag, NEW step, IsGood(step), Runs(tag, step) PROVE Inductive'
  <2>1. s' = step /\ job' = job /\ window' = window - (s'.used - s.used) BY <1>2 DEF Runs
  <2>2. IsGood(s') BY <1>2, <2>1
  <2>3. window' \in Int BY <1>1, <2>1, <2>2 DEF IsGood
  <2> QED BY <1>1, <2>1, <2>2, <2>3, Carried DEF Inductive
<1>3. CASE UNCHANGED vars
  <2>1. IsGood(s') /\ job' = job /\ window' \in Int BY <1>1, <1>3 DEF vars
  <2> QED BY <1>1, <2>1, Carried DEF Inductive
<1>4. CASE Advance
  <2>1. s' = s /\ job' = job /\ window' \in Int BY <1>4, ScanConstants DEF Advance
  <2>2. IsGood(s') BY <1>1, <2>1
  <2> QED BY <1>1, <2>1, <2>2, Carried DEF Inductive
<1>5. CASE Runs("Admission", Admission(s))
  BY <1>1, <1>2, <1>5, AdmissionKeeps DEF Runs
<1>6. CASE Runs("AdmitByteClass", AdmitByteClass(s)) \/ Runs("AdmitClass", AdmitClass(s))
  BY <1>1, <1>2, <1>6, ByteClassKeeps, ClassKeeps DEF Runs
<1>7. CASE Runs("AdmitBytes", AdmitBytes(s)) \/ Runs("AdmitSuffix", AdmitSuffix(s))
  BY <1>1, <1>2, <1>7, BytesKeep, SuffixKeeps DEF Runs
<1>8. CASE Runs("AdmitScan", AdmitScan(s)) \/ Runs("AdmitProbe", AdmitProbe(s))
  BY <1>1, <1>2, <1>8, ScanKeeps, ProbeKeeps DEF Runs
<1>9. CASE Runs("BoundPrepare", BoundPrepare(s)) \/ Runs("BoundScan", BoundScan(s))
  BY <1>1, <1>2, <1>9, BoundPrepareKeeps, BoundScanKeeps DEF Runs
<1>10. CASE Runs("Start", Start(s, window)) \/ Runs("Seek", Seek(s, window))
  BY <1>1, <1>2, <1>10, StartKeeps, SeekKeeps DEF Runs
<1>11. CASE Runs("Candidate", Candidate(s, window)) \/ Runs("Initialize", Initialize(s))
  BY <1>1, <1>2, <1>11, CandidateKeeps, InitializeKeeps DEF Runs
<1>12. CASE Runs("Trial", Trial(s)) \/ Runs("NextStart", NextStart(s))
  BY <1>1, <1>2, <1>12, TrialKeeps, NextStartKeeps DEF Runs
<1> QED BY <1>3, <1>4, <1>5, <1>6, <1>7, <1>8, <1>9, <1>10, <1>11, <1>12 DEF Next

LEMMA Always == Spec => []Inductive
BY Begins, Continues, PTL DEF Spec

(* However a search skips places (by the last character, in a short        *)
(* remainder, by the condition, in rounds, words and blocks, bound by a    *)
(* note), it finds the first place from its start on that the pattern      *)
(* matches at, and finds none only when there is none.                     *)
THEOREM SearchIsRight == Spec => []AnswersRight
<1>1. Inductive => AnswersRight
  <2> SUFFICES ASSUME Inductive PROVE AnswersRight OBVIOUS
  <2>1. JobTrue /\ IsGood(s) BY DEF Inductive
  <2>2. ASSUME s.phase.is = "Match" PROVE s.start \in Viable /\ \A p \in Viable : s.start <= p
    <3>1. SearchKnows(s.phase, s.mark.units, s.mark.half, s.start, s.requiredAt) BY <2>1, <2>2, Searching
    <3>2. Clear(s.start) /\ s.start \in job.matches BY <2>2, <3>1, SearchTags
    <3>3. job.from <= s.start /\ (OneStart => s.start = job.from) /\ s.start \in Int /\ job.from \in Int
      BY <2>1, <3>2, Context DEF Clear
    <3> QED BY <3>2, <3>3 DEF Viable, Clear, OneStart
  <2>3. ASSUME s.phase.is = "NoMatch" PROVE Viable = {}
    <3>1. SearchKnows(s.phase, s.mark.units, s.mark.half, s.start, s.requiredAt) BY <2>1, <2>3, Searching
    <3> QED BY <2>3, <3>1, SearchTags
  <2> QED BY <2>2, <2>3 DEF AnswersRight
<1> QED BY <1>1, Always, PTL

(* The place a search notes its condition at is one, none is passed over   *)
(* between it and where the next is looked for, no trial begins after it;  *)
(* and the characters a trial skips are there.                             *)
THEOREM NotesHold == Spec => []NotesAreTrue
<1>1. Inductive => NotesAreTrue
  <2> SUFFICES ASSUME Inductive PROVE NotesAreTrue OBVIOUS
  <2>1. JobTrue /\ IsGood(s) BY DEF Inductive
  <2>2. NoteTrue(s.requiredAt, s.requiredFrom) /\ RunTrue(s.phase, s.start, s.verified)
    BY <2>1 DEF IsGood, Knows
  <2>3. ASSUME s.requiredAt # UNSET
        PROVE  s.requiredAt \in Occurrences /\ s.requiredFrom = s.requiredAt + 1
    <3>1. Needled /\ s.requiredAt \in Nat /\ Has(s.requiredAt, Needle) /\ s.requiredFrom = s.requiredAt + 1
      BY <2>2, <2>3 DEF NoteTrue
    <3>2. Needle \in Seq(Nat) /\ Needle # <<>>
      BY <2>1, <3>1 DEF Needled, JobTrue, ClaimsAre, Needle, Condition
    <3>3. Len(Needle) \in Nat /\ Len(Needle) >= 1 BY <3>2
    <3>4. s.requiredAt + Len(Needle) <= Len(Data) /\ Len(Data) \in Nat BY <2>1, <3>1, Context DEF Has, Holds
    <3>5. s.requiredAt \in 0..(Len(Data) - 1) BY <3>1, <3>3, <3>4
    <3> QED BY <3>1, <3>5 DEF Occurrences
  <2>4. ASSUME s.requiredAt # UNSET, s.phase.is = "BoundScan"
        PROVE  \A at \in Occurrences : ~(s.requiredAt < at /\ at < s.phase.offset)
    <3>1. SearchKnows(s.phase, s.mark.units, s.mark.half, s.start, s.requiredAt) BY <2>1, <2>4, Searching
    <3>2. PICK o \in 0..Len(Data) : /\ s.phase = [is |-> "BoundScan", offset |-> o]
                                    /\ NotBetween(s.requiredAt + 1, o)
      BY <2>4, <3>1, SearchTags
    <3>3. s.requiredAt \in Nat /\ Len(Data) \in Nat BY <2>1, <2>2, <2>4, Context DEF NoteTrue
    <3>4. s.phase.offset = o BY <3>2
    <3> SUFFICES ASSUME NEW at \in Occurrences, s.requiredAt < at, at < o PROVE FALSE BY <3>4
    <3>5. at \in 0..(Len(Data) - 1) /\ Has(at, Needle) BY DEF Occurrences
    <3>6. at \in (s.requiredAt + 1)..(o - 1) BY <3>3, <3>5
    <3> QED BY <3>2, <3>5, <3>6 DEF NotBetween
  <2>5. ASSUME s.requiredAt # UNSET, s.phase.is = "Trial", P.forward, Claims(P.first), V.kind = "ascii"
        PROVE  s.start <= s.requiredAt
    <3>1. SearchKnows(s.phase, s.mark.units, s.mark.half, s.start, s.requiredAt) BY <2>1, <2>5, Searching
    <3> QED BY <2>5, <3>1, SearchTags DEF Trying
  <2>6. ASSUME s.phase.is = "Trial", s.verified > 0
        PROVE  Has(s.start, SubSeq(P.runs[1], 1, s.verified))
    <3>1. Len(P.runs) = 1 /\ s.verified = Len(P.runs[1]) /\ Has(s.start, P.runs[1])
      BY <2>2, <2>6 DEF RunTrue
    <3>2. P.runs \in Seq(Seq(Nat)) BY <2>1 DEF JobTrue, ClaimsAre
    <3>3. P.runs[1] \in Seq(Nat) BY <3>1, <3>2
    <3>4. SubSeq(P.runs[1], 1, Len(P.runs[1])) = P.runs[1] BY <3>3
    <3> QED BY <3>1, <3>4
  <2> QED BY <2>3, <2>4, <2>5, <2>6 DEF NotesAreTrue
<1> QED BY <1>1, Always, PTL
================================================================================
