------------------------------ MODULE MCSession ------------------------------
(***************************************************************************)
(* Searches in the host's hands, against what a search of this subject     *)
(* from this start must answer and cost, whatever is called when.          *)
(***************************************************************************)
EXTENDS Session, Sequences

Try(work, push, end) == [work |-> work, push |-> push, end |-> end]
Subject(length, indexed, admits, scans, viable, sticky, trial) ==
  [length |-> length, indexed |-> indexed, admits |-> admits, scans |-> scans, inside |-> {},
   viable |-> viable, sticky |-> sticky, trial |-> [s \in 0 .. length |-> trial[s + 1]]]
Paired(inside, job) == [job EXCEPT !.inside = inside]

miss == Try(1, FALSE, Fails)
slow == Try(2, TRUE, Fails)
hit(end) == Try(2, FALSE, end)
held(end) == Try(2, TRUE, end)

(* The other subject a host may wrongly lend: as UTF-16, matched at once.  *)
Other == Subject(4, TRUE, NoScan, FALSE, {}, FALSE,
                 <<held(1), held(2), held(3), held(4), held(4)>>)

(* A class that admission finds late or never, candidates scanned for and  *)
(* found or not, one start only, and storage with no walk to a start.      *)
Late == Subject(4, FALSE, 3, FALSE, {}, FALSE, <<miss, slow, miss, held(4), miss>>)
Absent == Subject(4, FALSE, 4, FALSE, {}, FALSE, <<hit(1), hit(2), hit(3), hit(4), hit(4)>>)
Scanned == Subject(4, FALSE, NoScan, TRUE, {1, 3}, FALSE, <<hit(1), slow, hit(3), held(3), miss>>)
Sticky == Subject(4, FALSE, NoScan, FALSE, {}, TRUE, <<miss, miss, slow, hit(4), hit(4)>>)
Barren == Subject(4, FALSE, 0, TRUE, {0, 2}, FALSE, <<slow, miss, slow, miss, miss>>)
Indexed == Subject(3, TRUE, NoScan, FALSE, {}, FALSE, <<miss, slow, miss, miss>>)

(* Programs that read pairs, asked to start within one: a class behind the *)
(* pair or nowhere, one start only, candidates found by their bytes.       *)
Behind == Paired({2}, Subject(4, FALSE, 3, FALSE, {}, FALSE, <<hit(1), slow, hit(3), held(4), miss>>))
Nowhere == Paired({1, 3}, Subject(4, FALSE, 4, FALSE, {}, FALSE, <<hit(2), miss, hit(4), miss, hit(4)>>))
OnlyHere == Paired({2}, Subject(4, FALSE, NoScan, FALSE, {}, TRUE, <<hit(1), slow, hit(3), hit(4), hit(4)>>))
Joined == Paired({2}, Subject(4, FALSE, NoScan, TRUE, {1, 3}, FALSE, <<hit(1), miss, hit(3), held(4), miss>>))

Hosted ==
  {<<job, Other>> : job \in {Late, Absent, Scanned, Sticky, Barren, Indexed} \cup {Behind, Nowhere, OnlyHere, Joined}}
==============================================================================
