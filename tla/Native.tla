------------------------------- MODULE Native -------------------------------
(***************************************************************************)
(* A whole search as generated code (native/emit.rs) on the machine it is  *)
(* written for (native/machine.rs), whose operations are an instruction    *)
(* each here, where a target has several.  Subjects are ASCII storage and  *)
(* programs without the i flag.  A label is a name and a number; a value   *)
(* below zero is UNSET or the address of a table.                          *)
(***************************************************************************)
EXTENDS Integers, Sequences, FiniteSets, SequencesExt

E == INSTANCE Emission

CONSTANTS
  Jobs,        (* A sequence of what may be called: a compiled program, a  *)
               (* record of Emission, its subjects, starts and budgets.    *)
  Word,        (* Bytes of a word.                                         *)
  Reach,       (* What an immediate cannot hold.                           *)
  MaxRanges    (* Ranges of a class that is tested.                        *)

ASSUME NativeConstants == Word \in Nat \ {0} /\ Reach \in Nat /\ MaxRanges \in Nat

TableRanges == 2
MaxRepeats == 2

------------------------------------------------------------------------------
(* What code is generated for.                                             *)
Bytes == 0 .. 127

Atom(i) ==
  CASE i.op = "CHAR" -> i.a \in Bytes
    [] i.op \in {"ANY", "ANY_S"} -> TRUE
    [] i.op = "CLASS" ->
         /\ Len(i.a) \in 1 .. MaxRanges
         /\ \A k \in DOMAIN i.a : i.a[k][2] \in Bytes
    [] OTHER -> FALSE

(* A lookbehind whose body is a run of ASCII characters.                   *)
LiteralLookbehind(code, pc) ==
  /\ code[pc].op = "ASSERT" /\ code[pc].b.behind
  /\ code[pc].a - pc - 2 \in 1 .. Reach - 1
  /\ \A k \in pc + 1 .. code[pc].a - 2 : code[k].op = "CHAR" /\ code[k].a \in Bytes

(* Fault: a repeat may be lazy.                                            *)
TriesMost(r) == r.min < Reach /\ (r.infinite \/ r.max < Reach)

RepeatAllowed(r) == ~r.lazy /\ r.min < Reach /\ (r.infinite \/ r.max < Reach)

(* supported: a sequence of atoms, some repeated, and tests of positions.  *)
RECURSIVE SupportedFrom(_, _, _)
SupportedFrom(code, pc, depth) ==
  LET i == code[pc] IN
  CASE i.op = "MATCH" -> TRUE
    [] i.op \in {"SAVE", "START", "END"} -> SupportedFrom(code, pc + 1, depth)
    [] i.op = "ASSERT" -> LiteralLookbehind(code, pc) /\ SupportedFrom(code, i.a, depth)
    [] i.op = "ATOM_REPEAT" ->
         /\ depth < MaxRepeats /\ RepeatAllowed(i.a) /\ Atom(code[pc + 3])
         /\ SupportedFrom(code, i.a.exit, depth + 1)
    [] OTHER -> Atom(i) /\ SupportedFrom(code, pc + 1, depth)

(* Fault: the body of an assertion is counted with the match.              *)
RECURSIVE LeastWithBodies(_, _)
LeastWithBodies(code, pc) ==
  CASE code[pc].op = "MATCH" -> 0
    [] code[pc].op = "ATOM_REPEAT" -> code[pc].a.min + LeastWithBodies(code, code[pc].a.exit)
    [] OTHER -> (IF Atom(code[pc]) THEN 1 ELSE 0) + LeastWithBodies(code, pc + 1)

(* least_from: characters a match must still consume.                      *)
RECURSIVE LeastFrom(_, _)
LeastFrom(code, pc) ==
  CASE code[pc].op = "MATCH" -> 0
    [] code[pc].op = "ATOM_REPEAT" -> code[pc].a.min + LeastFrom(code, code[pc].a.exit)
    [] code[pc].op = "ASSERT" -> LeastFrom(code, code[pc].a)
    [] OTHER -> (IF Atom(code[pc]) THEN 1 ELSE 0) + LeastFrom(code, pc + 1)

EndBound(program) == program.bound # E!Unbounded

(* What is generated, and not refused as too large.                        *)
Supported(program) ==
  /\ ~program.sticky /\ SupportedFrom(program.code, 1, 0)
  /\ LeastFrom(program.code, 1) < Reach
  /\ EndBound(program) => program.bound < Reach

(* required_first_byte: the byte every match begins with, UNSET if none.   *)
UNSET == -1
RECURSIVE FirstByte(_, _)
FirstByte(code, pc) ==
  LET i == code[pc] IN
  CASE i.op \in {"SAVE", "START", "END"} -> FirstByte(code, pc + 1)
    [] i.op = "ASSERT" -> FirstByte(code, i.a)
    [] i.op = "CHAR" -> i.a
    [] i.op = "ATOM_REPEAT" /\ i.a.min > 0 /\ code[pc + 3].op = "CHAR" -> code[pc + 3].a
    [] OTHER -> UNSET

------------------------------------------------------------------------------
(* The instructions of the machine.                                        *)
Label(name, k) == [op |-> "label", label |-> <<name, k>>]
Copy(dst, src) == [op |-> "copy", dst |-> dst, src |-> src]
Ahead(dst, src, by) == [op |-> "ahead", dst |-> dst, src |-> src, by |-> by]
Behind(dst, src, by) == [op |-> "behind", dst |-> dst, src |-> src, by |-> by]
Compare(left, right) == [op |-> "compare", left |-> left, right |-> right]
CompareTo(left, value) == [op |-> "compare_to", left |-> left, value |-> value]
If(cond, to) == [op |-> "branch_if", cond |-> cond, to |-> to]
Branch(to) == [op |-> "branch", to |-> to]
Back(to) == [op |-> "branch_back", to |-> to, out |-> <<"out of budget", 0>>]
Load(index) == [op |-> "load_byte", index |-> index]
Roomless == [op |-> "start_without_room", to |-> <<"no match", 0>>]
Return(code) == [op |-> "return", code |-> code]

End(depth) == <<"END 1", "END 2">>[depth]
Floor(depth) == <<"FLOOR 1", "FLOOR 2">>[depth]

(* give_up: to the innermost open repeat, or to the next start.            *)
GiveUp(depth) == <<IF depth = 0 THEN "next start" ELSE "failures", depth>>

(* The condition of each range of a class, in a row: out to `inside` when  *)
(* the byte is in it.                                                      *)
Ranges(ranges, pc) ==
  FlattenSeq([k \in DOMAIN ranges |->
    << CompareTo("BYTE", ranges[k][1]), If("Less", <<"below", 100 * pc + k>>),
       CompareTo("BYTE", ranges[k][2]), If("AtMost", <<"inside", pc>>), Label("below", 100 * pc + k) >>])

(* emit_atom: to `fail` unless the byte at AT is one the atom takes.       *)
Test(i, pc, tabled, fail) ==
  CASE i.op = "ANY_S" -> <<>>
    [] i.op = "CHAR" -> <<Load("AT"), CompareTo("BYTE", i.a), If("NotEqual", fail)>>
    [] i.op = "ANY" ->
         <<Load("AT"), CompareTo("BYTE", 10), If("Equal", fail), CompareTo("BYTE", 13), If("Equal", fail)>>
    [] i.op = "CLASS" /\ tabled ->
         <<Load("AT"), [op |-> "load_table"], CompareTo("BYTE", 0), If("Equal", fail)>>
    [] i.op = "CLASS" /\ ~tabled /\ Len(i.a) = 1 ->
         <<Load("AT"), [op |-> "byte_within", range |-> i.a[1], inside |-> i.b, to |-> fail]>>
    [] i.op = "CLASS" /\ ~tabled /\ Len(i.a) > 1 ->
         <<Load("AT")>> \o Ranges(i.a, pc)
         \o (IF i.b THEN <<Branch(<<"accepted", pc>>), Label("inside", pc), Branch(fail), Label("accepted", pc)>>
                    ELSE <<Branch(fail), Label("inside", pc)>>)

(* A comparison with the bytes before AT, which the body has backwards.    *)
LookBehind(code, pc, depth) ==
  LET length == code[pc].a - pc - 2
      negative == code[pc].b.negative
      absent == IF negative THEN <<"absent", pc>> ELSE GiveUp(depth)
  IN << CompareTo("AT", length), If("Less", absent), [op |-> "window_before", distance |-> length] >>
     \o FlattenSeq([k \in 1 .. length |->
          << [op |-> "load_window", offset |-> length - k], CompareTo("BYTE", code[pc + k].a),
             If("NotEqual", absent) >>])
     \o (IF negative THEN <<Branch(GiveUp(depth)), Label("absent", pc)>> ELSE <<>>)

(* Fault: a run may go on to the end of the subject.                       *)
LimitAtEnd(code, r) ==
  <<Behind("TMP", "LENGTH", 0)>>
  \o (IF r.infinite THEN <<>> ELSE <<[op |-> "limit_to", offset |-> r.max]>>)

(* How far a run may go: what is needed after it is left.                  *)
Limit(code, r) ==
  <<Behind("TMP", "LENGTH", LeastFrom(code, r.exit))>>
  \o (IF r.infinite THEN <<>> ELSE <<[op |-> "limit_to", offset |-> r.max]>>)

(* A run to its limit; what is after it is entered again at `retry`.       *)
Run(code, pc, depth) ==
  LET r == code[pc].a
      body == code[pc + 3]
      tabled == body.op = "CLASS" /\ Len(body.a) >= TableRanges
  IN <<Ahead(Floor(depth + 1), "AT", r.min)>> \o Limit(code, r)
     \o (IF tabled THEN <<[op |-> "data_address", ranges |-> body.a, negated |-> body.b]>> ELSE <<>>)
     \o <<Label("scan", pc), Compare("AT", "TMP"), If("AtLeast", <<"stop", pc>>)>>
     \o Test(body, pc, tabled, <<"stop", pc>>)
     \o << Ahead("AT", "AT", 1), Back(<<"scan", pc>>), Label("stop", pc), Copy(End(depth + 1), "AT"),
           Compare(End(depth + 1), Floor(depth + 1)), If("Less", GiveUp(depth)),
           Label("retry", depth + 1), Copy("AT", End(depth + 1)) >>

(* A run gives a character back, until its minimum.                        *)
Retreat(depth) ==
  << Label("failures", depth), Compare(End(depth), Floor(depth)), If("AtMost", GiveUp(depth - 1)),
     Behind(End(depth), End(depth), 1), Back(<<"retry", depth>>) >>

(* The body of a search, the retreats of its repeats behind it.            *)
RECURSIVE Body(_, _, _)
Body(code, pc, depth) ==
  LET i == code[pc] IN
  CASE i.op = "MATCH" -> <<Return("start")>> \o FlattenSeq([k \in 1 .. depth |-> Retreat(depth + 1 - k)])
    [] i.op = "SAVE" -> <<[op |-> "store", index |-> i.a]>> \o Body(code, pc + 1, depth)
    [] i.op = "START" -> <<CompareTo("AT", 0), If("NotEqual", GiveUp(depth))>> \o Body(code, pc + 1, depth)
    [] i.op = "END" -> <<Compare("AT", "LENGTH"), If("NotEqual", GiveUp(depth))>> \o Body(code, pc + 1, depth)
    [] i.op = "ASSERT" -> LookBehind(code, pc, depth) \o Body(code, i.a, depth)
    [] i.op = "ATOM_REPEAT" -> Run(code, pc, depth) \o Body(code, i.a.exit, depth + 1)
    [] OTHER -> Test(i, pc, FALSE, GiveUp(depth)) \o <<Ahead("AT", "AT", 1)>> \o Body(code, pc + 1, depth)

(* Fault: a byte found in a word is tried wherever it is.                  *)
ScanUnchecked(byte) ==
  << CompareTo("LENGTH", Word), If("Less", <<"byte at a time", 0>>), Behind("TABLE", "LENGTH", Word),
     [op |-> "splat", byte |-> byte],
     Label("words", 0), Compare("FROM", "TABLE"), If("Greater", <<"byte at a time", 0>>),
     [op |-> "load_word"], [op |-> "first_equal", to |-> <<"absent", 0>>], [op |-> "advance_by"],
     Branch(<<"found", 0>>),
     Label("absent", 0), Ahead("FROM", "FROM", Word), Back(<<"words", 0>>),
     Label("byte at a time", 0), Roomless, Load("FROM"), CompareTo("BYTE", byte), If("Equal", <<"found", 0>>),
     Ahead("FROM", "FROM", 1), Back(<<"byte at a time", 0>>),
     Label("found", 0) >>

(* The search for a byte every match begins with, a word at a time while a *)
(* word is left.  The slots of the repeats are free until the body.        *)
Scan(byte) ==
  << CompareTo("LENGTH", Word), If("Less", <<"byte at a time", 0>>), Behind("TABLE", "LENGTH", Word),
     [op |-> "splat", byte |-> byte],
     Label("words", 0), Compare("FROM", "TABLE"), If("Greater", <<"byte at a time", 0>>),
     [op |-> "load_word"], [op |-> "first_equal", to |-> <<"absent", 0>>], [op |-> "advance_by"],
     Branch(<<"found", 0>>),
     Label("absent", 0), Ahead("FROM", "FROM", Word), Back(<<"words", 0>>),
     Label("byte at a time", 0), Roomless, Load("FROM"), CompareTo("BYTE", byte), If("Equal", <<"found", 0>>),
     Ahead("FROM", "FROM", 1), Back(<<"byte at a time", 0>>),
     Label("found", 0), Roomless >>

(* A bounded match that ends at the end begins at most that far from it.   *)
SkipToBound(bound) ==
  << CompareTo("LENGTH", bound), If("Less", <<"whole", 0>>), Behind("TMP", "LENGTH", bound),
     Compare("FROM", "TMP"), If("AtLeast", <<"whole", 0>>), Copy("FROM", "TMP"), Label("whole", 0) >>

(* generate: the code of a whole search, with its labels in it.            *)
Listing(program) ==
  LET code == program.code
      byte == IF program.anchored THEN UNSET ELSE FirstByte(code, 1)
  IN (IF EndBound(program) THEN SkipToBound(program.bound) ELSE <<>>)
     \o << [op |-> "fix_room", least |-> LeastFrom(code, 1), to |-> <<"no match", 0>>],
           Label("outer", 0), Roomless >>
     \o (IF byte = UNSET THEN <<>> ELSE Scan(byte))
     \o <<Copy("AT", "FROM")>> \o Body(code, 1, 0)
     \o <<Label("next start", 0)>>
     \o (IF program.anchored THEN <<>> ELSE <<Ahead("FROM", "FROM", 1), Back(<<"outer", 0>>)>>)
     \o <<Label("no match", 0), Return("NO_MATCH"), Label("out of budget", 0), Return("EXHAUSTED")>>

(* Machine::bind: every branch by the address of its label.                *)
Assembled(listing) ==
  LET instructions == SelectSeq(listing, LAMBDA i : i.op # "label")
      labels == {k \in DOMAIN listing : listing[k].op = "label"}
      address == [l \in {listing[k].label : k \in labels} |->
                    LET at == CHOOSE k \in labels : listing[k].label = l
                    IN 1 + Cardinality(1 .. at \ labels)]
  IN [k \in DOMAIN instructions |->
        LET i == instructions[k] IN
        IF i.op = "branch_back" THEN [i EXCEPT !.to = address[i.to], !.out = address[i.out]]
        ELSE IF "to" \in DOMAIN i THEN [i EXCEPT !.to = address[i.to]] ELSE i]

------------------------------------------------------------------------------
VARIABLES
  job,         (* The call: program, code, subject, start and budget.      *)
  at,          (* The address of the instruction to execute.               *)
  slots,       (* Machine slots, and what the targets keep beside them.    *)
  compared,    (* What the last comparison compared.                       *)
  registers,   (* The program's registers.                                 *)
  answer,      (* The value returned, Unanswered before.                   *)
  steps        (* History: instructions executed.                          *)
vars == <<job, at, slots, compared, registers, answer, steps>>

NO_MATCH == -1
EXHAUSTED == -2
Unanswered == -3

Slots == {"LENGTH", "FROM", "BUDGET", "TABLE", "AT", "BYTE", "TMP", "END 1", "FLOOR 1", "END 2", "FLOOR 2",
          "LAST", "WINDOW"}

(* emit_search, and the call of what it gives.                             *)
Init ==
  /\ \E k \in {k \in DOMAIN Jobs : Supported(Jobs[k].program)} : \E offered \in {Jobs[k]} :
       \E code \in {Assembled(Listing(offered.program))},
          subject \in offered.subjects, from \in offered.froms, budget \in offered.budgets :
         /\ job = [program |-> offered.program, code |-> code, subject |-> subject,
                   from |-> from, budget |-> budget]
         /\ slots = [s \in Slots |-> CASE s = "LENGTH" -> Len(subject) [] s = "FROM" -> from
                                       [] s = "BUDGET" -> budget [] OTHER -> UNSET]
  /\ at = 1 /\ compared = <<UNSET, UNSET>> /\ answer = Unanswered /\ steps = 0
  /\ registers = [r \in 0 .. 2 * (job.program.captures + job.program.repeats) - 1 |-> UNSET]

I == job.code[at]
Length == Len(job.subject)
Byte(index) == job.subject[index + 1]

Executes(op) == answer = Unanswered /\ I.op = op /\ steps' = steps + 1 /\ UNCHANGED job
Jump(taken, to) == at' = IF taken THEN to ELSE at + 1
Puts(writes) == slots' = writes @@ slots
Only(dst, value) == [s \in {dst} |-> value]

Moves ==
  \/ Executes("copy") /\ Puts(Only(I.dst, slots[I.src]))
  \/ Executes("ahead") /\ Puts(Only(I.dst, slots[I.src] + I.by))
  \/ Executes("behind") /\ Puts(Only(I.dst, slots[I.src] - I.by))
  \/ Executes("splat") /\ Puts(Only("END 1", I.byte))
  \/ Executes("advance_by") /\ Puts(Only("FROM", slots["FROM"] + slots["END 2"]))
  \/ Executes("window_before") /\ Puts(Only("WINDOW", slots["AT"] - I.distance))
  \/ /\ Executes("limit_to")
     /\ LET bound == slots["AT"] + I.offset IN
          Puts([s \in {"TMP", "WINDOW"} |-> IF s = "WINDOW" \/ bound < slots["TMP"] THEN bound ELSE slots["TMP"]])
  \/ Executes("data_address") /\ Puts(Only("TABLE", UNSET - at))

Loads ==
  \/ Executes("load_byte") /\ Puts(Only("BYTE", Byte(slots[I.index])))
  \/ Executes("load_window") /\ Puts(Only("BYTE", Byte(slots["WINDOW"] + I.offset)))
  \/ /\ Executes("load_table")
     /\ LET table == job.code[UNSET - slots["TABLE"]]
            inside == \E k \in DOMAIN table.ranges :
                        slots["BYTE"] \in table.ranges[k][1] .. table.ranges[k][2]
        IN Puts(Only("BYTE", IF inside # table.negated THEN 1 ELSE 0))
  \/ Executes("load_word") /\ Puts(Only("FLOOR 1", slots["FROM"]))

MoveOrLoad ==
  /\ Moves \/ Loads
  /\ at' = at + 1 /\ UNCHANGED <<compared, registers, answer>>

CompareSlots ==
  /\ \/ Executes("compare") /\ compared' = <<slots[I.left], slots[I.right]>>
     \/ Executes("compare_to") /\ compared' = <<slots[I.left], I.value>>
  /\ at' = at + 1 /\ UNCHANGED <<slots, registers, answer>>

Holds(cond) ==
  CASE cond = "Equal" -> compared[1] = compared[2]
    [] cond = "NotEqual" -> compared[1] # compared[2]
    [] cond = "Less" -> compared[1] < compared[2]
    [] cond = "AtLeast" -> compared[1] >= compared[2]
    [] cond = "Greater" -> compared[1] > compared[2]
    [] cond = "AtMost" -> compared[1] <= compared[2]

Branches ==
  /\ \/ Executes("branch_if") /\ Jump(Holds(I.cond), I.to)
     \/ Executes("branch") /\ at' = I.to
     \/ Executes("start_without_room") /\ Jump(slots["FROM"] > slots["LAST"], I.to)
  /\ UNCHANGED <<slots, compared, registers, answer>>

(* Branches that are several instructions of a target and write its slots. *)
Tests ==
  /\ \/ /\ Executes("byte_within")
        /\ Jump((slots["BYTE"] \in I.range[1] .. I.range[2]) = I.inside, I.to)
        /\ Puts(Only("WINDOW", UNSET))
     \/ /\ Executes("first_equal")
        /\ LET found == {k \in 0 .. Word - 1 : Byte(slots["FLOOR 1"] + k) = slots["END 1"]} IN
             /\ Jump(found = {}, I.to)
             /\ Puts([s \in {"END 2", "FLOOR 2", "WINDOW"} |->
                        IF s = "END 2" /\ found # {} THEN CHOOSE k \in found : \A j \in found : k <= j ELSE UNSET])
     \/ /\ Executes("fix_room")
        /\ Jump(slots["LENGTH"] < I.least, I.to)
        /\ Puts(Only("LAST", slots["LENGTH"] - I.least))
     \/ /\ Executes("branch_back")
        /\ at' = IF slots["BUDGET"] = 0 THEN I.out ELSE I.to
        /\ Puts(Only("BUDGET", IF slots["BUDGET"] = 0 THEN 0 ELSE slots["BUDGET"] - 1))
  /\ compared' = <<UNSET, UNSET>>
  /\ UNCHANGED <<registers, answer>>

Store ==
  /\ Executes("store")
  /\ registers' = [registers EXCEPT ![I.index] = slots["AT"]]
  /\ at' = at + 1 /\ UNCHANGED <<slots, compared, answer>>

Returns ==
  /\ Executes("return")
  /\ answer' = CASE I.code = "start" -> slots["FROM"] [] I.code = "NO_MATCH" -> NO_MATCH
                 [] I.code = "EXHAUSTED" -> EXHAUSTED
  /\ UNCHANGED <<at, slots, compared, registers>>

Next == MoveOrLoad \/ CompareSlots \/ Branches \/ Tests \/ Store \/ Returns

Spec == Init /\ [][Next]_vars

------------------------------------------------------------------------------
(* The slots an instruction reads as numbers.                              *)
Reads(i) ==
  CASE i.op \in {"copy", "ahead", "behind"} -> {i.src}
    [] i.op = "compare" -> {i.left, i.right}
    [] i.op = "compare_to" -> {i.left}
    [] i.op = "load_byte" -> {i.index}
    [] i.op = "load_window" -> {"WINDOW"}
    [] i.op = "load_table" -> {"BYTE"}
    [] i.op = "load_word" -> {"FROM"}
    [] i.op = "first_equal" -> {"FLOOR 1", "END 1"}
    [] i.op = "advance_by" -> {"FROM", "END 2"}
    [] i.op \in {"window_before", "store"} -> {"AT"}
    [] i.op = "limit_to" -> {"AT", "TMP"}
    [] i.op = "byte_within" -> {"BYTE"}
    [] i.op = "start_without_room" -> {"FROM", "LAST"}
    [] OTHER -> {}

(* What native/verify.rs promises of every subject, start and budget: the  *)
(* next instruction reads only slots that were written, loads only from    *)
(* the subject or a table, subtracts nothing from less, and stores only    *)
(* positions of the subject and only in the program's registers; a         *)
(* position is returned, and no more than (budget + 1) times the code is   *)
(* executed.                                                               *)
StaysInside ==
  /\ answer = Unanswered =>
       /\ at \in DOMAIN job.code
       /\ \A s \in Reads(I) : slots[s] >= 0
       /\ CASE I.op = "load_byte" -> slots[I.index] < Length
            [] I.op = "load_window" -> slots["WINDOW"] + I.offset < Length
            [] I.op = "load_table" -> slots["TABLE"] < UNSET
            [] I.op = "load_word" -> slots["FROM"] + Word <= Length
            [] I.op = "behind" -> slots[I.src] >= I.by
            [] I.op = "window_before" -> slots["AT"] >= I.distance
            [] I.op = "store" -> slots["AT"] <= Length /\ I.index \in DOMAIN registers
            [] I.op = "branch_if" -> compared # <<UNSET, UNSET>>
            [] OTHER -> TRUE
  /\ answer \in {Unanswered, NO_MATCH, EXHAUSTED} \cup 0 .. Length
  /\ steps <= (job.budget + 1) * Len(job.code)
==============================================================================
