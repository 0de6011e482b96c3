# Perex in TLA+

Perex is an ECMAScript regular-expression engine in Rust (`src/src`, `no_std`, no allocation): a
compiler from pattern text to a portable program of 32-bit words, a resumable backtracking evaluator
whose every buffer belongs to the host, a lazy automaton and a native-code emitter for the patterns
that allow them, and readers for the spans a match captured. This directory holds TLA+ modules of
these parts, the TLC configurations that check them, and TLAPS proofs about the evaluator's storage,
a search in its host's hands, the starts it skips, cursors and readers over every storage of a text, the lazy automaton's cache and
the plan of its storage.
`PROJECT.json` lists components, runs, mutants, source lines behind each definition, hazards and
theorems; this file says how they hang together.

File names below are those of the library's `src` directory; `docs/` is the repository's.

## Inventory

| component | state it keeps | operations | what is hard | what makes it correct |
|---|---|---|---|---|
| **Compiler** `compiler.rs`, `compiler/prepared.rs`, `names.rs`, `escapes.rs`, `repetition.rs` | the caller's syntax nodes, the words emitted, a budget | parse, merge nested repeats, emit, name checks; a plan prepared once and written once | layout forwards and backwards, rewriting that must keep the order of alternatives, charging before work | the program means what the pattern means |
| **Start analysis** `compiler/candidate.rs`, `compiler/admission.rs` | none (a walk over the tree) | first and last character, length bounds, end anchoring, required condition | nullable parts, lookarounds, case folding: one unit too narrow loses a match silently | no claim excludes a match |
| **Character classes** `compiler/classes.rs`, `compiler/sets.rs` | interval stacks in caller buffers | normalise, complement, union, difference, intersection, strings of v-mode | boundaries, surrogates, folding closures | the set denoted is the set emitted |
| **Program format** `program.rs`, `literal.rs` | immutable words; claims derived on validation | validate, relocate, derive masks, anchors, run skipping | a hostile or stale word image; targets, nesting, register numbers | only programs the evaluator can run are admitted |
| **Evaluator** `executor.rs`, `executor/state.rs` | `State` (phase, pc, cursor, start, assertion, atom, blocked), registers, frames, undo trail | one phase or instruction per step of `dispatch` | a step may be cut off by the quantum, by the budget or by a full buffer, and must be resumable anywhere | ECMAScript's answer; the same answer and the same total work under every pause |
| **Backtracking storage** (part of the above) | registers, frames, undo trail, `assertion` | store, push, fail, rollback, assertion end, begin trial | one trail shared by nested frames and assertions; buffers exchanged in between | going back restores exactly what was there |
| **Atom repeats** `executor/atom.rs`, `literals.rs` | `atom` (needed, remaining, minimum end) and one frame for all endpoints | scan, commit, skip, retreat, extend | endpoints passed over on a condition; batches against the quantum | no endpoint lost, none visited twice |
| **Start scan and admission** `executor/candidate.rs`, `executor/admission.rs` | noted occurrence, run end, scan position | admit, seek, scan, short start | stale notes, chunk borders, both storages | a start is skipped only if no match begins there |
| **Search operations** `executor.rs` | `Search`: state, scratch, budget, program and subject identity | new, run, advance, rebuffer, cancel, restart, position, captures, into_buffers | any order of calls by the host; views re-acquired on every advance | terminal outcomes stay; captures only after a match |
| **Subject views** `input.rs`, `span.rs` | cursor (byte, low half, unit position), marks | next, previous, seek, find | WTF-8 storage read as UTF-16 units, positions inside a surrogate pair | the unit sequence is independent of the storage |
| **Bindings and span readers** `binding.rs`, `span/bound.rs` | owner identity and generation; reader position | bind, acquire, read into a buffer | views change between two calls | every unit delivered once, in order |
| **Lazy automaton** `dfa.rs` | cache of ordered thread lists with their transitions, classes of characters, a memo, start states | plan the storage; is_match, find, captures; forward, reverse and capture walks; intern, classify, widen, clear, disable | a bounded cache that is cleared, widened or given up in the middle of a step | the pattern's meaning, or a reason to ask the evaluator; what is cached is what would be computed |
| **Native code** `native/*` | the code emitted, an allowance | admit, emit, encode, verify, execute | one test of the end stands for many loads; slots are shared | the pattern's meaning, or the allowance spent; no load or store outside what was given |
| **x86-64 emulator** `native/x64_emulator.rs` | registers, flags, memory of a fixture | execute emitted bytes | – | a test fixture |
| **Budget** `lib.rs` | `remaining` | charge | all or nothing | no operation runs on credit |
| **Unicode data** `casefold*.rs`, `properties.rs`, `property_data.rs`, `sequence*.rs` | generated tables | look up | – | equal to the Unicode tables |
| **Tests, tools, benches** `tests/`, `tools/`, `bench/` | none of the library's | – | – | – |

How they interact: the compiler writes words; `Program::validate` admits them and derives claims from
them; a `Search` binds a program, a subject view, a budget and the host's `Scratch`. `advance` re-acquires both views
and runs `dispatch` until the answer is known, the quantum is spent, the budget is spent, or a full frame or undo
buffer needs the host (`rebuffer`). There are no threads and no callbacks: what interleaves is the evaluator's steps
with the host's calls, and a call can fall between any two steps.

## Modules

| module | models | kind |
|---|---|---|
| `Choices` | what chronological backtracking promises: each choice keeps a full copy | abstract specification |
| `Trail`, `MCTrail` | the evaluator's storage: registers, frames, undo trail, requests, exchange, cancel, restart | component; implements `Choices` |
| `TrailProofs` | theorems about `Trail` | TLAPS |
| `SessionProofs` | theorems about `Session` | TLAPS |
| `TextProofs` | lemmas: bytes mean what the table says; cursors in any storage stand at places of positions | TLAPS |
| `CursorProofs`, `ReaderProofs`, `ScanProofs` | theorems about `Cursor`, `Reader` and `Scan` | TLAPS |
| `PlanProofs` | theorems about `Plan` | TLAPS |
| `DfaProofs` | theorems about `Dfa` | TLAPS |
| `Ecma` | what a pattern means: ECMAScript's matcher over the syntax tree | reference definition |
| `Emission` | the compiler from the tree on: merged repeats, instruction layout, claims on starts and ends | pure algorithms |
| `Starts` | further claims of a program: first character, leading bytes, the condition every match contains | pure algorithms |
| `Vm`, `MCVm` | the evaluator: every instruction and phase with its charge, two searches per job | component |
| `Session`, `MCSession` | a search in the host's hands: every operation of `Search`, `Run` and `Finished`, in any order | component |
| `Input` | views of a subject and cursors in them: decoding, validation, reads, marks, seeks | component, shared |
| `Wtf8Text` | the units a string of bytes stands for, without a decoder | reference definition |
| `Cursor`, `MCCursor` | every walk of a cursor over one text | component |
| `Reader`, `MCReader` | a binding and a reader of one span, called in quanta, with owners and consumers that fail | component |
| `Scan`, `MCScan` | how a search comes to the starts it tries, over the three storages | component |
| `Automaton` | the transitions of the lazy automaton, forwards, backwards and for captures | pure algorithms |
| `Dfa`, `MCDfa` | the automaton's searches through a cache that fills | component |
| `Plan`, `MCPlan` | where the parts of the automaton's storage lie, and the sizes a host is told | component |
| `Arena`, `Escapes`, `ClassSets`, `Parser` | pattern text to syntax nodes, with every charge, limit and error | component, in four files as the source has it |
| `Grammar`, `SetGrammar` | the grammar of patterns and of v-mode classes, as a relation | reference definitions |
| `MCParser`, `MCSets` | a host that writes a text piece by piece and compiles what it has so far | TLC |
| `Native`, `MCNative` | what is emitted for a program, and the machine it is executed on | component |

Every behaviour a component should have is stated apart from it: `Choices` for the storage, `Ecma` for
answers, `Wtf8Text` for positions, `Grammar` and `SetGrammar` for what a text says. None of these shares a definition
with the module it judges.

### Trail and Choices

`Trail` keeps the storage of `executor.rs` and leaves open which instruction comes next, so that what it shows holds of
every program. `registers`, `frames`, `undo` are the live parts of `Scratch`; `assertion`, `phase`, `blocked` are
fields of `State`; `until` and `after` are the parameters of `Phase::Rollback`. `Store` and `Push` are `Vm::store` and
`Vm::push_at`; an update that finds its buffer full leaves everything as it is and is kept in `pending`
(`Phase::Execute` and `ClearStore` in the source). `Rebuffer` is `Search::rebuffer`, which accepts buffers larger
or smaller as long as everything live, and a refused request, fits.
The history variables `saved` and `target` record what the registers were when each frame was pushed and
what the running rollback must reach; no action reads them.

`Choices` has no trail. Under the mapping in `Trail` (`stack` is each frame with its `saved` copy; while a rollback
runs, the abstract registers are already those it comes down to; between trials they are blank) every
step of `Trail` is a step of `Choices` or changes nothing.

### Emission, Ecma, Vm

`Emission` follows `compiler.rs`, `compiler/repetition.rs`, `compiler/prepared.rs`, `compiler/candidate.rs` and the
derivations in `program.rs`, from the syntax tree on. A `Program` record has the code, the derived claims and
the pattern itself. Instructions keep their order, targets and operands; an instruction is a record and an address an
index, in place of words.

`Ecma` is the matcher of ECMA-262 with continuations turned into sequences of outcomes in the order
backtracking visits them.

`Vm` has one action per instruction and one per unit of each phase's loop. `Spend` is `Vm::charge`; every action
charges what the source charges, where it charges it. The source batches units of a loop up to the quantum left;
stopping is asked before every unit here, which stops at the same places, except where the source
does something else at the end of a batch: the BRANCH chain and `lazy_skip` are modelled as batches.
`Going` is the loop condition of `dispatch`. `Advance` and `Rebuffer` are the host's calls.

A *job* is one program, one subject and one start. It is searched twice: first in one call with all the room and work it
wants, then with quanta chosen anew at every `advance`, with buffers that may start empty and grow
only by what `required_scratch` asks for, and with exactly the work the first took, or a little more or
less. So each behaviour compares a disturbed search with an undisturbed one.

### Session

`Session` has one action per operation of `Search` (`New` is `new`, `new_near` and `without_captures`; `Run` with
`Return` is `run`; `Capture` and `Readable` also those of `Finished`), and `Rebind` for the host's side of
`Resources`: views of the right layout, of another, or none. `op` is `State` with the shape and the budget of the
operation, `call` the quantum of the running call. What happens inside a trial is `Vm`'s subject; here a *job* says what a trial
at each start does: how much work, whether its last instruction pushes a frame, where its match ends or that it fails.
What surrounds trials goes unit by unit, because a pause there is what `position` and a later `restart_at`
see: the class admission looks for, the walk to the requested start (from the nearer end or from a position
given), the scan for a first character, the next start, the validation of captures. A program with the u flag reads a pair of surrogates as
one character: asked to start within one it steps back to where the pair begins (`Aligned`), and neither admission nor the next start ever stops there
(`After`). A job names these places (`inside`); for a program that reads units it has none.

The reference has no steps: `Whole` adds up what a search of a job from a start costs and
finds, by a recursion over the starts, and `WorkIsExact` holds every search against it, however it was begun and whatever
was called in between. Jobs, `MCSession`'s constants, are all that a run leaves finite.

### Input, Wtf8Text, Cursor, Reader

`Input` is `input.rs`: the three storages (ASCII bytes, bytes with more, UTF-16 units), `decode_checked` and what it
takes for a surrogate, cursors as offset, half and position, reads of units and points in both directions, what a mark must
be for `resume_cursor` to take it, and seeks from the nearer end. The loops that count a word at a time are modelled by what they count.

`Cursor` walks one text in every way there is and compares each read with `Wtf8Text`. `Reader` is `binding.rs` with
`span/bound.rs`: between two calls only offsets are kept; at each call the owner may refuse the storage or hand out one
of another shape, and the consumer may fail at any unit.

### Starts, Scan

`Starts` derives what `compiler/admission.rs` and `program.rs` claim of a program; `Scan` uses it as
`executor/admission.rs`, `executor/candidate.rs` and the phases of `executor.rs` do: one action per round of a phase,
charged as the source charges a round, so that pauses fall between rounds. `window` is what is left of the call's quantum. A trial of
a start is one step here that knows whether the pattern matches there. The words of eight and blocks of 32 places of `candidate.rs` are
`Word` and `Block`, with the lanes a borrow marks by mistake. The two modules meet only in a record of claims: what `Scan` asks of it (`ClaimsHold`: first and
last characters, length, anchors, runs, pairs, the condition) is an assumption of `Scan`, and TLC evaluates it for the claims `Starts` and
`Emission` derive for each program of the run and the matches `Ecma` finds in each text. A wrong derivation fails there, before any search. Only a program that repeats something
is given a condition (`compiler/prepared.rs:268`), and it may have one without a claim about its first character: `.?ab` of the run, like `.*abc`, begins with
anything, and the search still looks for its `ab` only from the requested start on.

### Automaton, Dfa, Plan

`Automaton` explores one transition, a round of its loop after another: threads in order, each with the counts of its repeats, and in capture mode with what its
path does to the captures. A state's predicates and contexts are a *signature*, which is all a program can tell of a character.

`Dfa` keeps what `Automaton` computes in a cache: states are records in a sequence, where the source has words in a region,
and their size is counted in words as the source counts it. An action is a call answered at once (`CallSteady` is the path on which everything
is cached, `CallDeclined` and most of `CallGeneral` what needs no walk) or one character of a walk, with all states and classes built for it. A step
is a record threaded through `intern`, `clear`, `save` and `restore`, `widen` and `classify` in the source's order, with what stops it
(`Capacity`, `Disabled`, `WorkLimit`). `Reset` is the host that gives the cache another room, or clears it.

`Plan` is the arithmetic: the order of the parts, powers of two, and the searches for the size a host is told.

### Arena, Escapes, ClassSets, Parser

These follow `compiler.rs` and the files beside it. A parser is a record; an operation takes one and gives another, and `Then` is
the source's `?`: what follows is not done once an operation has failed. Nodes, ranges and names share arenas with their limits, and every `step` is charged.
`Prepare` is the whole compilation. `Grammar` derives from a place in the text every tree the grammar allows there; Annex B's
preferences are conditions on the alternatives that come later. `MCParser` compares the two through the tree the nodes hold.
`ClassSets` keeps the strings, the properties of strings and the operators still to be asked in lists of nodes, as `compiler/sets.rs` does;
`MCSets` runs the finished class on subjects and compares with the set `SetGrammar` gives.

### Native

`Listing` is the code `native/emit.rs` gives for a program, one instruction for each operation of `native/machine.rs`;
`Assembled` binds its labels. The actions are what the machine's operations do, `Tests` those that are several instructions of a target
and write slots on the way. `Supported` is `supported`, so programs it refuses are among the jobs and take no step.

Operators whose comment starts with *Fault:* are not part of any specification: each is a
plausible mistake in the definition after it, put in its place to see that a property notices.

## Runs

| run | question | result |
|---|---|---|
| `trail` | does the storage restore, nest, fit, and implement `Choices`? | holds, 184,506 distinct states |
| `vm` | is the answer ECMAScript's, is the work the same under every pause and request, are quanta kept, is every search decided? | holds, 922,490 |
| `session` | do outcomes stay, totals agree and captures belong to this match under every order of calls? | holds, 3,036,542 |
| `cursor` | does every walk over every storage read the text's units and points, and does validation take exactly the well-formed? | holds, 122,048 |
| `reader` | is every unit of a span delivered once, in order, over failures on both sides? | holds, 153,965 |
| `scan` | are the programs' claims true, is no viable start skipped, is the work the same under every quantum, are notes and verified runs true? | holds, 610,636 |
| `dfa` | is the answer the pattern's, the cache true, what a walk has read what the text says, and an answer what it has read to the end, over clears, widening, thrashing and spent budgets? | holds, 161,678 |
| `plan` | does storage that is accepted hold its parts, and does every told size serve? | holds, 6,560 |
| `parser` | is a text read as the grammar reads it, with exact sizes, for linear and exact work? | holds, 209,644 |
| `sets` | does a v-mode class match what the grammar's set holds? | holds, 324,486 |
| `sets_folded` | the same for `[0\p{L}]` under `iv` | violated: see Findings |
| `native` | does emitted code answer as the pattern means, within what the verifier promises? | holds, 432,157 |

**Bounds.**

- `trail`: two registers, two values, two points, buffers of up to two: enough for an assertion inside a
choice, a second write of one register, a rollback of two entries with a pause between them, an
exchange in the middle. The proofs remove the bounds.
- `vm`: subjects of up to three units over three characters (two units `a`, `b` the patterns tell apart
and `y` in the class of neither), or of up to four over a line feed and `a`; starts 0 to 2; quanta 1 and 3, both full and empty buffers.
Quantum 1 stops at every place an advance can stop; 3 lets batches form and end within a unit of their own. Three units take
each pattern through success at the first start, at a later start, and failure with everything backtracked; the patterns
are one for each thing the compiler lays out and each pair of features that meet in a register, a frame or a claim.
Where the source lets a pause change the work (chains of alternatives, bounded lazy repeats) the second search is given some
to spare, and its answer is checked, not its total.
- `session`: two searches begun by whichever of `new`, `run` and `restart_at`, the second near a position the first
reported or not; a budget that suffices and one (6) that ends in admission, on the walk, in a scan or in a trial, depending
on the job; quanta 0, 1 and 4 (nothing, a pause after every unit, a walk paid at once); frame buffers with and without room. Ten
jobs, each paired with a subject of another layout that would match at once. Start 5 lies past every subject's end; start 2 lies within a pair in
three of the four jobs that read pairs (a class behind it, one start only, a scan), and between two pairs in the fourth.
- `cursor`: texts of up to three sequences of every width, with pairs whole and encoded apart and lone surrogates,
and every string of up to four bytes at the borders of the table of well-formed sequences, so that each row is missed by one.
- `reader`: texts in which a seek from either end ends in and beside a pair; quanta 0, 1 and 3; a budget of 9 that
runs out in a seek or in a delivery; two openings, so that a second reader begins where the first left the owner.
- `scan`: subjects of up to three characters and a few longer ones of three chunks, four characters of which are beyond ASCII;
a chunk of 2 (256 in the source), a round of 8 (4,096), a short remainder of 3 (64), admission from 3 (64), words of 2 and
blocks of 4 (8 and 32): each subject crosses several of each, at every offset. Quanta 1, 4 and 50; budgets of 20, which end in every phase, and of 500.
- `dfa`: three hosts. The first has patterns whose captures, counts, contexts and priorities matter and short subjects; the second
subjects long enough to fill rooms of 24 to 60 words again and again and to thrash (two bad clears disable, two characters a state),
with budgets that end in the middle; the third skips over subjects with and without characters beyond ASCII, one with more of them than the memo's four slots. Rows begin with room for one class, so that
every program widens; two calls, so that the second finds what the first has left.
- `plan`: programs of 3 to 900 instructions and the capacities at which a part grows to its next power of two.
- `parser`: ten kits of seven or eight pieces, up to five of them, in the modes in which they differ: groups, bounds, nested
quantifiers, escapes, octals, classes, folded classes, names, modifiers, surrogates. A class is normalised from 3 ranges (16) and sorted from 2 (8), a fold
closes up to 4 characters (256), so that short texts cross each. Seven longer texts repeat an escape, a quantifier or a name, and two of them fill
the 90 nodes or the 36 ranges there are. Each text is read with all the work it wants, and three of the kits with smaller budgets.
- `sets`: classes put together from five kits, with the source's own limits.
- `native`: a word of 2 bytes (8), immediates below 4 (4,096), so that a short subject is scanned by words and by bytes and a bound of 4
is refused; every subject of up to four characters over three, or six over two; allowances 0, 2 and one that never ends.

A subject of the runs is never long, because nothing in the code depends on length but through the constants above.

**Deadlock.** Only `Trail` never stops (a search can be restarted), and deadlock is checked there. `Vm` stops when the second
search of a job is decided, and `Decides` shows that nothing stops earlier. A host of `Session`, `Reader` or `Dfa` stops when it has made the calls it may
(`MaxTurns`, `MaxOpens`, `MaxCalls`); `Cursor` is at an end of its text with nothing asked, `Scan`, `Plan` and `Native` stop with their answer, and the host of the parser when its text is as long as may be.

**Fairness.** `FairSpec` of `Vm` is `WF_vars(Next)`: in each state either the evaluator can take a step, or the host is the
only one that can, and neither stops for ever. The evaluator's half is that `dispatch` is a loop that ends only
when the quantum is spent, a buffer is full or the answer is known; the host's half is the premise of
`docs/resumption.md`, a host that goes on advancing and supplying. No action is favoured over another. `Spec` of `Plan` is fair in the same way:
it is one function's loop, and `Told` says it ends.

## Proofs

Each module of proofs takes the assumption on the constants that the component itself declares, and nothing else. They are
what the code takes for granted: captures are slots and `UNSET` is no ordinary value (`TrailConstants`), a job says of each start
of its subject what a trial costs and where it ends (`SessionConstants`), bytes are bytes (`CursorConstants`), a span is read of a
text that a view was bound to, so of well-formed bytes (`ReaderConstants`), a program's counts are numbers (`PlanConstants`), a program of the automaton has a
host, whose rooms and budgets are numbers and whose subjects are sequences of them, and the limits of the storage are positive (`DfaConstants`), and what a
program claims of its matches is true (`ScanConstants`; the derivations of the claims are walks over trees and code, and stay with TLC).
Budgets, quanta, lengths and capacities are any natural numbers.

| module, theorem | property of a run | for every choice of constants |
|---|---|---|
| `TrailProofs` `TypeCorrect` | `TypeOK` | the state is well typed |
| `AlwaysRecoverable` | `Recoverable` | from the present registers, undoing the trail down to a frame's height gives what the registers were when it was pushed |
| `AlwaysNested` | `Nested` | heights ascend and `assertion` names the innermost open assertion, in every frame too |
| `NeverDead` | `NoDeadEntries` | no trail entry without a frame to ask for it, no frame outlives its start |
| `AlwaysFits` | `Fits` | everything live fits the buffers in use |
| `Refinement` | `Implements` | `Trail` implements `Choices` |
| `SessionProofs` `OwedHolds` | (its `IInv`) | at each phase, what is spent and what is still owed make up the whole |
| `TypeCorrect` | (`TypeOK`) | the state is well typed, every place in it is one of its subject |
| `WorkExact` | `WorkIsExact` | in any order of calls a search spends and answers what one uninterrupted search does, and runs out only if given less |
| `NeverDearer` | `NearNeverDearer` | a position to start near never costs more than none |
| `CapturesAreOwn` | `CapturesOfThisMatch` | a capture read is of the match this search found |
| `PositionIsTold` | `PositionTells` | from the position of a search that has come to a start, its subject holds what it holds from the requested one |
| `OutcomeStays` | `OutcomeKept` | no call changes the outcome of a decided search |
| `CursorProofs` `MarksStand` | (its `Inv`) | every mark a cursor makes is the place of a position |
| `TakesTheWellFormed` | `ValidatesExactly` | validation takes just the sequences of the table, and names the first byte of the first that is not one |
| `EachPositionHasOnePlace` | `OnePlaceEach` | a position has one mark, however it was come to; a seek decodes fewer scalars than it was charged |
| `TakesBackItsMarks` | `MarksAreDecodable` | a view takes back each of its marks, and none it could not decode from |
| `ReadsWhatIsThere` | `ReadsTheText` | every read returns what the text has there and moves past it |
| `ReaderProofs` `CountIsTakenOnTrust` | `CountedLikeDecoded` | a binding told the true count keeps the shape decoding finds |
| `EachUnitOnce` | `DeliversOnce` | each unit of a span is delivered once and in order, over any number of calls, pauses, failures and storages |
| `PaysForTheDistance` | `ChargesTheDistance` | a reader is charged the distance sought and the units delivered |
| `ScanProofs` `SearchIsRight` | `AnswersRight` | a search finds the first start from its own on that the pattern matches at, and none only when there is none |
| `NotesHold` | `NotesAreTrue` | the place noted for the condition is one, none later is passed over, no trial begins beyond it; characters a trial skips are there |
| `DfaProofs` `DfaTypeOK` | `TypeOK` | every state a row, a start or a search refers to is held, every class has a column, the memo keeps a free slot, and the storage in use stays within the room |
| `DfaCacheTrue` | `CacheTrue` | every entry, start state and class of a character in the cache is what computing it afresh gives, and no state is held twice; a search under way has read what it would have without a cache, whatever was dropped under it |
| `DfaEndsAsRead` | `ReadToTheEnd` | a search that ends with an answer, or hands its end to the reverse walk, has read as far as one without a cache, and says what that one found |
| `PlanProofs` `SoughtHolds` | (its `IInv`) | the size in hand fits, or lies above the one begun from |
| `AcceptedRoom` | `AcceptedHasRoom` | storage `build` accepts has the room a search places things in |
| `ToldServes` | `ToldSizeServes` | a size told below the largest builds with the hash and room asked for, and is larger than one that did not serve |

**Trail.** `Recoverable` alone is not inductive: undoing an entry needs to know that the heights recorded in frames
ascend, that an unfinished rollback comes down to a height no frame lies above, that each frame has its copy
(`Nested`), and that a store left unrecorded had no frame to be recorded for (`NoDeadEntries`). `IInv` is `TypeOK` with these three, which
`trail` checks as invariants; `Fits` is inductive beside it, and the refinement needs `Orderly`, what `phase`,
`pending` and `blocked` may be together. `Inductive` proves
`Spec => []IInv` with one step per action. What undoing down to a height leaves in a slot is stated without recursion
(`Leaves`: the oldest entry for the slot above that height, or the register itself); what an append and an undone entry
do to it are lemmas. The refinement is proved action by action from `IInv`.

**Session.** That totals agree at the end says nothing about the middle of a search. `Owed` does: to each phase it gives what the search has
still to pay and to answer (half an admission, what is left of the walk, the rest of a trial and then all later starts, the two units
of validation), and says that this with what is spent is `Whole`. A pause leaves both as they are; a unit moves from one to the other; an
outcome owes nothing. `Placed` says where the evaluator stands meanwhile, `Standing` that from the start in hand on the subject holds what it holds from the first, and
that a sticky search never comes to a second one, and `Lent` whose registers these are. Admission and the starts go by characters, so what is owed counts
characters (`Ahead`): that a step over one, or over a pair, lowers it by just one and never passes the character of the class are facts about places (`PairFacts`, `ReadsFacts`). `WorkLimit` is where the two differ: the budget is spent and `Whole` is more than was given, which
needs that what comes from any start on is not negative, a claim about the recursion itself (`FromStartType`).

**Text, view, cursor.** `Wtf8Text` says what bytes mean by a table of sequences, `Input` decodes them by arithmetic on their bits. `TextProofs` shows
the decoder agree with the table row by row, and then that from each place of well-formed bytes the decoder goes to the next (`Chain`). Units are one or two to
a scalar, so places ascend and a position has one. `Viewed` says this of each of the three storages, and from there on the proofs
do not ask which it is: a read forwards or backwards, `resume_cursor` and a seek from either end all go from a place to a place. `CursorProofs` adds
the walk's own state.

**Reader.** `Progress` is the invariant: while a reader seeks, charged plus the distance still to go is the distance it began at, and nothing is
delivered; from then on it stands as many units past the span's start as it has delivered, and each cost one. Between calls a mark is kept
for another view, perhaps in another storage, so `OnPlace` says it is a place in whatever the binding may borrow next. A call is one step of
the model and a loop in the source: that all of it preserves `Progress` is shown of the recursive function `Walking`, over the work left to the call.

**Scan.** `Inductive` gives each phase what it goes by (`AdmissionKnows`, `SearchKnows`): how far the condition is known not to be, in bytes or in
units; that the place a probe began at is still a candidate; that no viable start lies before where the scan stands (`Clear`); that a scan bound by the
condition has come past the last place it was noted at (`Beyond`), which is where a later place is looked for. `AnswersRight` alone knows none of this: a search that ends
in the middle of a scan is right only because of what was passed before. Each step has a lemma; the steps in words are the hard ones. A word may
mark places that are no pair (`LanesAre`), so what is shown of `FirstMarked` is that none before it is a place to try, and that the comparison of what is marked decides the rest; that a round
passes over no start is a claim about the recursive function `SweepTo`, from its end backwards (`SweepIs`). Over bytes with more, a round passes only ASCII bytes, which are units at the
same distance, so a place of the scan is a place of the text (`PassedIs`, with the lemmas of `TextProofs`).

**Dfa.** `TypeOK` and `CacheTrue` are inductive only together (`Inv`, which TLC has checked on `dfa`): a row is true only while what it leads to is held, and an entry is written
on the strength of the state and the class found for it (`Good`: `Stored` for states, rows and starts, `Classed` for classes, table and memo, `Counted` for the words in use; `Searching`
for the walk). Steps are records, so each operation of the cache has a lemma that says what it keeps of a good cache and what it may drop: `intern`, `classify`, `start_state` and
`compute` add to it, and `widen` and `clear` drop all but the state the search is in, which `restore` builds anew under another number. That is where a stale number would do harm:
`compute` writes into the row of the state it ends up with, after all clears, and the number it writes was given after them too. That the words in use fit the room is a
claim about a sum over the states (`Tally`). That only a capture walk meets an ambiguous path, whose mark is no state, is a claim about the
rounds of a transition (`TransitionShape`). Nothing is assumed of the program, so the theorems hold whatever its code is.

What a search without a cache reads is a recursive function of the number of characters (`Readings`): a state, the last end seen, and the captures. `Searching` says the walk
stands where that function does (`ReadsTrue`), and each step is two halves: that what the cache says of the next character is what the function computes
(`HearsIs`, over every way a row is found, filled or made anew under another number), and that an answer comes only where the function ends as well (`ConcludeTells`, `FurtherIsUnsaid`): at
the edge, with no thread left, or at an end where any will do. A walk that gives up for want of room or work says nothing (`DeclinedIsUnsaid`). `ReadToTheEnd`
is the action property this gives; TLC finds it true on `dfa`, and refutes it when `intern` takes a state for another with the same threads, or the memo's first slot is taken for any character that hashes to it.
It says nothing of a search answered at once on the steady path, whose skips rest on what a program claims of its first characters, and it compares the walk with the
automaton, not with the pattern: both stay with TLC (`AnswersRight`).

**Plan.** The layout is arithmetic of parts that are each bounded by a share of the capacity (`PartsTypes`, `BuiltRoom`). The size search doubles
and then bisects; its invariant is that the upper end fits or is the largest there is, and has gone above the size begun from. What serves is not monotonic in the size, so
the invariant says nothing of the sizes between.

**Recursion.** The provers cannot instantiate an induction theorem, but a claim that failed for some number would fail for a least one
(`LeastOf`, from the library's well-foundedness of `Nat`). Every claim about a recursive *function* is proved so. For the prover such a function is
a `CHOOSE`; that there is one is shown first, by the same argument over tables that end earlier (`ComeExists`, `RecursionExists`). RECURSIVE *operators* stay out of reach.
The lemma stands at the head of each module that begins from it, and an automaton's transition and the words its cache uses are functions for this reason.

**Model-checked only.**

- Liveness (`Decides`, `Told`) and whatever needs ENABLED: the prover has no rule for fairness.
- `Vm`, `Emission`, `Ecma`, `Starts`, the parser's modules: RECURSIVE operators over trees, code and text. Their properties compare two
recursions of different shape (`AnswersRight` the evaluator's with ECMAScript's), which is an induction over patterns.
- That the claims `Scan` assumes are those `Starts` and `Emission` derive: TLC evaluates `ScanConstants` on the programs of `scan`. `WorkIsExact` of `Scan`
compares with a search run to its end in one call, a RECURSIVE operator of `MCScan`; it is no theorem as it stands, since a place marked by mistake near the end of a subject
breaks it (the disagreement on words, below), which the subjects of `scan` do not have.
- `AnswersRight` of `MCDfa`: the automaton's answers, and the skips of its steady path, against the recursion of `Ecma`. `Native` states its listing with a RECURSIVE operator over code.

## Findings

`sets_folded` (`compiler/sets.rs:589`). `union_of` merges two plain classes whose ranges are adjacent in the arena and keeps the left
one's flags. Under `iv` a class of few characters has been closed under folding and is no longer folded (`compiler/classes.rs:55`), so what is merged into it is not
folded either: `[0\p{L}]` does not match all that `[\p{L}0]` matches, against `docs/sets.md:49`.

### Disagreements seen without a run of their own

Each of these was met while modelling. The definition named states what a comment or a document says; giving it to TLC as an
invariant of the configuration named (or as said) shows the trace.

- A BRANCH that walks a chain of alternatives and then finds the frame buffer full is kept as the first BRANCH of its chain: supplied
with a buffer, it walks and charges the chain again (`executor.rs:1926`). `docs/resumption.md:314` says a rebuffer resumes "without charging matching work
again" and `docs/branch.md:43` that totals do not depend on pauses. `MCVm` with `Jobs <- Chain`: `WorkIsExact`.
- `lazy_skip` asks for the quantum before it asks whether the repeat may take no more (`executor/atom.rs:778`). When both hold at one endpoint, the
resumed `AtomCommit` finds nothing to skip and runs the continuation, which an unpaused skip does not; totals differ, against the comment
at `executor/atom.rs:682`. `MCVm` with `Jobs <- LazyPair`: `WorkIsExact`.
- Before a search has reached a start, `position` reports where the evaluator stands, not "the position it was given to start near, or
the subject's beginning" (`executor.rs:178` against `executor.rs:527`, `docs/resumption.md:41`). The mark is valid: `session` shows that searches begun near it answer right and
never cost more for it. `MCSession`: `PositionAsDocumented`.
- The position of a sticky search that has not matched is not always "its requested start" (`executor.rs:525`, `docs/resumption.md:39`): under the u flag a search
asked to start within a pair steps back to the pair's first unit (`executor.rs:887`) and reports that. `session` shows that a search from there finds
the same (`PositionTells`). `MCSession`: `PositionAsRequested`.
- `run` with a zero quantum and a start past the end returns `Paused`; `new` and `advance(0)` report no match (`executor.rs:368` against
`executor.rs:292`, `docs/resumption.md:151`). `MCSession`: `RunAgrees`.
- The size a host is told is one that serves, and not always the least (`dfa.rs:2300`, `docs/dfa.md:282`). `MCPlan`: `ToldSizeIsLeast`.
- The words of the candidate scan mark places by the borrow of a subtraction that no pair begins at, and compare and charge them; whether they do depends on
where the words lie, and so on the quantum (`executor/candidate.rs:505` against `executor/candidate.rs:230`). `MCScan` with `Texts <- Neighbours`: `LanesChangeNoWork`. `WorkIsExact` of `scan`
sets these comparisons apart. Once the mistaken place lies so near the end that the run no longer fits there, the scan ends and the rest of it is not charged either:
`WorkIsExact` with `Programs <- Repeated`, `Texts <- NearTheEnd`, `AdmitFrom = 20` (no condition to bound the scan).
- A note of the condition is taken up after the place it was found at, and the chunk it lay in is scanned again, so the
search of the condition is not one pass over the subject (`docs/admission.md:74`). `MCScan` with `Programs <- Repeated`, `Texts <- Repeats`, `Chunk = 4`: `BoundIsOnePass`.
- A round of the candidate scan compares the run at every place it stops at, so an advance may go beyond its quantum by more than one chunk and
its comparisons (`executor.rs:541`, `docs/resumption.md:19`). `MCScan` with `Programs <- Repeated`, `Texts <- Repeats`: `StepsAreBounded`.
- `[a&&&]` compiles as the intersection of `a` and `&` (`compiler/sets.rs:410`), which `docs/sets.md:19` has rejected. `MCSets` with `Kits <- None`, `Written <- ThreeAnds`: `AnswersRight`.
- Sixteen characters in `\q{}` and then a lower one give a sorted class whose table is not in order, since `union_of` keeps the left
class's flags (`compiler/sets.rs:589`, `docs/classes.md:16`). `MCSets` with `Kits <- None`, `Written <- ManyThenOne`: `SortedIsAscending`.

## Not modelled

- The u, v and i flags beyond the parser: `Emission`, `Vm`, `Starts`, `Automaton` and `Native` take programs without them. In a trial the evaluator
reads UTF-16 storage; byte storage is in `Input` and `Scan`.
- In the parser, the text of the flags, the table of names written behind a program and the offsets of errors.
- What `Program::validate` admits of words no compiler of this repository wrote.
- Encodings: the bytes of AArch64 and x86-64 instructions, the range of their branches, the verifier's analysis, and the emulator, which is a test
fixture. `StaysInside` says of the code at the machine's level what the verifier promises of the bytes.
- Generated tables of Unicode: the lookups are modelled over a few characters that fold in each way, a few properties and a few properties of strings.
- Register buffers too short for a program, scratch owners that shrink between calls.
- Tests, tools and benches, which are consumers of the library.

`PROJECT.json` says of each component what of it is modelled, and under "hazards" names the properties that guard each place.

## Plan

1. More proofs: `StaysInside` of `Native`; a refinement of `Trail` by the storage actions of `Vm`.
2. Byte storage in `Vm`, with the byte walks of `executor/atom.rs` and literal runs.
3. The u, v and i flags in `Emission`, `Ecma` and `Automaton`.
4. `Validation`: what `Program::validate` admits, so that `InvalidProgram` is unreachable from an admitted program.
5. The verifier's analysis over `Native`'s instructions: that what it accepts stays inside.
