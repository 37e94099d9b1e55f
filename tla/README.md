# A TLA+ model of the weak memory models simulator

The simulator runs small multi-threaded programs under four memory models: sequential
consistency (`sc`), total store order (`tso`), partial store order (`pso`) and strong
release-acquire (`sra`). This directory holds a TLA+ model of its core, the TLC
configurations that check it and the proofs about it that TLAPS checks. Source paths below are
relative to `src/`, the simulator's own source directory, unless they start with `tests/`.

## 1. The system

| Component | State it keeps | Operations | Who calls it |
|---|---|---|---|
| Storage interface (`storage-subsystem/storage-subsystem.h`) | none | `read`, `write`, `fence`, `flush()`, `flush(int)`, `get_eps_transitions`, `has_eps_transitions`, `prepare_thread`, `make_copy`, with do-nothing defaults | statements, program state, interpreters |
| SC storage (`sc/`) | a map location -> value | `read`, `write`; `fence` does nothing | |
| TSO storage (`tso/`) | memory; a FIFO of (location, value) per thread | all but `prepare_thread` | |
| PSO storage (`pso/`) | memory; a FIFO of values per thread and location | all but `flush(int)` and `prepare_thread` | |
| SRA storage (`sra/`) | the list of messages, a view (location -> timestamp) per thread, the newest timestamp per location | `read`, `write`, epsilon transitions, `prepare_thread`; `fence` throws | |
| Statements (`interpreter/interpreter.cpp`, `ast/`) | `last_evaluated_value`, `goto_instruction` within one statement | one `visit` per statement and expression; CAS and FAI are `flush(t)`, `read`, `write` in one step | program state |
| Program state (`state/program-state.cpp`) | storage, the active threads with instruction and registers, the finished ones, the current thread, the interleaving flag, the next id | `add_thread`, `get_interleaving_state`, `get_transition_state`, `get_eps_transition_states` | interpreters |
| Non-deterministic and tracing interpreters | one program state | the loop: random switch, then epsilon transition or statement; final `flush()` | `main` |
| Model-checking interpreter, `NodeEvaluator` | a queue of program states, the final states kept | the exploration, with switches only behind statements that touch storage | `main` |
| Interactive interpreter | one program state | the same loop, choices read from the terminal | `main` |
| Lexer (`lexer/`) | position in the text: index, line, column | text -> tokens, up to `END` or the first `INVALID` one | `main` |
| Parser (`parser/`) | position in the tokens | tokens -> statements, by recursive descent; statements -> label table | `main` |
| Command line, file reader, `main` (`args-parser/`, `file-reader/`, `main.cpp`) | the options | arguments -> options, path -> text; which interpreter runs, what an exception leads to | the shell |
| Printing (`utils/node-stringifier/`, `get_printable_state`, `print_state`) | none | statements and states as text | interpreters |
| Test framework (`doctest/`) | | vendored, used by the tests only | |

There is one operating-system thread. The concurrency is the simulated one: which thread
moves next, when buffered stores reach memory and when views advance are all drawn at random,
enumerated, or asked of the user. What is hard in this code is therefore

- *ordering*: that stores leave the buffers in the order the memory model promises, through
  single propagations, SEQ_CST flushes, read-modify-writes and the final flush mixed;
- *atomicity*: CAS and FAI are three storage calls whose meaning differs in every storage
  (PSO inherits the empty `flush(int)`, SRA may read an old message);
- *stale state*: a load must see its own thread's newest store, and in SRA never less than
  what the thread has acquired;
- *protocol sequences*: code that relies on queues never being empty, on the current thread
  being active, on instruction indices being in range;
- *termination*: of polling threads, and of an exploration that remembers no state;
- *completeness*: that the reduction of switches and the dropping of repeated final states
  lose no outcome;
- *reading what was written*: that a text is cut into the longest tokens, at true positions,
  that the parser never reads behind the last token and refuses at the first mistake, that
  operands keep their places, and that every exception ends where `main` catches it.

`PROJECT.json` lists the hazards one by one at their lines.

What makes each component correct:

| Component | Properties |
|---|---|
| TSO storage | queues never empty; program order; memory holds the last store in effect; a total store order explains every value |
| PSO storage | queues never empty; program order per location; memory holds the last store in effect; a partial store order explains every value |
| SRA storage | one message per timestamp; no view ahead of the messages; views only advance; causality; an order of stores explains every value |
| Statements, program state | ids dense, threads active or finished, instructions in range; a step changes its own thread only; failures exactly where a statement has no meaning |
| Interpreters | forbidden outcomes never occur; everything is flushed at the end; runs end |
| Model checking | sound, complete, terminating; the documented counts |
| Tracing | what is logged tells the execution |
| Lexer | tokens cover the text; positions are true |
| Parser, `main` | exactly the programs of the language run; statements are those written; labels lead to their statements; the options given last decide |

## 2. The modules

| Module | Models | Notes |
|---|---|---|
| `Maps` | `std::map`, `std::unordered_map` | `Put`, `Erase`, `At` |
| `MemoryOrder` | `lang/memory-order.h` | |
| `SCStorage`, `TSOStorage`, `PSOStorage`, `SRAStorage` | the four storages | a storage is a record and an operation an operator on it, because one statement may call several |
| `StorageSubsystem` | the interface | which of the four (or the base class's default) a call reaches |
| `ReleaseAcquireOrder` | nothing in the code | the abstract specification of a release-acquire memory: stores, what each thread and each store knows, no timestamps, no views |
| `StoreHistory` | nothing in the code | the stores issued and when they took effect: the vocabulary of the promises |
| `StoreOrder` | nothing in the code | the abstract specification of a store-buffering memory |
| `TSOSystem`, `PSOSystem`, `SRASystem` | a storage under threads that call it in any order | one action per statement that reaches storage and one for epsilon transitions |
| `SCSystem` | the sequentially consistent storage under the same statements | what TSO and PSO are measured against when every access is SEQ_CST; it needs no threads and has no run of its own |
| `Language` | `ast/`, what the parser guarantees, `NodeEvaluator` | statements as records |
| `ProgramState` | `program-state.cpp`, `interpreter.cpp`, `thread-subsystem.cpp` | `Transition` is a whole statement, trailing instruction update included; `Completes` says whether it throws |
| `Executions` | an iteration of the run loops | |
| `NonDeterministic` | `non-deterministic.cpp`, `tracing.cpp` | an action is an iteration of the loop; `Finish` is the final flush |
| `Interactive` | `interactive.cpp`, `interactive-cli.cpp` | a step is an answer of the user, or what the loop does between answers; `Close` ends the input |
| `ModelChecking` | `model-checking.cpp` | an action pops one state and pushes its successors |
| `Printing` | `get_printable_state`, `print_state` | a printed state is the set of its lines |
| `Tracing` | `tracing.cpp` | what an iteration logs |
| `Lexer` | `lexer.cpp`, `token.h`, `keywords.h`, the character classes of `utils.cpp` | a lexer step is an operator from a position to a token and a position |
| `Parser` | `parser.cpp`, `parser.h` | each `parse_` function is the list of token types it takes and the node it builds |
| `NodeStringifier` | `node-stringifier.cpp` | a statement as its words |
| `FrontEnd` | `main.cpp`, `args-parser.h`, `file-reader.cpp`, the loops of lexer and parser, `LabeledInstructionsRetriever` | a step is an iteration of a loop |
| `Litmus` | `tests/test-data/*.txt` and further programs | |
| `HistoryProofs` | | lemmas about `StoreHistory`, for any sets |
| `TSOProofs`, `PSOProofs`, `SRAProofs` | | theorems about the three systems |
| `ProgramStateProofs` | | lemmas: what a step keeps of a program state under each memory model, what the final flush leaves |
| `NonDeterministicProofs`, `InteractiveProofs`, `FrontEndProofs` | | theorems about two interpreters, the log and the exploration; the dialogue; the front end |
| `MC*` | | the instances TLC checks |

How state corresponds: `m_memory`, `m_store_buffers` are `memory` and `buffers` of the
storage records; `count(k)` is `k \in DOMAIN`; a `std::queue` is a sequence with its front
first. `m_thread_views` and `m_location_timestamps` are `views` and `stamps`. Instruction
index `i` of the code is `i + 1`. `last_evaluated_value` and `goto_instruction` do not survive
a statement and are not variables. Copies (`make_copy`, the copy constructor) are the copying
of values. Locations, registers and labels are names.

The two halves of the model meet at the program: `FrontEnd` ends with a `program` of the form
the interpreters' modules take as given (`WellFormed`, checked there as `ProgramIsWellFormed`),
with names as sequences of characters. In the lexer a character is a string of length 1, a
position counts from 0 as the code's does; in the parser the code's token `i` is `i + 1`. A
`parse_` function is a sequence of `Take`s, each of which peeks, throws or advances; the first
exception ends it. The spelling of keywords is the constant `Keyword`.

Nondeterminism of the build: the final `flush()` visits threads in the order of a hash map,
so `FlushAll` is the set of results over all orders. Integer overflow wraps, as the build
does it; `IntBits` is the width. The order in which the exploration pushes the epsilon
successors (the traversal of a map) is fixed to one, since no property depends on it but the
order of `finalStates`.

Operators with "Mutant of" in their comment are not part of the model: each is a plausible
bug in the operator after it, and shows that the property named for it in `PROJECT.json`
fails when the code has that bug.

## 3. What TLC checks

| Run | Instance | Shows |
|---|---|---|
| `tso` | 2 threads, 2 locations, 3 stores, modes SEQ_CST and REL_ACQ, values 0..3 | `TypeOK`; `ProgramOrderKept`; `MemoryHoldsLatest`; `ImplementsTotalStoreOrder`: every step of the storage is a step of `StoreOrder`, value returned included |
| `pso` | the same | the same with program order per location, `ImplementsPartialStoreOrder` |
| `sra` | 3 threads, 2 locations, 3 messages, the four modes but SEQ_CST | `TypeOK`; `OneMessagePerTimestamp`; `CausalityRespected`; `ViewsOnlyAdvance`; `ImplementsReleaseAcquire`: every step is a step of `ReleaseAcquireOrder`, value returned included |
| `litmus` | 24 programs of 1 to 3 threads besides main, four memory models, 8-bit integers | `TypeOK`; `NothingLeftBuffered`; `NoForbiddenOutcome`; `FailsWhereItMust`; `ThreadsAreIsolated`; `TraceTellsTheRun` |
| `waiting` | a writer and a polling reader, three choices of modes, four memory models | `EndsUnlessStranded`, a liveness property |
| `interactive` | 7 programs, four memory models, any answers, input closed anywhere | `TypeOK`; `ImplementsNonDeterministic`: the run is one `NonDeterministic` has; `EveryExecutionOffered`: all of them can be chosen; `EndsWithItsInput`, a liveness property |
| `exploration` | 10 programs, four memory models | `OutcomesArePossible`, `FindsEveryOutcome` (against the closure of `Executions`), `CountsAsDocumented`, `ExplorationAdvances` |
| `front_end` | 21,423 inputs (below), 4-bit integers | `TypeOK`; `TokensCoverText`; `PositionsAreTrue`; `RunsThePrograms`: a text runs if and only if it is a program of a grammar given as token patterns; `RejectsAtFirstBadToken`; `AbortsOnNumbersOnly`; `ParsedAsWritten`; `ProgramIsWellFormed`; `RunsAsAsked` |

Why the bounds are enough. Two threads and two locations are what reordering needs: one pair
of stores and one observer. Three stores let a queue hold two entries of one location and one
of the other, so that the order inside a queue, the newest-own-store rule and a flush of
several entries all matter; two values besides 0 tell stores apart, and 3 is the sum a
fetch-and-increment can reach. Modes other than SEQ_CST are equal for TSO and PSO, so that
REL_ACQ stands for all of them; SEQ_CST is treated like RLX by SRA, so that RLX stands for
it. Causality needs three threads (a message handed on) and both locations. Threads and
locations are symmetric in the storage runs; the abstract specification treats them
symmetrically too. The litmus programs cover every statement, every failure (a division by zero and of the smallest
integer by -1 among them), sums, differences, products and increments that overflow, thread
creation by threads other than main, and the shapes that tell the four memory models apart.

The inputs of `front_end` are: every text of up to three characters out of twelve, and of four
out of eight, so that tokens of every class meet with and without blanks, newlines and NULs
between them; every list of up to two tokens; every instruction, with and without a label,
and everything one inserted, removed or replaced token makes of it, which puts every token in
every place of every instruction; every two instructions in a row; labels repeated, missing
and before the end; numbers around the largest, alone and next to another mistake; and every
list of up to three arguments, options, words and blanks. Keywords have short spellings that
overlap as the real ones do (`thread_goto` and `goto`, `REL_ACQ`, `REL` and `ACQ`, `fence`
and `fai`), so that short texts contain them. Numbers are 4 bits wide, so that 8 is too large.

Deadlock is not checked in the interpreters' runs, since runs end. It is checked in the
storage runs.

Fairness. `waiting` assumes `WF_vars(Next)` (the loop goes on) and, for each thread, strong
fairness of its statement and of its epsilon transitions. The scheduler draws the thread and
whether to take an epsilon transition uniformly and independently at every iteration
(`utils.cpp:117`), so that a draw that is possible again and again is made with probability
one; nothing in the program can prevent it. The property has an exception that the code makes
necessary: a thread that ends with stores in its buffer never becomes current again, no
epsilon transition is offered for it, and its stores wait for the final flush. A reader that
polls for them polls for ever. `Stranded` says so.

`interactive` assumes weak fairness of the loop once the input has ended, when it waits for
nobody any more, and nothing of the user before that. Refused lines change nothing and are
stuttering steps. The refinement maps the switch an iteration begins with to no step and the
rest of the iteration to a step of `NonDeterministic`; `previous`, a history variable, keeps
the current thread from before the switch. Where the input ends in the prompt for a location,
nothing but the switch is left of the iteration, and SRA's timestamps gain a location at 0
(`operator[]` on the name that was asked for); the mapping carries the switch over to the next
iteration and leaves locations at 0 out. What the prompt returns there is the empty name or,
where the input ends in the middle of a refused line, the text of that line, since the loop
reads into the string it returns: `LastLines` bounds these texts to one name of a location
that cannot be propagated and `NoLocation`.

`ImplementsReleaseAcquire` maps a view to the set of stores it covers: those of each location
up to the view's timestamp. `ReleaseAcquireOrder` has no timestamps: a thread may read any
store nothing it knows comes after, an acquiring read adds what the store carried. `answer`, a
history variable, keeps the value a step returned.

Four runs show a disagreement between the code and what the repository says of it:

- `exploration_spawning`: `README.md:41` promises "all possible executions". `NodeEvaluator`
  has no case for `thread_goto`, so that the exploration offers no switch between the start of
  a thread and the starter's next access to storage, and misses the executions in which the
  new thread comes first. When the main thread only starts threads (all tests) nothing is lost.
- `exploration_on_demand`: the final states are announced as unique "in terms of thread
  subsystems states" (`model-checking.cpp:98`); the comparison looks at the threads of the new
  state only and drops an outcome whose threads are a subset of a kept one's.
- `increments_sra`: under SRA a fetch-and-increment may read an old message and store behind
  the newest: two increments return the same value (`README.md:17`).
- `interactive_rejection`: the loop says of the thread the user chooses "excludes
  current_thread_id" (`interactive.cpp:31`), and the prompt does not list the current thread;
  the answer is accepted all the same and the run ends with an exception.

What the front end does where nothing promises otherwise is modelled and no finding: the types
`parse_statement` names as expected leave out `goto` and `thread_goto` (`parser.cpp:187`,
`RejectsAtFirstBadToken` asks only that those named are right); a number above `INT_MAX`
leaves `main` as an uncaught `std::out_of_range` (`AbortsOnNumbersOnly`); the end of a program
prints as `end`, which read back would be a register; the file reader adds a newline; an
option takes the argument behind it even if that is another option's name.

## 4. What is proved

Every theorem holds for every value of the constants: of threads, locations, values and modes
for the storages; of programs, memory models and answers for the interpreters; of texts,
arguments and spellings of keywords for the front end.

| Module | Theorems |
|---|---|
| `TSOProofs` | `TypeCorrectness`: `[]TypeOK`; `ProgramOrder`: `[]ProgramOrderKept`; `LatestStore`: `[]MemoryHoldsLatest`; `TotalStoreOrder`: `ImplementsTotalStoreOrder`; `TotalIsPartial`; `SeqCstIsSequential` |
| `PSOProofs` | `TypeCorrectness`; `LocationOrder`: `[]LocationOrderKept`; `LatestStore`; `PartialStoreOrder`: `ImplementsPartialStoreOrder`; `SeqCstIsSequential` |
| `SRAProofs` | `TypeCorrectness`; `MessageForEveryTimestamp`: `[]OneMessagePerTimestamp`; `Causality`: `[]CausalityRespected`; `Advance`: `ViewsOnlyAdvance`; `ReleaseAcquire`: `ImplementsReleaseAcquire` |
| `NonDeterministicProofs` | `TypeCorrectness`; `Isolation`: `ThreadsAreIsolated`; `FinalFlush`: `[]NothingLeftBuffered`; `TraceDecides`: `[]TraceTellsTheRun`; `ExplorationIsSound` |
| `InteractiveProofs` | `TypeCorrectness`; `Steerable`: `[]EveryExecutionOffered`; `Refinement`: `ImplementsNonDeterministic` |
| `FrontEndProofs` | `TypeCorrectness`; `NothingLost`: `[]TokensCoverText`; `TruePositions`: `[]PositionsAreTrue`; `WellFormedPrograms`: `[]ProgramIsWellFormed`; `OptionsAsAsked`: `[]RunsAsAsked`; `RunsPrograms`: `[]RunsThePrograms`; `FirstBadToken`: `[]RejectsAtFirstBadToken`; `OnlyNumbersAbort`: `[]AbortsOnNumbersOnly`; `PrintsBack`: `[]ParsedAsWritten` |

### Assumptions

- `ConstantsAssumption` of each storage system: values are integers, 0 is one of them, operands
  are values, modes are memory orders. No proof uses the bound on stores or that sets are finite.
- `ProgramsAssumption`, `InteractiveAssumption`: programs are `WellFormed` (statements, the last
  and only the last of them `End`, labels that lead to statements) and memory models are among
  the four. That the front end yields only such programs is `WellFormedPrograms`.
- `InputsAssumption`: arguments are strings, a file is a sequence of characters.
  `KeywordAssumption`: every keyword has a spelling of letters, digits and underscores that starts with
  no digit, and no two share one. `IntBitsAssumption`: integers have at least one bit.

### The inductive invariants, and why the properties alone would not do

- TSO. That a commit keeps the times in program order needs every time given out so far to be
  at most the clock, and that a read-modify-write stores a value of the right type needs the
  type of everything a read may return: `IInv` adds both. `IInvLatest` adds `MemoryIs`, the
  last store in effect told by quantifiers instead of by `CHOOSE`.
- PSO. `IInv` is `Consistent(storage, history)`: the types, the bound of the times by the
  clock, for each queue an order-preserving map onto the positions of the pending stores
  (`Follows`), the order of the stores in effect (`Ordered`), and `MemoryIs`.
- SRA. That a read finds a message needs that no view is ahead of the newest timestamp and that
  timestamps are dense; causality needs that what a message carries is covered by its view,
  since an acquiring read joins that view to its thread's. `IInv` is `Consistent(storage,
  known, carries)`, with `StorageOK`, `Stamped` and `Covers` for these.
- Interpreters. `StateOK`: ids are dense, every thread is active or finished and not both, every
  instruction index is one of the program's, storage keeps nothing for a thread that was never
  added, and an SRA thread has its view. `TypeOK` follows from it; it is inductive because the
  End statement removes the thread, so that behind every other statement there is a next one,
  which is where `WellFormed` is needed. That interleaving stays allowed (`state.allowed`)
  is part of the invariant: it is what lets a thread that ended be left. `Interactive` adds
  `StorageOK` (queues are non-empty, timestamps are natural numbers), that the current thread is
  active once a move is asked for, and that a location is asked for only when one can be offered.
- Front end. `TokensOK`: tokens are laid end to end, up to blanks, at true positions. `LexerOK`: the lexer
  stands right behind the last of them, inside the text. `Ended`: the parser starts on a list
  whose last token, and no other, is `END` or `INVALID`; this is why it never reads behind the
  list. `NodesOK`: of the statements only the last can be `End`, and the last is one once all
  tokens are taken. `LabelsOK`: the table holds the labels of the statements passed so far.
  `AskedFor`: each option is what was last asked for among the arguments passed so far.
- Parser. `ReadInv` adds to these what has been read (`ParsedTo`): up to the cursor the tokens
  are whole instructions, their numbers fit, each statement has a first token of its own, and
  its label is that token if a colon is behind it, every colon being the one of some label. It
  also adds why main ended (`Stopped`): the exception names a token that no form goes on with, a
  number at the end of a form, a label that two tokens spell, or a token that is none.
- Printing. `PrintInv`: a token whose type tells its lexeme has that lexeme (`Spelt`), and the
  statements parsed so far, printed, are the tokens before the cursor, row by row (`PrintedTo`).

### The arguments

The storage systems, in layers that are the same in each module:

1. one lemma per storage operation about the maps, queues, views and types it leaves
   (`EnqueueOK`, `FlushBufferOK`, `PropagateOK`, `ReadOK`, `WriteOK`), and one per operation of
   the history (`HistoryProofs`);
2. lemmas about one queue against what its thread issued, without any record around them:
   issuing, draining, committing the oldest, commits of others;
3. `Consistent` of a storage and its history variables is kept by each operation with its
   counterpart; an action is a composition of these (a CAS under TSO is a flush, then a write);
4. for the refinements, one lemma per kind of step (`LoadStep`, `RmwStep`, `EpsilonStep` and
   others): what the storage returns is what the abstract specification allows. For PSO the
   point is `RmwStep`: a SEQ_CST CAS reads what memory would hold if its thread were drained
   first, although nothing is.

Between the memory models: `TotalIsPartial` says that what the TSO storage does keeps the promise
of PSO too, since of the two instances of `StoreOrder` the partial one lets more stores take effect
and is otherwise the same. `SeqCstIsSequential`, once for TSO and once for PSO, assumes that every
mode is SEQ_CST and maps the storage to its memory alone: no queue outlives the statement that
fills it (`NothingBuffered`), so that no epsilon step is possible and every statement is one of
`SCSystem`. SRA has no such theorem: its storage treats SEQ_CST as a relaxed mode.

That the newest buffered store exists (`MaxIsGreatest`) is proved from the well-foundedness of
the natural numbers.

The interpreters. `ProgramStateProofs` has one lemma per storage operation and memory model
about whose part of storage it may change, composes them for each statement, and adds what
`Transition` does around the statement; `Isolation` is this read as an action property. The
final flush is a fold over threads in any order. The library folds by a recursive function
that it chooses; that there is one (`FoldExists`) is proved by induction on the number of
threads, and the induction from the well-foundedness of the natural numbers, as a set of
numbers with no least exception. `OneByOne` is what one step of the fold means.

The log. Two iterations that print the same lines have the same successor because the lines
determine the maps they were printed from (`MemoryTold`, `QueuesTold`, `ViewsTold`), an
epsilon step is determined by the storage it leaves (`EpsTold`: a PSO or SRA log does not name the location),
a switch by the thread whose transition is logged (`SwitchTold`), and a statement is deterministic but for the message an SRA
read takes, whose effect the printed registers and views tell (`IterationTold`). At the end memory is printed whole and the buffers are
empty, by `FinalFlush`'s lemma, in whichever order they were emptied (`EndTold`).

The exploration is sound: `ExplorationIsSound` says, for every set of states that holds the
initial one and is closed under `Successors` of `Executions` (the least is what the
non-deterministic interpreter reaches), that every outcome kept is one of its final states,
and that the exploration throws only where an iteration from one of its states does. The
exploration stops between the switch and the step of an iteration, so that the states it
queues need not be in the set. The invariant (`Queued`) says that each either is, once its
flag is set, or is what a switch leaves of one. It is kept because no step looks at the flag
or changes it (`Twins`), and because a state that may switch again is one of the set. That
the sequences pushed list the successors and nothing else needs that there are finitely many:
`StorageShape` says so of the queues and timestamps that the epsilon transitions choose from.

The dialogue's refinement. The mapping leaves out SRA's locations at timestamp 0 (`Clean`).
`Clean` commutes with every storage operation, so that an answered move of the uncleaned state
is a move of the cleaned one; one `Maps` lemma per action of the dialogue then gives the step or the stutter
of `NonDeterministic`. The operators of `NonDeterministic` reached through `INSTANCE` are copies
of those the dialogue extends, and the `Run` lemmas prove them equal.

The front end. A run of characters of one class is a fold that `NextToken` counts with;
that it is the longest is proved along the text. `ParseStatementParsed` says of each `parse_`
function that it advances, stops inside the tokens or throws, and returns a node of its type;
what `TakeEach` folds over a list of token types is unrolled as the flush is.

The language. `RunsThePrograms` compares the parser with a set of token patterns (`Labelable`)
and a function that asks for each prefix whether it is whole instructions (`WholeBefore`). The
patterns are turned into `Forms`, records of whether there is a label, whether there is a
target, and the type that follows, the head (`LanguageForms`); the function into `Whole`, a
chain of positions each one instruction behind an earlier one (`WholeBeforeIs`). The first
tokens of a statement determine its form up to the head and its size with it (`SameForm`,
`SameSize`): so a statement can be read in one way only, and two whole prefixes are ahead of one another by whole
instructions (`WholeGoesOn`). On the parser's side `StatementOutcome` says that
`parse_statement` reads one form to its end, or stops at the first token that is in no form
that fits so far, naming types that are in one (`Rejected`), or at a number too large. That a
statement rejected at a token leaves no other way through the text, from whichever statement one starts, is
`RejectedWhole`; that any beginning of a form can be completed to a program is `Completed`.

What is printed. A keyword, a mode or an operator is kept in the node as a member of a set and
not as it was written, so that the printed word is the token's only because the lexer gives a
type to one spelling (`NextTokenSpelt`, `WordOfIs`). One lemma per `parse_` function compares the
node's words with the tokens it was read from (`CallRead`, `StatementPrints`), a step appends a
row (`PrintedStep`), and `FlattenSeq` of the rows is all tokens (`FlatPrinted`, along the rows;
that the library's recursive function exists is `FlatExists`).

### Only model-checked

- Liveness under fairness: `EndsUnlessStranded`, `EndsWithItsInput`. The prover has no rule for it.
- `NoForbiddenOutcome` and `FailsWhereItMust`: statements about particular programs.
- `OutcomesArePossible`, `FindsEveryOutcome`, `CountsAsDocumented`: they compare with a recursive
  `Closure`, which the prover cannot unfold (`ExplorationIsSound` is what the first asks, for
  any closed set in its place); the second fails for some programs (`exploration_spawning`), so
  that it could be a theorem of a class of programs only; the counts are those of particular programs.
- `ExplorationAdvances`: its measure counts the steps a program has left, program by program.

## 5. Not modelled

- `doctest/doctest.h`, which is vendored: more than half of the lines of the source tree
  (6,580 of 11,160) are its own. Nothing of the simulator calls it.
- The declarations of headers, `accept` and the other plumbing of the visitors, constructors
  that copy fields, template instantiations: they are what makes the operators above reachable.
- Wording and layout of what is printed, the words of error messages and of prompts. That an
  access mode is printed with SRA's messages: the model's messages do not keep it.
- Lines the dialogue refuses are stuttering steps; how a line is trimmed and converted to a
  number is not modelled.
- That the exploration runs for ever on a program with a loop: it remembers no state, so that
  its queue grows; the exploration is checked on programs whose jumps lead forward.
- A file that opens and cannot be read, such as a directory: the loop of `file-reader.cpp` tests
  `eof()` only, so that it never ends there. The files of `FrontEnd` are texts that can be read
  to their end, and `AbortsOnNumbersOnly` and `OnlyNumbersAbort` say nothing of others.
- How a failed run leaves the process: the status "thrown" of the interpreters stands for an
  exception `main` catches (an unknown label, a fence under SRA), for one it does not catch
  (`std::out_of_range` of a register never assigned) and for the signal of a division.
- A new thread's empty SRA view is modelled, but no document says what it should see.

## 6. Plan

Done, in this order: the storages and their systems; program states and the non-deterministic
interpreter; the exploration; the interactive dialogue; the proofs about TSO; the abstract
specification of release-acquire; the front end; printing and tracing; the proofs about PSO and SRA and of the
three refinements; the proofs about program states, the non-deterministic interpreter and
its log; about the dialogue and its refinement; about the lexer, the parser and `main`; about
the soundness of the exploration; about the language the parser accepts and what it prints;
the theorems between SC, TSO and PSO.

Next, the most important first:

1. The class of programs for which the exploration finds every outcome, as a theorem.
2. Programs whose outcomes do not depend on the memory model: those in which no two threads access
   one location, one of them to write it, without SEQ_CST.
