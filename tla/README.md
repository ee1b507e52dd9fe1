# Verification of RE2

TLA+ models of the RE2 library in `re2/` and of the Perl engine `re::engine::RE2`
built on it (`re2_xs.cc`); TLC configurations that check the models on small
instances; and machine-checked proofs about the parts whose correctness does not
rest on recursion over trees: the DFA state cache, where threads meet, up to the
refinement of an abstract search; the sparse containers, which work on uninitialised
memory; the reference counts of regexps; the threads and stacks of the NFA; and the
backtracker, up to the answer it gives.

Contents: [The system](#the-system) · [Modules](#modules) ·
[Runs](#runs) · [Bounds](#bounds) · [Fairness](#fairness) · [Proofs](#proofs) ·
[Findings](#findings) · [What is not modelled](#what-is-not-modelled) ·
[Plan](#plan)

## The system

A pattern is parsed and simplified to a tree of `Regexp` nodes, compiled to a
graph of instructions, optimised and flattened to a `Prog`, and then run by one
of four engines. `RE2::Match` chooses the engines of one search; `Replace`,
`Consume` and their relatives call it in loops; `RE2::Set` and `FilteredRE2` search
for many patterns; `re2_xs.cc` plugs it all into Perl.

    pattern ─► Regexp::Parse ─► Simplify ─► Compiler ─► Optimize, Flatten ─► Prog
                  └─ RequiredPrefix, captures, Prefilter ─► PrefilterTree

    RE2::Match ──► Prog::SearchDFA ──► DFA (forward, reversed, many-match)
        │               one DFA object per Prog and kind, shared by threads
        ├────────► SearchOnePass      one thread, no choice ever
        ├────────► SearchBitState     backtracking, each (list, position) once
        └────────► SearchNFA          Pike machine, always applicable

| Component | State | Operations | Talks to |
|---|---|---|---|
| DFA cache (`dfa.cc`, `mutex.h`) | `state_cache_`, `next_` of each state, `start_`, `mem_budget_`, `mutex_`, `cache_mutex_` | `Search`, `BuildAllStates`, `PossibleMatchRange`; inside, `CachedState`, `RunStateOnByte`, `ResetCache` | every thread that uses the `Prog` |
| DFA loop | position, `lastmatch`, current state, start state | `InlinedSearchLoop`, `AnalyzeSearch` | the cache; tells `RE2::Match` when it gives up |
| DFA states | two work queues, a stack | `AddToQueue`, `RunWorkqOnByte`, `RunWorkqOnEmptyString`, `WorkqToCachedState` | reads the program |
| NFA | two queues of threads, captures, free list, stack | `AddToThreadq`, `Step`, `Search` | reads the program |
| BitState | job stack, visited bitmap, one capture array | `Push`, `TrySearch`, `Search` | reads the program |
| OnePass | nodes with an action per byte class | `IsOnePass`, `SearchOnePass` | built once per program |
| Parser (`parse.cc`) | the stack of regexps and markers, flags, number of captures | one operation per piece of notation; `FactorAlternation`, `CharClassBuilder` | makes a `Regexp` |
| Simplifier, walker | a stack of walk states | `CoalesceWalker`, `SimplifyWalker`; `Walk`, `WalkExponential` | `Regexp` |
| Compiler | instructions, patch lists, rune ranges, suffix cache | one per regexp operator, ranges of runes, `Finish` | makes a `Prog` |
| Prog | instructions, lists, hints, byte map, prefix | `Optimize`, `Flatten`, `ComputeHints`, `ComputeByteMap` | all engines |
| RE2 | pattern, two programs, required prefix, one-pass flag | `Init`, `Match`, `PossibleMatchRange` | the engines |
| Callers of Match | the text that is left, the output, the arguments | `Replace`, `GlobalReplace`, `Extract`, `Consume`, `FindAndConsume`, `Parse` of numbers | `RE2::Match` |
| Regexp | trees, `simple_`, reference counts, overflow map | constructors, `Equal`, `RequiredPrefix`, `Incref`, `Decref`, `Destroy` | parser, compiler |
| RE2::Set | patterns, `compiled_`, a program | `Add`, `Compile`, `Match`, moves | many-match DFA |
| FilteredRE2, Prefilter, PrefilterTree | and-or graph over atoms, `compiled_` | `Add`, `Compile`, `FirstMatch`, `AllMatches`, `AllPotentials`, moves | RE2 |
| SparseSet, SparseArray | two arrays never initialised, a size | `insert`, `set`, `contains`, `resize`, `clear` | engines, byte map, prefilter tree |
| Perl binding | a `regexp` struct with offsets | `RE2_comp`, `RE2_exec` | RE2, Perl's own engine as a fallback |

What is hard here:

* **Threads on one cache.** A search that finds the cache full drops a read lock,
  takes a write lock, and discards every state; it and all others hold pointers.
  Edges and start states are published without the lock that protects their
  computation.
* **Memory limits.** States are charged to a budget; running out is a normal
  event and starts a reset, a retry, or a fallback to another engine.
* **Four algorithms, one answer.** The DFA ends, the NFA, the backtracker and
  the one-pass matcher must agree about leftmost-first and leftmost-longest
  matches, in a context, in both directions, with anchors that are cut off the
  regexp and put back as flags.
* **Rewriting that must not change the meaning.** Strings and classes are merged
  while they are parsed, alternatives factored in three rounds, repetitions
  squashed, coalesced and spelled out, UTF-8 ranges shared, suffixes copied.
* **Hand-made data structures.** Patch lists inside instructions, reference
  counts in a union or sixteen bits, arrays sized by counting or never
  initialised, hints that skip instructions, a graph of formulas that is pruned.
* **Protocols.** Objects that are added to, compiled, moved and asked in any
  order; a match in an application's loop that must make progress.

What makes each component correct is stated by the properties below; every
hazard that was found while reading is in `PROJECT.json`, at its line, with the
properties that would catch it.

## Modules

In each module, comments name the functions its definitions stand for.

**The cache.** `DFACache` has one action per stretch of code between two points
where another thread can interfere: taking or dropping a lock, reading an atomic,
adding a state under `mutex_`. `pc[t]` says where thread `t` is; `heap` maps
addresses to contents, so that a pointer kept over a reset dangles or names
another state, as in C++. The automaton is data (`DFAAutomaton`): `Delta` stands
for what `RunStateOnByte` computes, `Prefix` for what `PrefixAccel` looks for, with
several bytes for one if cases are folded. What all three ways of looking find is the
next occurrence (`SkipsTo`).

| Code | `DFACache` |
|---|---|
| `RWLocker`, `LockForWriting` | `ReaderLock`, `WriterLock`, pcs `drop`, `wlock` |
| `AnalyzeSearch(Helper)` | pcs `quick` … `loadStart` (look without the lock, then with it) |
| `InlinedSearchLoop` | pcs `loop`, `runLock`, `runHeld`, `full`, `step` |
| `ResetCache`, `StateSaver` | pcs `reset`, `restoreStart`, `restoreS`; `saved` |
| `CachedState` | `CachedState(k, r)`: content `k` has or gets address `r`, or `NULL` |
| `BuildAllStates`, `PossibleMatchRange` | pcs `build…`, `range…`; `seen`, `cursor` |

`DFARun` is the abstract specification: every search runs the automaton alone,
on a cache without limit, and may give up unless it is a many-match search.
`DFACache` implements it under the refinement mapping at the end of the module
(property `CacheTransparent`). `DFACacheProofs` holds the inductive invariant and
what follows from it, and the proof of the refinement.

**What a match is.** `Answers` says which match answers a search, given the ordered
list of ways a backtracking matcher would match; the list is a parameter, `WaysOf`.
`Regexps` gives simplified regexps a meaning, which is such a list (`WaysTried`, the
value of `WaysOf` in every run). `Notation` gives patterns a meaning: it reads the notation piece by piece
into the regexps of `Regexps`, without any of the parser's rewriting. These two
are the references that everything else is checked against.

**From pattern to regexp.** `CharClasses` (`CharClassBuilder`, folding), `ParseTrees`
(the constructors of `Regexp`, `Equal`, the factoring rounds, and what is asked of a
tree: captures, names, `RequiredPrefix`), `Parser` (the
reading of numbers, escapes, repetitions and classes in brackets, and a case per
kind of piece, each pushing onto the parse stack as `Regexp::Parse` does),
`Simplifier` (coalescing, then simplification). `Parser` ends with `ToString`, which reads the tree back. A
pattern is a sequence of characters whose runes a CONSTANT gives, so that vocabularies
stay small.

**From regexp to program.** `Programs` (instructions, empty-width flags),
`Compiler` (the operators of `compile.cc`), `RuneRanges` with `Runes` (its ranges of
UTF-8 with shared beginnings and cached endings), `Flatten` (`Optimize`, `Flatten`,
`ComputeHints`, `ComputeByteMap`). They are operators, applied as the code applies
them; patch lists are kept in the `out` fields as in the code. `Compiler` ends with
`RE2::Init` (`NewRE2`), which compiles the object that is searched with.
`Programs` also says what a finished program keeps to (`WellFormed`, `HintsSound`,
`LoopsSound`): the engines assume it, in `ProgsAssumption`, and `compile` shows it of
what is compiled.

**Engines.** `Searches` is what a call of an engine is. `NFA`, `BitState` and
`OnePass` have one action per instruction visited or job popped, with the queues,
stacks, counts and arrays of the code (`NFAProofs`, `BitStateProofs` and
`OnePassProofs` have their proofs, `SearchPaths` the definition of a match that they
compare with); `DFAStates` computes each state from the
last as the work queues do, has one action per byte, and walks for
`PossibleMatchRange`. Where the cache is concerned `DFAStates` makes every state
afresh: that this is all the same is what `CacheTransparent` says.

**The object.** `RE2Match` has one action per branch of `RE2::Match`, and the
object's `PossibleMatchRange`. Engines
stand there as what their own models show them to be, a DFA may give up on every
call, and whether the program is one-pass is left open, so that each combination of
engines is tried. It knows regexps only by the ways they match, and names what it
relies on (`WaysAssumption`); `RE2MatchProofs` proves from it that the answer is right.
What an answer is, `Answers` says, with the ways a regexp matches as a parameter (which
`Regexps` gives in every run); `AnswerProofs` has the lemmas about it.

**Many patterns.** `FilteredRE2` builds the formulas of `prefilter.cc` (exact
sets, their cross products, simplification) and puts them into the graph of
`prefilter_tree.cc`: unique nodes, pruning of nodes with too many parents, propagation
of atoms, a step per node. It and `RE2Sets` are the two objects, with their
calls in any order, moves included; `RE2Sets` compiles its set with `ParseTrees`'
factoring, as the code does.

**Callers and the Perl binding.** `Replacing` (`Replace`, `GlobalReplace`, `Extract`,
rewrite strings), `Consuming` (`FullMatchN`, `PartialMatchN`, `ConsumeN`,
`FindAndConsumeN` with arguments that are written one by one, and the parsers behind
integer arguments), `PerlEngine` (`RE2_comp` and `RE2_exec`, and Perl as far as it
calls them). Their calls of `Match` get the answer that `Answers` defines, which is what
`MatchIsRight` proves of `RE2Match`; what they rely on besides is assumed by name.
`LibraryProofs` proves the three right.

**Helpers.** `References` (reference counts, the overflow map, and the loop of
`Destroy` in three steps, `Pop`, `ReleaseSub`, `Delete`), `Walker` (the walker over shared trees, with copying and early stops), `SparseSets`
(`SparseSet`, and `SparseArray` on top of it). `OrderedSets` is the
abstract specification that `SparseSets` implements. `LibraryProofs` has the proofs
about these two and about `References`.

| Instance | Runs | What it adds |
|---|---|---|
| `MCDFACache` | `cache` `live` `reverse_bail` | two automata, their requests, symmetry |
| `MCSubmatch` | `submatch` `match_range` | the three engines with submatches and `RE2Match` side by side; a behaviour is one call of one of them |
| `MCCompile` | `compile` | regexps grown operator by operator, and classes grown range by range |
| `MCDFAStates` | `dfa_states` | forward and reversed searches, sets, and the walk for a range |
| `MCParse` | `parse` `parse_fold` | vocabularies of pieces |
| `MCFilter` | `filter` | pools of regexps for collections and sets |
| `MCLibrary` | `library` `perl_loop` | the callers and helpers side by side; a behaviour belongs to one |
| `MCRegexps` | | 33 sample regexps, one for each construct and for each way constructs are known to interact |

Operators whose names extend another's, and which a comment calls a mutant, are
faulty versions of the definitions next to them; no specification uses them. They
show that the properties do notice such a fault.

The map in `PROJECT.json` leads from definitions to lines of the code. A helper that
stands for lines within those of the definition that uses it is not listed apart.

## Runs

| Run | Properties | What it shows |
|---|---|---|
| `cache` | `TypeOK` `ResetExclusive` `OneStatePerContent` `BailsWhenSlow` `CacheTransparent` | Two threads search with room for three of four states, so resets happen in the middle of each other's searches. The searches refine `DFARun`; a reset has the cache to itself; a state has one address; a search gives up when it is slow. Prefix acceleration, with a prefix of two bytes, leaves out nothing that matters. |
| `live` | `NoDanglingState` `CacheSound` `StableWhileRead` `CallsReturn` | `BuildAllStates` and `PossibleMatchRange` next to searches: no pointer in use dangles, each cached edge is right, nothing changes under a reader; under fair scheduling each call returns, unless one thread calls again for ever. |
| `submatch` | `AnswerCorrect` `ThreadsCounted` `CapturesUndone` `FloodStackFits` `MatchCorrect` `EnginesAgree` | NFA, BitState and OnePass give the right match and submatches. Reference counts equal the number of holders, captures are undone, the flood stack suffices. Whatever engines are used and whenever a DFA gives up, `RE2::Match` answers for the whole regexp, and no engine contradicts another. |
| `compile` | `ProgramsMeanRegexp` `ProgramsAsAssumed` `ClassesAlike` `RangesExact` | All regexps that grow from an atom in two steps, forward and reversed: the program has the matches of the regexp, hints skip only what cannot match, an `AltMatch` is what the engines take it for, bytes of one class are interchangeable. The instructions for a class of runes read the encodings of just these runes, each in one way. |
| `dfa_states` | `AnswerCorrect` `QueuesFit` `SetAnswerCorrect` `RangeHolds` | The subset construction finds where matches end (or begin, backwards), within its queues; a set reports just the elements that match; the range of a program holds every string that matches it. |
| `parse` | `ParseTypeOK` `PatternMeans` `ErrorsAgree` `SimplifiedFully` `GroupsNumbered` `PrintedMeans` `PrefixesRequired` | All patterns of a few pieces: accepted or rejected as the notation says, with the right error; the tree, simplified or not, has the matches that the notation says; captures keep numbers and names; what is printed can be read again and means the same; a prefix that is searched for is required. |
| `filter` | `FilterMissesNothing` `FilterAgrees` `SetMatchesAll` | Collections built in every order, moved and queried: no regexp that matches is filtered out, `FirstMatch` and `AllMatches` answer as trying every regexp would, a set whose DFA finds memory enough reports all that match. |
| `library` | `ReplacedInTurn` `ConsumedInTurn` `NumbersExact` `LoopInTurn` `EntriesKept` `RefsCounted` `WalkIsRecursion` | The callers and helpers, each against a definition that does not loop: successive matches are replaced, or consumed only if every argument could be converted; a number is taken if it is one of its type and has its value; Perl's loop goes over successive matches of the whole text, reads the groups of each, and ends only when no match is left; sparse memory remembers what was set; counts are the number of references; the walk computes what recursion would. |
| `reverse_bail` `parse_fold` `perl_loop` `match_range` | `BailsWhenSlow`, `FoldsAreThere`, `GlobalMatchEnds`, `MatchesInRange` | Violated; see [Findings](#findings). |

`AnswerCorrect` compares submatches only where RE2 promises them: for a repeat of
something empty it does not (`mimics_pcre.cc`), and there the match alone counts.
A one-pass answer counts only for programs that `IsOnePass` accepts.

`CHECK_DEADLOCK FALSE` stands where a behaviour is a construction that ends:
growing a regexp, a pattern or a number (`compile`, `parse`, `parse_fold`, part of
`library`), a collection whose query has been answered (`filter`), a Perl program
that has done its matches (`perl_loop`). Everywhere else deadlock is checked; the
engines and `RE2Match` end in a step `Done` that repeats the answer.

## Bounds

| Bound | Value | Why it is enough |
|---|---|---|
| threads | 2 | Locks, resets and pointers concern a thread and the others; the proofs cover any number. |
| states in the cache (`StateBudget`) | 3 | The least the constructor's budget can mean (start, current, next), with an automaton of four contents and two start states: each search meets a full cache, also one that lacks its start state, and a reset by another thread. |
| `BailFactor` | 1 for 10 | Only the comparison matters; both outcomes occur. |
| `SizeModulus` | 64 | A `size_t` that a text of a few bytes does not exhaust but a negative difference does. |
| `WalkBound` | 2, for `live` 1 | Steps of `PossibleMatchRange`, whose own limit is the caller's `maxlen`. |
| texts of the engines | up to 3 bytes, `compile` 2 | A match, a byte before and a byte after it; repeats run twice. |
| bytes (`ByteMax` 3) | 4, `match_range` 5 | `\n`, an upper-case word byte, a non-word byte, the lower-case partner of the upper-case one: each test the code makes about a byte tells two of them apart. `match_range` has a greatest byte besides, which has no successor. |
| growth of a regexp (`MaxSteps`) | 2 | Each operator inside each other one. `MaxInst` 30 is above what any of them compiles to. |
| `RangeEnds`, `MaxRanges` | 10 ends, 3 ranges | Ends in each length of UTF-8 and on both sides of shared prefixes and suffixes; `MaxNInst` 40 is above what three ranges make. |
| `NodeBudget`, `OnePassTextMax`, `TinyTextMax`, `MaxOnePassCapture`, `MaxBitState…` | 8, 2, 1, 2, 15, 12 | Small enough that programs and texts on both sides of each limit occur. |
| vocabularies of patterns | 21, a few pieces each | One for each part of the notation and each rewriting: factoring, merging, nested groups, repeats and their limits, folding, classes, escapes, Latin-1, literal and POSIX syntax, mistakes. |
| `kMaxNsub`, `kMaxRepeat`, `MaxRepeat` | 3, 4, 4 (for 65,535, 1,000, 1,000) | Alternations longer than a node can hold, and products of counts on both sides of the limit. |
| `MaxCross`, `MaxClassSize`, `TooCommon` | 6, 2, 2 (for 16, 10 and 8) | Exact sets that are given up because they grow, classes spelled out or not, and nodes with so many parents that they are cut off. A regexp of more than `MaxVisits` (12 for 100,000) nodes has no formula. |
| objects of a collection | 2 | A move concerns two. |
| `MaxNumberLength`, `LongMax`, `NumberLen` | 4 (for 32), 3, 5 | Strings longer than the buffer, and values on both sides of every type's ends. |
| `VecSize`, `NArgMax` | 17, 2 | As in the code; and no argument, one, one too many. |
| `Index`, `MaxSizes`, `Garbage` | 3 indices, 2 sizes, {-1, 0, 1} | Garbage that is out of range, and that looks valid; indices that become valid by a resize. The proofs cover all values. |
| `kMaxRef`, `MaxHeld`, `MaxSubs`, `Node` | 3 (for 65,535), 4, 2, 3 nodes | The count goes into the map, and back, by the user's hands and by `Destroy`. |
| `Budgets` of a walk | 0 to 30 | From stopping at once to never. |

## Fairness

`live` uses `FairSpec`, weak fairness of each thread's progress inside
a call. The code has no loop that waits other than for a lock, so this says that
the scheduler runs every thread and that a lock which stays free is granted. It
says nothing of starvation: neither `pthread_rwlock` nor `std::shared_mutex`
promises that a writer is preferred to a stream of new readers, so `CallsReturn`
exempts a thread that keeps calling for ever: starvation by such threads is neither shown
nor excluded. What remains is that searches never
deadlock, and never take turns at discarding each other's states (a search keeps
the write lock from its reset to its end).

`perl_loop` uses `LoopSpec`: one program, one thread, weak fairness of its next
step, so that the program does not simply stop. It loops over all matches of a text, and the
counterexample is a loop that the code itself never leaves.

## Proofs

Each proof is for every value of the constants. What it assumes of them is named in
the module that declares them, and TLC evaluates it in every run that uses that module.

### The DFA's cache

`DFACacheProofs` proves, for every set of threads, automaton, set of requests and
budget with the assumptions named in `DFAAutomaton` and `DFACache`:

| Theorem | Statement |
|---|---|
| `ResetIsExclusive` | while a thread resets, all others are outside the cache |
| `Invariance` | `IInv` holds in every reachable state |
| `TypesKept` | `TypeOK` |
| `NoStateDangles` | `NoDanglingState` |
| `CacheIsSound` | each cached edge and start slot leads where a fresh computation would |
| `ContentHasOneAddress` | `OneStatePerContent`: comparing addresses compares contents |
| `NeverFatal` | the `LOG(DFATAL)` branches after a reset are dead |
| `ReadersSeeStableEdges` | `[][…]`: under a read lock, states stay and known edges do not change |

The assumption with content is `BudgetAssumption`: three states of the greatest
charge fit the budget. The constructor of `DFA` refuses a budget below twenty
states of the greatest size.

None of these properties is inductive. A pointer is valid because no reset can
have happened since it was loaded; that depends on who holds `cache_mutex_`
(`LockInv`); the thread that resets keeps contents instead of pointers
(`ResetInv`); what it finds on restoring depends on the memory left, which
depends on nobody else having come in (`BudgetInv`); and that a restored state
is the one that was saved needs that contents and addresses correspond
(`CacheInv`, `LoopInv`). `IInv` is the conjunction, over all threads. `LockInv` is inductive
by itself and comes first (`LockInductive`); the rest relies on it. `AddsSound` and
`ResetSound` say that additions and resets keep `CacheInv`; `Polite` and `Others`
that a step of one thread leaves another one's `ThreadInv` true, because a state
is freed only under the write lock; `Self` that a step keeps the invariant of the
thread that takes it, action by action.

For the refinement it adds:

| Theorem | Statement |
|---|---|
| `CacheRefinesRun` | `CacheTransparent`: the cached search implements `DFARun`, which makes every state afresh |
| `MemoryIsBounded` | the states in the cache, and what is charged for them, stay within the budget |
| `SlowSearchesGiveUp` | `BailsWhenSlow`: a forward search resets a shared cache again only if it has moved on far enough since the first time |

For the refinement `IInv` is joined by what a caller could notice (`SearchInv`: which
entry point a thread is in, whether its search still runs, that the state it ended in
is live) and by `CacheBounded`. A search's own step is then a step of its run
(`CallAbstract` to `ReturnAbstract`): by `CacheSound` the cached edge is the one `DFARun`
computes. All else is a stutter (`EnteringInvisible`, `ResetInvisible`, `RunInvisible`,
`ExploreInvisible`). Failures of the cached search are allowed by `DFARun`, as by the code.
That every state is paid for (`BoundKept`) bounds their number. `SlowSearchesGiveUp` is
stated for `~Reversed` because the reversed DFA violates it: the run `reverse_bail`.

### Sparse containers

`LibraryProofs` proves, for every set of indices, of sizes and of values, and whatever
integers uninitialised memory holds (`SparseAssumption`):

| Theorem | Statement |
|---|---|
| `SetIsOrdered` | `SparseSets` implements `OrderedSets`, under the mapping that reads the members off `dense_` |
| `ArrayIsOrdered` | so do the indices of a `SparseArray`, which can be moved besides |
| `ArrayKeepsEntries` | `EntriesKept`: `get_existing` returns what was set last, `has_index` is true of just what was set |

The implementation's state says nothing about most of the memory, so the invariant
must not either: `Linked` says that the first `size_` entries of `dense_` and the
entries of `sparse_` they lead to point at each other. That `contains` is membership
(`ContainsIsMember`) follows, since a forged entry of `sparse_` can only point at a
slot that names another index. An insertion finds room because distinct members are
below `max_size` (`RoomForOne`, a count of finite sets). `ValuesInv` ties the values
to the history of what was set. Initial states map to initial states
(`InitRefines`), and each step to a step or a stutter (`StepRefines`, `MoveRefines`).

### Reference counts

`LibraryProofs`, for every set of nodes, width of the count and length of subexpressions:

| Theorem | Statement |
|---|---|
| `CountsRight` | `RefsCounted`: a count is the number of references, in the object or in the overflow map; what has none is deleted, once |
| `DestroySafe` | the loop of `Destroy` never reads what was deleted |

`CountInv` counts the owners of a regexp: its slots in the subexpressions of live ones,
those of the one being taken apart only from where the loop is, and the callers.
A `Decref` and the loop of `Destroy` both take one owner away, and `OneLess` handles both.
The stack of `Destroy` lists its regexps once (`StackIsSet`), linked through the objects
themselves as in the code.

### The NFA

`NFAProofs`, for every set of programs and of calls:

| Theorem | Statement |
|---|---|
| `ThreadsAreCounted` | `ThreadsCounted`: `ref` is the number of holders; the free list has what nobody holds, once |
| `StackSuffices` | the stack of `AddToThreadq`, allocated as `2*cap + empty + nop + 1`, suffices |
| `QueuesSuffice` | a queue has an instruction once at most, so it never outgrows the program |
| `ThreadsReturned` | when the search returns, all threads are free |
| `MachineIsRight` | `FindsTheMatch`: no match is missed; what is reported is the end and the submatches of a path that matches; no path matches that begins before it or, if the longest is asked for, goes on for longer |

In `NFAInv`, `Owed(t)` counts the entries that hold a thread, in both queues, on the
stack, and in the variable the code keeps it in at that point. Which part of `runq` still
counts depends on how far `Step` is. `StackPaid` says that the stack is no longer than
the instructions in the queue have pushed, each once: that is why the size that the
constructor computes from the instruction counts is enough.

For `MachineIsRight`, `SearchPaths` defines the paths of a program with no search, stack or
queue (`Paths`, the least set closed under the program's steps), without hints, and with
an `AltMatch` that is only the head of its list. The starts (`Starts`) are those that the
anchors, and the literal that every match begins with, leave.

That what is found is a path is `SInv`: a thread to be run, or about to be put into a
queue, has the captures of one path that comes to its instruction there. The part that
needs an argument is the stack of `AddToThreadq` (`Backed`): the captures that go with an
entry are those of the next dummy below the top of it, or of `t0`, because captures are
copied when they are recorded and given back when the dummy is taken off.

That no path is missed is `CInv`, for some set of triples (instruction, position, start)
that are seen to. A queue has one thread for each instruction, that of the path that began
first, so what is seen to is seen to for all paths that began no earlier (`Queue`, from
the start `lo` of the last thread on): they can do the same from there, and none of them
is reported if the earlier one matches. What is seen to is done, or waits in a queue
(`Covered`), and stops to matter when a match is found that began earlier, or as early
and not shorter (`Live`, `Answered`). This needs the queues to be in the order of the starts
(`Order`): the code relies on it where the first match in leftmost-first mode cuts off
the rest of the queue. Starts are left out only once there is a match, or where the
literal does not occur (`Tried`).

### The backtracker

`BitStateProofs`, for every set of programs and of calls:

| Theorem | Statement |
|---|---|
| `StaysInText` | positions stay in the text, and each pair marked has its bit in the bitmap |
| `CapturesAreUndone` | once the jobs have run, no submatch is left of what failed |
| `BacktrackerIsRight` | it finds a match exactly if the program has a path to one, and reports the end and the submatches of such a path, from the first start there is, the longest if that is asked for |

`CapturesAreUndone` is about the specification by itself; the run `submatch` checks the
same of the engine as `RE2` calls it (`MCSubmatch!CapturesUndone`). The invariant is that
of the undo jobs for a register the deepest one unsets it (`BInv`).

Its paths are those of `SearchPaths`, as for the NFA.
That what is found is a path (`SInv`): each job waits with the registers its path
will have once the jobs above it have undone theirs. That no path is missed (`CInv`):
of all that has been visited since the search began, at any start, each pair is
settled, meaning that all that follows on it has been visited or waits on the stack. So
a list need be visited once only at a position. The
argument holds across the starts, since a start that fails leaves a settled set. The
hints skip only what cannot match; that is the assumption `HintsSound`. Where the
engine takes the shortcut of an `AltMatch`, to the end of the text at once, a path goes
byte by byte: that the loop leads there (`LoopPath`) and that a match is behind it
(`MatchIsBehind`) follow from `LoopsSound`.

If matches begin only where the literal occurs, the two engines therefore agree on
whether there is a match, on where it begins and, if the longest is asked for, on where it
ends. (A thread of the NFA may also begin where the literal does not occur, while others are
under way.) Neither theorem says that of the matches of one start the preferred one is
found, nor that a program's paths are what its regexp means. Those are `AnswerCorrect` and
`ProgramsMeanRegexp`, which TLC checks.

### The one-pass matcher

`OnePassProofs`, for every set of programs and of calls:

| Theorem | Statement |
|---|---|
| `FloodStackSuffices` | `StackFits`: the stack of the flood, `cap + empty + nop + 1` entries, suffices |
| `NodeLimitNotHit` | `IsOnePass` never runs out of the nodes it allows itself, `2 + byte` |
| `SearchStaysBuilt` | the search stays in the text, and only goes to nodes that were built |

What waits on the stack waits behind an instruction of its own (`StackOK`), since what
is queued twice is refused; and a node but the first stands for the successor of a byte
range, no two for the same (`NodesOK`). Both bounds then count injections
(`InjectiveLen`). `StackFits` is what `MCSubmatch!FloodStackFits` checks of the engine.

### RE2::Match

`RE2MatchProofs`, for every set of objects and of calls, all limits on the engines, and any
meaning of regexps that keeps to `WaysAssumption`:

| Theorem | Statement |
|---|---|
| `MatchIsRight` | `MatchCorrect`: whichever engines answer, are passed over or give up, the result is the leftmost preferred or longest match of the whole regexp, with the submatches asked for |
| `NeverInconsistent` | `EnginesAgree`: the engine asked for the submatches never denies what a DFA has found |

Match changes the question at every turn: it cuts the prefix off the text and the regexp,
turns an anchor of the regexp into one of the search, finds the end with one DFA and the
begin with another, and asks a last engine for a full match of just that place. Each
change has its lemma. `SameHits` and `SameWanted`: the narrowed search for the suffix finds
what was requested, moved by the prefix. `DeclinedRightly`: what is declined at once has no
match. `BeginsAre`: scanning backward from the end of the match for the longest finds its
begin, since a match that ends there and begins earlier would have been found first.
`FoundAgain`: the first way to match that ends where the chosen one does is the chosen
one, so the full match of the place is the same match with the same submatches. The
invariant (`MInv`) says for each stage what is known of the match looked for (`Found`).

### The callers

`LibraryProofs`, for every set of regexps, texts, rewrite strings, readers and
patterns, and any meaning of regexps that keeps to the assumptions below:

| Theorem | Statement |
|---|---|
| `ReplacesInTurn` | `ReplacedInTurn`: `GlobalReplace` replaces successive matches, each where none could have begun earlier, and leaves all else as it was; it takes a character apart only if the regexp's own matches do; `Replace` and `Extract` take the first match; a rewrite string that `CheckRewriteString` accepts never fails |
| `ConsumesInTurn` | `ConsumedInTurn`: in any order of calls, `Consume` and `FindAndConsume` take successive matches of the text, skip none, and take nothing when they return false |
| `PerlLoopsInTurn` | `LoopInTurn`: a loop `while (/…/g)` goes over the successive matches of the whole text; what Perl reads as `$&`, `$1`, … and `$+` is of that match, whatever was matched before; the loop ends only when no match is left |

For `GlobalReplace` the invariant (`Looping`) ties the loop's four variables to the matches
replaced so far: `out` is the text woven with them up to `p` (or to its end, which `p` may
be one behind); `lastend` is the end of the last; and every position in front of `p` lies
in a match, or begins none, or is passed over (`PassedOver`): it belongs to the character
behind an empty match that was not counted. Of any regexp this says that nothing was
skipped but those characters. `KeepsCharacters` says of a regexp and a text that matches
that begin with a character end with one, and that what matches within a character also
matches where the character begins, as is not so with some that have `\B` or `\C`; only
where it holds, the invariant adds that `p` begins a character. That it stays there after an empty match is
`AdvanceIs`: the code's steps by `fullrune` and `chartorune` go from one character to the
next (`RuneSize`, `CharStartsAre`). What is appended piece by piece is the whole by
`WovenOneMore`.
`Rewrite` appends what does not depend on what is there (`RewriteIs`), and no group it
asks for is missing (`CheckedIsEnough`, `VecIs`).

A consuming call searches what is left of the text, so its answer has to be carried over to
the text itself (`ConsumesNext`); a full match of what is left is also the
answer to a consuming call there (`FullConsumes`). That is why `ConsumesInTurn` is only about
regexps that look at nothing before the match; Perl's loop hands over the whole text, and
`PerlLoopsInTurn` needs no such condition.

For Perl, the invariant (`PerlInv`) ties the loop to its history: `pos` is where the last
match read ended, `finds` is what `Match` finds in the present subject, `offs` has a
place for each group of the regexp compiled, and the matches read so far are successive
(`FoundSoFar`). A search from `pos` finds the leftmost match from there
(`FindsNext`, `LeftmostIs`), and what Perl then reads is that match at its own place
(`ReadsIt`): groups that took no part are unset, `lastparen` is the last that did
(`LastParenIs`), however many an earlier match had set. Where the engine finds the
same empty match once more (see the finding `perl_loop`) the history does not grow, so
the theorem claims nothing of the end of such a loop.

### What the proofs assume

* `BudgetAssumption`, above; `SparseAssumption`; `BoundsAssumption` of `References`.
* `ProgsAssumption` of `Searches`: the engines are given programs that are `WellFormed` and
  whose hints and `AltMatch`es are sound. `compile` checks the same of all it compiles
  (`ProgramsAsAssumed`), and the runs of the engines check it of the programs they search with.
* `CallsAssumption`: calls have their bounds inside the text. `RE2CallsAssumption`: they are
  of the types of `Match`'s arguments, with any bounds.
* `WaysAssumption` of `RE2Match`: the regexp of an object begins with its prefix and
  goes on as its suffix; the text behind the end of a match does not matter but for the
  empty-width conditions; what is anchored matches at the text's ends only. Groups the
  regexp does not have are unset (`WaysTyped`). The runs `submatch` and `match_range`
  check it of `WaysTried` for their objects and texts.
* Of the callers' regexps, which have at most two groups (`NCaps`), in all runs and
  proofs: they match within the text, and so do their groups (`GroupsAssumption`,
  `FindsAssumption`); for those that read bit by bit, that they match what is left of a text
  as they match there in the text (`ReadersAssumption`: no condition on what is before the
  match). The run `library` checks the three of its regexps and texts.
* `AccelAssumption`: a prefix is looked for only if a match has to begin with it, so that
  from the start state the search finds the same behind what is skipped. The runs of the
  cache check it of their requests; `DFAStates` has the programs and their prefixes.

### What proving changed

* The model's `Shortcut` of the NFA left `pc'` open for opcodes that cannot follow it; it
  now says what it does for each.
* What hints promise was nowhere stated. Backtracking needs it, and only for a list's
  own bytes up to the hint, or to the list's end where the hint is 0.
* The same for `AltMatch`: the backtracker goes to the end of the text on it, which is
  right only if a match is certain behind the loop's other arm (`LoopsSound`), and no
  capture but those behind the loop is to be set on the way. Captures below 2 are no
  instructions: `InstOK` says so now.
* The loop of `Destroy` was one action, a fold over the stack. It is three steps now, so
  that what it reads half-way is seen too.
* That `GlobalReplace` keeps characters whole rests on something the code does not
  mention: if a regexp matches within a character, it has to match at the beginning of the
  character too. This was an assumption of the model; it is now a condition on the one
  claim that needs it (`KeepsCharacters`), and the rest is shown of every regexp.
* `ReplacedInTurn` was about `GlobalReplace` alone, and `Rewrite` was recursive over the
  rewrite string. It says now what `Replace` and `Extract` return as well, and a rewrite
  string is a set of tokens with the places where they begin.

### Left to TLC

* Liveness: that calls return, under fairness.
* All else that rests on the parser, the compiler, the flattener or the definition of matching.
  They are recursive over trees, in RECURSIVE operators, and the prover's induction
  takes an operator as a parameter. The library's well-founded minimum (`WFMin`) does
  work, so arguments by a least number are used where they suffice (`LeastNumber`,
  `FirstReached`).
* `DFAStates!QueuesFit`, which reaches such operators.
* `NumbersExact`: the value of a string of digits is a recursion over it.
* `GlobalMatchEnds`, a liveness property, which the code violates besides.

## Findings

* **`reverse_bail`** (`dfa.cc:1415`). The loop is to give up if it has covered
  fewer than ten bytes per state since its last reset. The distance is computed
  as `size_t(p - resetp)`; in a backward scan `p` decreases, the difference wraps
  around, and the search never gives up, however slow it is.
* **`parse_fold`** (`parse.cc:345`). `AddFoldedRange` stops at a range that is in the
  class already, on the assumption that its other cases are there too. When
  alternatives of one rune are merged, ranges without `(?i)` are in the same class:
  `a|(?i:a)` and `[ab]|(?i:a)` do not match `A`.
* **`perl_loop`** (`re2_xs.cc:243`). `RE2_exec` ignores `minend`, by which Perl asks for
  a match that is not the empty one again. `while ($t =~ /X*/g)` does not end, and
  `s/X*/-/g` dies with "Substitution loop".
* **`match_range`** (`re2.cc:579`). The range of a program from which a required prefix
  was cut off is computed as if the text began behind the prefix. For `^a\b-` it is
  from `a` to `a`, which leaves out `a-`, though it matches.

Small things, without a run.

The DFA:
* An earliest search that reaches `FullMatchState` reports the end of the text
  (`dfa.cc:1450`), although line 81 says that the match that ends first is used. No
  caller uses that end.
* `last_was_mark_` is documented as "last inserted was mark", but `mark` resets it
  itself (`dfa.cc:391`), so two marks may follow each other. The queue has room for
  them and they are dropped later.
* The comments at `dfa.cc:338-339` describe `mem_budget_` and `state_budget_` one as
  the other; the remark on `NULL` states at `dfa.cc:1264-1269` predates the dead state.
* For Latin-1 and `^\xffabc` with a `maxlen` of 1, `RE2::PossibleMatchRange` returns true
  with an empty maximum: it does not check that `PrefixSuccessor` found one.

The parser: with `never_capture`, named groups capture nevertheless
(`parse.cc:2087`; `re2.h:607` says that all groups become non-capturing); a literal
`\n` that the factoring merges into a class is dropped where classes do not match
`\n` (no `ClassNL`); `\p` followed by a byte that is no UTF-8 is reported as a bad range instead of bad UTF-8.

The callers: a floating-point argument of spaces alone is read as 0; `+` or `0x` in
front of leading zeros keeps them from being skipped, so that a number of more than 32
characters is refused; `GlobalReplace` with `\B` can take a UTF-8 character apart, and does
not look at what `Rewrite` returns. `FilteredRE2`: after a move the source has
forgotten its minimal atom length; `AllMatches` and `AllPotentials` before `Compile`
return nothing without a word; atoms are lowered with `ſ` to `s`, which a caller
who lowers the text by Unicode's own rules misses.

The binding: under strict mode a pattern with `/x` leaves no object, and the error
message is asked of it all the same (`re2_xs.cc:145`, outcome "crash" of the model);
patterns are wrapped in a group by text, so that `a)(b` is accepted; `lastcloseparen`
is set to the highest group instead of the last closed; the result of
`PossibleMatchRange` is ignored by `RE2_possible_match_range`.

## What is not modelled

* Atomics are sequentially consistent; the code uses release and acquire, for
  single publications, where the difference cannot be seen.
* The memory limits of the compiler and of `RE2::Init`'s two programs (they end in an
  error and leave no state); and when the DFA of an `RE2::Set` runs out of memory: it
  may on every search (`OutOfMemory`).
* `Fanout`, the `ShiftDFA` tables behind `PrefixAccel_ShiftDFA` (modelled by what it
  finds), the packing of one-pass actions into words, the search of a null text by
  the NFA.
* The compiler's operators and its UTF-8 ranges are checked apart: regexps over
  one-byte alphabets, classes by themselves.
* Unicode's tables: generated data, represented by the constants of `MCParse`.
* `mimics_pcre.cc` beyond the question whether a repeated piece can be empty, which
  decides where submatches are compared.
* Floating-point arguments (their value is the C library's), `QuoteMeta`,
  `StringPiece`, logging, dumping.
* Of the binding: the string form of a `qr//`, the flags for `split` and the like, the
  tables of named captures, the lexical scope of options, cloning for threads.
* Tests, fuzzer, benchmarks, the wrapper of PCRE, and `ppport.h`.

## Plan

The core and what surrounds it are modelled. In order of what would add most:

1. Proofs: the preference among the paths of one start, for the NFA and the
   backtracker; the states of the DFA (`DFAStates`) as the sets of instructions that
   the paths of `SearchPaths` come to.
2. `CompileSet` and the search of a set on the cache with its limits, so that it shows
   when `RE2::Set::Match` reports that it is out of memory.
3. The binding's scope of options and its named captures.
4. Regexps over UTF-8 through the whole compiler, with `RuneRanges` in the place of
   byte classes, on alphabets of a few runes.
