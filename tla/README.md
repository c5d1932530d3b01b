# Slimmer in TLA+

Slimmer finds computations of a C/C++ program whose results are never used. A
compiler pass (`SlimmerTrace`) adds calls to a runtime, the program then writes
a trace of its events, and an offline tool (`print-bug`) rebuilds the execution
from the trace, works out which instruction depends on which, and walks the
trace backwards to find what was not needed.

This directory holds the specifications of those parts, their model-checking
configurations and the machine-checked proofs. `PROJECT.json` lists components,
runs, mutations, the map from definitions to source lines, findings, hazards and
theorems.

## Inventory

Paths are under `src/`.

| Component | State | Operations | Hard behaviour | Correct when |
|---|---|---|---|---|
| Runtime trace buffer, `lib/SlimmerRuntime` | a ring of 150 blocks, a spin lock, four semaphores per block, two flags, two worker threads, the trace file | `Init`, `StartAppend`/`EndAppend` (inside ten record functions), `CompressTrace`, `DumpCompressed`, `CloseBufferFile` from `exit()` or from a signal handler | any number of threads against two workers; the close against both; signals on top of an append | no block is written and read at once; the file is the events in the order of their appends; an exit leaves the whole trace |
| Instrumentation, `lib/SlimmerTrace` | instruction and block IDs, the set of instrumented functions | `runOnModule` and one `instrument...` per kind of instruction | the order of the record call and the instruction | the events determine the execution, given the control flow graph |
| `MergeTrace`, `TraceIter`, `GetEvent` in `tools/PrintBug`, `lib/SlimmerUtil` | per thread: a stack of frames, the mark of the next block, collected arguments; the block trace | one branch per event, the loop over unrecorded instructions, the closing of frames | events of threads interleave; calls and returns are not recorded; the trace stops anywhere | the blocks replay each thread's execution, with matching calls |
| `SegmentTree`, `include/SegmentTree.hpp` | a binary tree over 64-bit addresses | `Set`, `Get`, `Collect` | splitting and joining of ranges | it is a map from addresses to values |
| `ExtractMemoryDependency` | last writer of every address, execution counters | one branch per kind of block, the renumbering | partial overlaps, overlapping moves, calls that touch whole groups | a read depends on exactly its last writers |
| `GroupMemory` | groups of addresses and of pointers, merged backwards | `Collect`, `Merging`, `MergeInst` | groups merged while one is in use | `Addr2Group` and `Group2Addr` are inverse, and so are `Ins2Group` and `Group2Ins` |
| `PrintBug.cpp` | needed instructions, needed memory, three stacks per thread | `PreparePostDominator`, `ExtractUneededOperation` | stacks that must follow the calls of the trace | an instruction is reported only if nothing needed depends on it |
| `PinTrace`, `EventBuffer` | call depth per thread, one locked buffer | `BeforeCall`, `AfterCall`, `SyscallEntry`, `Fini` | threads, exits in the middle | a system call is attributed to the external call it is made in |
| `ExtractImpactfulFunCall` | a stack of external calls per thread | one branch per event | returns that are missing | it names the external functions that made system calls |
| `lite-strace` | the traced processes | a `ptrace` loop | signals and exits of children | it prints each system call |
| `lib/SlimmerUtil` helpers | none | parsing, base64, printing | none | formatting only |
| `SlimmerLTO`, `SlimmerGold` | copies of LLVM sources | - | - | third-party |

How they interact: the pass gives every instruction an ID and writes the `Inst`
file and the block graph, which the offline tools read. The record functions of
the traced program share `event_buffer` with the two workers, through the spin
lock (appenders only) and the semaphores (blocks). The trace file is a sequence
of compressed blocks. Offline, `MergeTrace` turns it into `BlockTrace`;
`GroupMemory` reads that backwards and fills `Addr2Group`/`Group2Addr`;
`ExtractMemoryDependency` reads it forwards with those groups;
`ExtractUneededOperation` reads it backwards with the dependencies and the post
dominators, and `PrintBug` clusters what it reports. The Pin tool writes a trace of
its own, from which `ExtractImpactfulFunCall` takes the set of impactful functions
for `MergeTrace`.

## Modules

| Module | Models |
|---|---|
| `TraceLog` | what the runtime promises: the file is always a prefix of the log |
| `CircularBuffer` | the runtime trace buffer |
| `CircularBufferProofs` | theorems about its lock, blocks and types, with TLAPS; it implements `TraceLog` |
| `InstrumentedProgram` | which events the threads of an instrumented program record |
| `MergeTrace` | `MergeTrace`, driven by `InstrumentedProgram` |
| `MCMergeTrace` | a small program for it |
| `MergeTraceProofs` | theorems: its call stack, assertions, types and arguments; its blocks replay the execution; their marks |
| `SegmentTree` | the segment tree, as functions of the ranges of its nodes |
| `SegmentTreeProofs` | what `Set`, `Get` and `Collect` do, for a root of any size |
| `GroupMemory` | `GroupMemory`, over segment trees |
| `GroupMemoryProofs` | theorems: its maps match and groups only grow |
| `MemoryDependency` | `ExtractMemoryDependency`, after `GroupMemory` |
| `MemoryDependencyProofs` | theorems: the dependencies are exact |
| `MCMemoryDependency` | two sets of blocks for both |
| `PostDominator` | `PreparePostDominator` |
| `PrintBug` | `main`, `ExtractUneededOperation` and the clusters of `PrintBug`, after `MemoryDependency` and `PostDominator` |
| `PrintBugProofs` | theorems: the post dominators are what paths say; what is needed keeps its sources and calls; reports are the clusters |
| `MCPrintBug` | seven programs, and all graphs of four blocks |
| `PinTrace` | the Pin tool, `EventBuffer` and `ExtractImpactfulFunCall` |
| `PinTraceProofs` | theorems about its hooks, its log and the reader, with TLAPS |
| `SequenceLemmas` | lemmas about sequences that the proofs share |

`PrintBug` composes the offline tool: a behaviour of it builds a block trace, groups
its memory, extracts the dependencies and the post dominators, walks backwards and
reports, with `phase` as the place in `main`. `MergeTrace` and the two trace writers
are joined to it by what their runs show (the trace is the log, the blocks are the
execution), not by a common state space.

### CircularBuffer

The variables carry the names of the fields of the class. `RecordFits`,
`RecordFull`, `NextBlock` and `EndRecord` are the record functions, cut at the
points where another thread can act: taking the lock with or without handing the
block over, the end of `empty_buffer[cur_block].wait()`, and the release of the
lock. `CloseFits` to `CloseJoinDump` are the lines of `CloseBufferFile`, where the
assignment `dump_done = compress_done = true` is two steps. `CompressTrace` and
`DumpCompressed` have a step for each wait, signal, compression and write. The two
tests of a flag around a lap of the ring are one, since nothing lies between
them. `Signal` starts the close on a thread that is inside a record function, which
then stays where it is: this is what a handler does. An event is a thread and a
number; its bytes matter only for what fits in the block. `log` is history.

Nothing stops the other threads while the buffer is closed. They go on recording
behind `EndEvent`, fill the block and hand it over, until line 174 gives the current block to
the compressor without the lock. If one of them is in a record function at that
moment it writes what is compressed: a data race, after which no outcome is promised.
The model takes the step (`CloseRaces`) and ends in the place `raced`. Otherwise
(`CloseSignal`) it assumes that no thread records from there on: one that did would be writing
into the same block, or into freed ones (`Running`, `GivenAway`). All properties hold up to
the race, the one about data races (`NoDataRace`) included; that the race itself can happen
is what `CloseRaces` says, and the code has nothing against it. Further
assumptions: one exit per run; signals on traced threads only; `fwrite` succeeds.

### InstrumentedProgram and MergeTrace

`InstrumentedProgram` is the pass seen from outside: threads execute the
instructions of a constant control flow graph, and each kind of instruction
records what the pass makes it record, before or after it in the same block. The
trace is handed to `MergeTrace` one event at a time. A thread executes several functions
at the bottom of its stack, one after the other: constructors, `main` and destructors
(`RunOuter`), all of which the pass instruments. Main may therefore be known to the runtime
by its thread ID when it declares the globals, and `MergeTrace` then takes another
branch (line 113) and runs its loop. One event at a time is sound because
`ImplementsTraceLog` gives the events in the order of their appends, and
`MergeTrace` reads nothing but that order. The history `executed` has every
instruction with the block executed before it and the depth of the call stack.

`MergeTrace` has one action per branch of the event loop (`ReadDeclare` ...
`ReadHolder`), one iteration of the `while` loop as `Loop`, and the closing of
frames as `FinishFrame`. `Read` picks the next event; the pointers that
`NextEvent` leaves unchanged for placeholders are `tid_ptr`. They point into the block of the trace
that is being decoded: when `EndEvent` is the first event of a block (`EndEvent(TRUE)`),
`Prepare` has decoded placeholders over the thread ID, `tid_ptr` is then 0 for what is no
thread's ID, and closing a frame takes `back()` of a new, empty vector: `MergeTrace` crashes
(`FinishCrash`) if any function is still being executed. `Finishes` states exactly this. `block_trace` is
kept per thread. Addresses are dropped except for the arguments of a call.

Assumptions: direct calls only (indirect ones are marked TODO in the pass), no terminators that
call (`invoke`, which the pass takes for a terminator only), no
callbacks from library functions, no destructors below an `exit()` deep in a call, no `longjmp`. `SplitCalls = FALSE` assumes that
no block of the trace ends, and `EndEvent` does not come in the same block, right between a call and
the first event of the callee; `TRUE` lifts this and is used by the run
`placeholder`.

### SegmentTree, GroupMemory and MemoryDependency

A tree is a function from the ranges that halving the root gives (`Nodes`) to what is
stored for each. The code keeps only the nodes above the leaves; a range below a leaf holds
what the leaf holds, which is what the code copies into the two children when it splits the
leaf. This makes every operation a recursive function over `Nodes`, whose ranges get
shorter. `Join` is the tail of `Set` that makes one leaf of two equal ones, `Glue` the tail
of `Collect2` that lengthens the last segment, where two results meet. `MAX_RANGE` is any
positive number; in the code it is 2^64 - 1.

`GroupMemory` has an action per kind of block. `groups` holds the global variables of
the file; `Merging` is the C++ function of that name for groups and `MergedTree` the
one for trees. A result of an instruction and an argument of a function are two kinds
of keys, where the code adds `Ins.size()` to an argument's number. `MergeInst` returns
the group it had before the arguments were handed to the caller, as the code
does; `MapArguments` hands them over in the order of their numbers, which are below `MaxArgs`; `AddRanges` is where that group may be gone (`crashed`). `Calculable` says what
the grouping is for: going back from two accesses through operands,
arguments and passed values, a common pointer means a common group. It is claimed
for functions that call no other before they use their arguments, since
`labeled_args` is one set per thread.

`MemoryDependency` has an action per branch of the loop over the blocks, each of
which first counts the execution (`Count`); `Finish` is the renumbering. `found` is
`_mem_dep`. The reference definition, `Depends`, speaks of bytes and positions in the
trace, and knows no tree and no counters. In it an atomic operation accesses nothing,
as in the code; the run `atomic_store` states what the comment says instead. `MergeTrace` is
here only the blocks it may return: `NextBlocks` gives those that may follow a trace, and
`BlockAssumption` says what they are (threads and instructions are known, no range
ends beyond the root).

### PostDominator and PrintBug

A sweep of `PreparePostDominator` is one step; `res` lives through it, as in the
code, so a block without a successor gets what the block before it left. `Reach` is the
search, a frontier of at most as many steps as there are nodes.
`Unavoidable` is the definition over paths.

`PrintBug` reads one block backwards per step. `EnterBlock` and `StartOfFunction` are
the two ends of the loop body, with the three stacks of a thread (`fun_used`,
`next_bb_used`, `terminator_stack`) as one stack of frames, since they are pushed and
popped together. `OneBlock` goes back through a basic block whose terminator turned
out to be needed. `kept` is history. The reference definitions at the end of the module
find operands, incoming values of phi nodes and last writers from positions in the
trace.

What is claimed, and what not. A needed instruction's operands, incoming values and
last writers are not reported if it was found to be needed when it was read; if it was
found late, by `OneBlock`, only what is still to be read is kept, and the incoming
values of its phi nodes may be the wrong ones (run `report_unsound`). An ignorable call
(`free`, `va_start`, `va_end`) that starts a function leaves a frame behind: `MainTypeOK`
counts it, and `CallsKept` and `BranchesKept` make no claim across such a start (`Leaves`).
`Framed` is what `MergeTrace` promises of the marks (`AllClosed`): no thread's functions are
left more often than entered, going backwards. The programs have
no recursion, for which `needed` does not tell activations apart.

### PinTrace

A thread's stack alternates between external functions and the instrumented code
they call back. `Call` and `Return` are the instructions that `ImageLoad` hooks,
`CallUnhooked` an indirect call or one with nothing behind it, `JumpPast` a jump to the
instruction that carries `AfterCall`, `Unwind` a `longjmp` or an exception. The hooks
are cut at the lock and, in `Append`, behind each of the three writes of a full block (its
length, its data, its length again), the reset of
`offset` and the copy. The close comes from `Fini`, `finish` or a signal handler, on top of any thread
(`EnterClose`) and without the lock, so it may find threads anywhere in a hook, and it stops none but
its own. Another thread that goes on in `Append` then uses the buffer together with it, a data race
(`Race`, after which the model ends); those that do not reach `Append` go on, and
`CloseBufferFile` writes what there is and closes the file. A write
succeeds. `ImpactfulFunCall` is the reader.

A block enters `file` with its second length. A close between the writes of a flush writes
behind a part of a block, which the reader takes for something else; nothing is claimed of
such a file (`NobodyWrites`), and nothing of whole blocks and order when a
block is written twice (`NobodyFlushes`), except that no function is missed. `made` has for each
system call the outermost hooked function, which is what `BeforeCall` records: an external
function called in a callback of another is not named, whatever it does.

A thread that jumped over a call or unwound one is `skewed` for good: its depth is
wrong, its later system calls are recorded for the wrong call or not at all. The
properties are about threads that are not skewed, and say that one skewed thread does
not disturb the others; that skewed threads come to exist is a hazard that no property covers.

## Runs

| Run | Bounds | Shows |
|---|---|---|
| `buffer_safety` | 2 threads, 2 blocks of 2 bytes, events of 1 or 2 bytes, 3 events each, signals | `TypeOK`, `OnePlace`, `NoDataRace`, `LockHolder`, and the refinement of `TraceLog` |
| `buffer_liveness` | the same with 2 events and no signals, fair | full blocks reach the file, appends return, a close after both workers caught up is complete |
| `lost_tail` | as above | violation: an exit can lose blocks |
| `close_hangs` | as above, fair | violation: an exit can wait for ever for the dumper |
| `signal_deadlock` | 1 thread, signals, fair | violation: a signal inside an append never flushes |
| `merge_replay` | 2 threads, 7 blocks of code, 16 instructions of the main thread and 9 of the second | `Replay` and five more invariants; `MergeTrace` ends, or crashes when `EndEvent` opens a block |
| `placeholder` | `SplitCalls = TRUE` | violation: a placeholder after a call derails the call stack |
| `memory_dependency` | 7 addresses, 2 threads, traces of 4 accesses out of 10 and of 6 blocks with pointers | the maps of the groups match, groups only grow, a common pointer means a common group; the tree is a map, `Collect` tiles, dependencies and their numbers are exact; null pointers are used only where a global has size zero or an argument's group is merged away |
| `atomic_store` | the same | violation: atomic operations are not recorded |
| `uneeded_report` | 7 programs, one or two threads; every graph of 4 blocks with at most 2 successors | post dominators match paths; stacks follow the calls; what is needed keeps its sources, branches and calls; nothing is kept without a use; reports are the clusters |
| `report_unsound` | the program with a loop | violation: the increment of a needed loop counter is reported |
| `pin_trace` | 2 threads, 2 functions, 6 steps of the program, stacks of 3, blocks of 260 bytes | depths count open calls, the trace is the log, the reader finds every impactful function and no other, locks are given back |

Why the bounds suffice. Two blocks are the smallest ring that wraps and lets the
appenders, the compressor and the dumper be on the same or on different blocks;
with three events of up to a whole block per thread the ring goes round more
than twice, so blocks are reused and stale content would show. Two threads are
enough for contention on the lock. The program of `MCMergeTrace` has one
instance of each case of `MergeTrace`: a call that ends a recorded part of a block,
a recursion whose innermost return closes two frames, a loop with a phi, a
function whose first block records only its own entry, intrinsics, external calls
with several and with shared arguments, a function that runs before `main` and after
the start function of a thread, and a second thread. The 16 instructions of the main
thread reach the end of `main` with two levels of recursion, or with a constructor before it
or a destructor after it; the 9 of the second a whole start function with one level, or with
a destructor. Seven addresses give
a tree of three levels whose middle is rounded at both kinds of bounds, and four
blocks a write, a partial overwrite, a read and a repeated instruction. Six blocks
with pointers hold a call, an argument used in the callee, and an access through
the same pointer in the caller; the traces are always of full length, and so every
step of the backward walk over them is checked. The programs of `MCPrintBug` have one
instance of each branch of `ExtractUneededOperation`: a needed and an unneeded branch, a
terminator found late with an operand from an earlier block, a
loop, a call whose result is used and one without a result, a memset, an impactful call, an
ignorable call at the start of a function, frames left open at a cut, and a
store by another thread that a load depends on. Six steps of the program
reach, in the Pin tool, a call in a callback with a system call below it, a full block
with a third event behind it, calls of both threads with system calls in either
order, and a close on either thread at each point of these.

Deadlock is not checked in any run, since the traced program may stop
anywhere and an analysis ends.

Fairness. `FairSpec` of `CircularBuffer` gives weak fairness to each worker, to
the close, and to the parts of a record function that its thread executes once it has
the lock: the operating system runs threads that can run. Nothing is assumed of
a thread that spins for the lock, which may lose every race, nor of the program:
it need not record, exit or receive a signal. The number of events is bounded, but
no liveness property relies on the bound: each is about a block already
filled, a lock already taken, or a close already begun; none claims anything of a thread or
a close that has come to a data race. `MergeTrace` has weak
fairness of the tool only, and `PinTrace` of the thread that holds the spin lock.

Every property of a passing run has a mutation of the code, written beside the
definition it replaces, that breaks it.

## Proofs

All safety properties that the runs check of `CircularBuffer`, `PinTrace`, `MergeTrace`,
`MemoryDependency` and `PostDominator`, all but one of `GroupMemory` and four of the seven of
`PrintBug` are proved for every value of the constants, with the refinement of `TraceLog`. The bounds (`MaxEvents`, `MaxSteps`, `MaxDepth`) are constants like the
others: any number will do. What follows says which inductive invariant each proof has, and
why it is needed.

| Module | Theorems | Assumed |
|---|---|---|
| `CircularBufferProofs` | `LockHolder`, `OnePlace`, `TypeOK`, `NoDataRace`, `ImplementsTraceLog`, and `WholeTrace` | the four assumptions on its constants |
| `PinTraceProofs` | `DepthCounts`, `PinTypeOK`, `WholeLog`, `NoneMissed`, `OnlyImpactful`, and `MutualExclusion` | the assumptions of `PinTrace` |
| `MergeTraceProofs` | `NoAssertionFails`, `TypeOK`, `Replay`, `CallersMatch`, `AllClosed` | `GraphAssumption`, `ThreadAssumption`, `~SplitCalls` |
| | `OwnArguments` | nothing about the split |
| `GroupMemoryProofs` | `AddressesMatch`, `PointersMatch`, `CrashesOnlyThere`, `GroupsOnlyGrow` | `RangeAssumption`, `NoGroupAssumption`, `DependencyAssumption`, `BlockAssumption` |
| `MemoryDependencyProofs` | `TypeOK`, `LastStore`, `CollectTiles`, `LastWriters`, `CountedFromEnd` | the same, and `NoWriterAssumption` |
| `PrintBugProofs` | `PostDominatorsMatch` | `GraphAssumption` |
| | `MainTypeOK`, `DependenciesKept`, `CallsKept`, `ReportsMatch` | those of `MemoryDependency`, `InstructionAssumption`, and `Framed` of the trace |

### The runtime buffer

`OnePlace` and the bound of the semaphores depend on one another
and on the lock, so none is inductive alone. The invariant is
`IInv == Types /\ Places /\ LockHolder /\ OnePlace`. `Types` lets the semaphores
be any natural number; `Places` relates a thread's place to its remaining events,
the closing thread to the place in the close, and says that nobody is
inside a record function once the close has given the block away. Mutual exclusion makes "the
appenders have the current block" a fact about one thread. Every signal is
then paired with the loss of the block by its owner, and every wait with a gain,
so the sum of the four places of a block stays one. That the semaphores
stay below two, and that the two kinds of data race are impossible, are
consequences of this sum.

The refinement. That the file is a prefix of the log needs to know what is not in the
file yet, and in which order. `RingOrder` says it: walk round the ring from the block the
dumper takes next, over the one the compressor takes next, to the appenders' block. On the
first part lie exactly the full copies, on the second exactly the full blocks, and the file
followed by what they hold and by the appenders' block is the log. A block may lie on
both parts, its old copy waiting for the dumper while it is full again, so the walk may go
nearly twice round the ring; this is why it is a sequence (a witness under an
existential quantifier) and not a pair of indices. Filling a block lengthens the walk at its
end, compressing moves the border between the parts, dumping shortens it at its start; the
concatenation changes only by `FlattenAppend` and `FlattenHeadTail`. `Refinement` maps the
steps: `Dump` is `LogWrite`, an append is `LogAppend`, all others stutter. `WholeTrace` adds
the converse of finding 1: a close loses nothing but the blocks that the workers have not
come to when they stop.

### The Pin trace

The hooks. The invariant is `IInv == Types /\ OneHook /\ DepthCounts`: `OneHook` ties
the lock to the place of the thread that holds it, and `DepthCounts` is inductive with the
types, since a step of a thread leaves the counter, the stack and the place of the others
alone (`DepthOfOthers`). What remains is how a push or a pop changes the number of hooked
frames (`HookedPush`), and that a hook counts a call exactly when it leaves the place in
which the call was not counted yet.

The log and its reader. `LogInv == LogTypes /\ HookEvents /\ Stored /\ Attributed /\ Reported` adds:
the buffer is as long as `offset` says and within a block; each hook carries the event
of its own call; file and buffer are the log, a block between its write and the reset
counted once; and a reader of the log *so far* has, for each thread that is not skewed, the
outermost call of `Recorded(t)` on its stack. `Recorded` is the thread's stack without a
call that is counted and not in the log, and with a return that is not in the log. This is
what lets a close come anywhere in a hook: the reader is never more than that one event
behind. The reader is a recursive function; the proof needs only that one more
event is one more step of it (`ReadTraceAppend`).

### MergeTrace

`~SplitCalls` is a hypothesis of these theorems and not an assumption of the module: the
placeholder and `EndEvent` do run the loop for a thread whose callee has not recorded
anything (finding 4), and the run `placeholder` shows `NoAssertionFails` to be false then.
`GraphAssumption` says what LLVM guarantees of basic blocks: none is empty, each ends with the
only instruction that leaves it, branches and calls lead to blocks. Any recursion, any
number of threads and any order of their events is covered.

The call stack. The heart is what `MergeTrace` knows between two events. Calls and
returns are not recorded, so its stack runs ahead: `AtEvent(P, m, M)` says that it has the
lower `m` frames of the program's stack `P`, the frames above have nothing left to record
before they return (`Returning`), the frames below are exactly the program's, and the top
one has gone on to the next instruction that records an event (`Ahead`), or to the end
of the block before one the program has not entered yet. `Closed` is the same inside the
`while` loop, and `Announced` says of an event on its way that it is that of the
instruction the top frame has come to. The invariant `SInv` ties every thread to one of
the three, and holds `failed = FALSE`: each assertion of the code compares the event with
the top frame. `Waiting` is for the frames that are open when the file ends. The order of
the events matters only within a thread, and that is the shape of the invariant.

`OwnArguments` has an invariant of its own, `ArgumentInv`: what is collected for a thread is
what it has recorded, up to the one event on its way. It needs no knowledge of the
stack and holds with split calls, too.

The replay. Being ahead means that blocks stand for instructions that the program
has not executed. `Lead(P, M)` is that difference, the segments between each frame of the
program and the frame of `MergeTrace`, innermost first, in the order in which they
will be executed. `Covers` says that the blocks are `executed` followed by the lead; an
instruction that records an event is executed one step before its block is made, and the
lead is empty at it. `Counted` says that the marks of the blocks count the frames of
`MergeTrace`, which gives the depth at which an instruction is replayed. `Replay` alone would
let the blocks stay behind the program; that they do not is in `ReplayInvariance`. A step of the
program takes the first instruction off the lead (or, at a return, a segment that
has become empty), and an iteration of the loop appends a segment to the blocks.

The marks. For the names in them, `MarksInv` reads the blocks forward as an
analysis does: `Named` says that the calls that are open after the last block, with the one
whose first block is still to be made, are those that `MergeTrace`'s frames wait for.
`Matches` is `CallersMatch` in a form that one more block extends; `Callers` is a recursive
function over the blocks, unfolded by `CallersAppend`. `Begun` is about the program: a frame
that has executed nothing was called by the last instruction of the thread, so the first
block of a function follows the block that ends with the call. For `AllClosed`, `Edges` says that
the marks for the first and last block of a thread stand exactly where no function is open,
and `Bottom` the same of the block that is still to be made: a constructor, `main` and a
destructor are told apart by nothing else. The empty stacks at the end do the rest.

### Segment trees and groups

`SegmentTreeProofs` takes the operations one by one. `RecursiveFunction` is the existence of a
function that is defined from its values at lighter arguments; the weight of a node is its
width (`Ranges`, `Halves`). `IsTree` is `WellFormed` without the joining of equal
children, which the trees of groups do not have, and `At` is what is stored for one address.
Everything above the trees is then said by address: `Set` changes `At` inside its range
only, `Get` is `At`, and `Collect` returns segments that follow one another without a gap
and differ (`Tiles`, `Cuts`). Each of the three goes up from the children of a node.

`GroupMemoryProofs`. `GroupsOK` is what the proofs need of the maps at any time: an address is
in the tree of the group it is mapped to and in no other (`AddrOK`), pointers the
same (`PtrOK`), and no group has a number above `MaxGroupID`, so that a new one is new.
`AddressesMatch` and `PointersMatch` as the runs state them follow from it. Merging groups
needs that the smallest of them has a tree (`MergesAddr`, `MergesPtr`), and it is the
only thing that erases groups: `Coarsens` says that what was together stays together,
from which `GroupsOnlyGrow` follows step by step. The four loops of the code (over segments,
arguments of a function, arguments of a call, instructions of a block) are recursive
functions, one lemma each. `GroupInv` adds that the arguments of every call read are in a
group, which `GroupCall` is for, and that `crashed` is set only by a block that may.

### Dependencies

`DependInv` says of a prefix of the trace that each address holds its last writer,
numbered forwards (`Remembers`), that each counter is the number of executions
(`Counts`), and that what has been found are the dependencies so far, and perhaps of a
call on itself (`Finds`). It is stated with positions in the trace, so one more block
extends it: `Records` says what a block has to do to `last_store` and `found` for this,
and each of the six actions is shown to do it. For a call this goes over its
arguments and the segments of each group; a segment already overwritten by the call itself
is what the exception in `LastWriters` is about. `CountedFromEnd` is then arithmetic:
executions before, plus one, plus executions after, are all there are.

### Post dominators and the slice

A search reaches a set that is closed under successors outside `avoid`, and every closed set
around its start contains it (`ReachIs`): the function has as many steps as there are
nodes, and one that adds nothing is the last. The invariant of the sweeps (`DominateInv`)
has two halves. Going down, no sweep removes a block that cannot be avoided (`SetsAre`,
`Swept`), and that needs no order of the blocks. Going up, when a sweep has changed nothing
(`Stable`), each set is contained in that of each successor plus the successor itself,
so a block in it is met on every path; a block without a successor has what the one before
it left, and `ExitsLast` makes that harmless.

The backward pass. `Framed(block_trace)` is a hypothesis of the four theorems, stated as
`[](phase # "MergeTrace" => Framed(block_trace))`, since `NextBlocks` does not say what
`MergeTrace` does with the marks; without it the code takes the top of an empty
stack. `MCPrintBug` evaluates it on all its programs. Nothing else is assumed of the trace: any
threads, any interleaving, recursion too (the execution that an operand comes from is then
the last one of the thread, as in the code).

None of the properties is inductive, for they speak of the end. What holds on the way is in
`Owed(u, y)`: an execution `y` that something needed takes its value from is
either read and not reported, or still to come and waited for, by number in `mem_depended`
or by instruction in `needed` *and* the next one of that instruction. The second way is why
the counts are part of the invariant. `Between(u, k)` holds when `k` blocks are left: `SliceOK` (types;
what is unneeded or waits in a frame has been read), every count is the number of
executions read (`Ran`), the stacks are as deep as the marks say (`Depth`), and
`Owes(u, k)`: the sources of everything found needed are owed (`OwesSources`), and so is the
call of each function that something needed is in, once its first block has been read;
before that, its frame is marked as used (`OwesCalls`, `InUse`). `Within(u, k, m)` is the same
inside block `k`, with `m` instructions of it left.

The steps of a block follow the code: `WithinEntered` (`EnterBlock`), `WithinReading` for any
instruction, `WithinLeft` (`LeaveBlock`), `BetweenStarted` (`StartOfFunction`), and `SliceStep`
puts them together for each kind of block. An instruction is summed up in `Reading`: it is
counted, and either `Keeps` or `Passes`. `OneBlock` is `Quiet`: whatever it finds to be needed
late has been read already, so nothing that was owed is lost (`OneBlockQuiet`). Three
facts are about the trace alone: an operand's last execution is the next one
that a backward reader meets (`OperandIsNext`), the dependencies of `MemoryDependency` are numbered as
the pass counts (`BackwardIs`, from `CountedFromEnd`), and the frame of a function lies at
one depth from its last block to its first (`BodyDepth`).

The reports. `ReportInv` says that the reports so far are disjoint, make up `printed`, and each is
closed under the edges of `UneededGraph`. The edges go both ways, so a search that
avoids what is printed would not have met it (`NextReport`).

### Sequences

None of the provers can use the library's induction theorems, which have an operator as a
parameter. `SequenceLemmas` therefore has induction over sets, `NatSetInduction`, proved
from the pigeonhole theorem of the library (a predecessor function on the numbers that are
missing would be one to one into fewer numbers), and from it `SeqSetInduction`, existence and uniqueness of the
function inside `FlattenSeq`, and its laws for an element at either end. A recursive function
of the model is handled the same way: a predicate says what the function in the definition
is (`IsSet`, `IsCollect`, ...), a lemma that there is one, and the others are about any such.

### Only model-checked

* Liveness: fairness and `ENABLED` are beyond the prover. This is `FullBlockReachesFile`,
  `AppendReturns`, `CaughtUpClose`, `Finishes` and `LockReleased`.
* `Calculable` of `GroupMemory`: its `Origins` go back along a chain of any length, and the
  labels on the way are an induction over that chain and the trace at once.
* `LateDependenciesKept`, `BranchesKept` and `KeptForAReason` of `PrintBug`: they are true because
  a basic block is executed from its first instruction to its last, after a block that leads
  to it, and an operand before its use. The traces of the model's constants need not be such; the
  programs of `MCPrintBug` are.

## Findings

1. `CloseBufferFile` sets its flags before it signals the last block, so the
   workers may stop with blocks unwritten (`lost_tail`).
2. The dumper may wait for ever, and with it the exit (`close_hangs`).
3. A fatal signal inside an append spins on the lock of its own thread
   (`signal_deadlock`).
4. `MergeTrace` runs its loop for placeholders and `EndEvent` with the thread of the
   event before (`placeholder`).
5. Atomic operations are ignored by `ExtractMemoryDependency` (`atomic_store`).
6. `OneBlock` resolves the phi nodes of a block with the edge of the block before it
   (`report_unsound`).

Seen while modelling, without a run of their own: blocks made after the last event are
never marked as first (`MergeTrace.cpp:270`; harmless, as `MainTypeOK` and `CallsKept` show
with such traces); `MergeInst` can return an erased group (`GroupMemory.cpp:252`) and
a global of size zero indexes an empty vector (`GroupMemory.cpp:25`), both allowed for by
`CrashesOnlyThere`; a jump to the instruction after a call skews `pdepth`
(`PinTrace.cpp:178`); threads that record while line 174 of the runtime gives their block
away race with the compressor, and later ones with `free` (`SlimmerRuntime.cpp:174`, `CloseRaces`);
`MergeTrace` crashes on a trace whose `EndEvent` opens a block while functions are being executed
(`MergeTrace.cpp:271`, `FinishCrash`); a signal between the writes of a flush leaves a Pin
trace that cannot be read (`EventBuffer.cpp:83-89`, where line 44 says "Flush all the
buffered log into the file"), and one in another thread's `Append` a data race (`Race`); an
external function called in a callback is never named (`PinTrace.cpp:106`, where
`ExtractImpactfulFunCall.cpp:6` says "the function calls that impact the outside enviroment").

## Plan

1. *Done*: all modules of the table above.
2. *Done*: every invariant and the refinement of `CircularBuffer`, every invariant of
   `PinTrace`, of `MergeTrace` and of `MemoryDependency`, all but one of `GroupMemory`.
3. *Done*: `MainTypeOK`, `DependenciesKept`, `CallsKept` and `ReportsMatch` of `PrintBug`.
4. What relates the trace to the graph of the basic blocks, as an assumption on `NextBlocks`;
   from it, the other three of `PrintBug`.

## Not modelled

LLVM's rewriting of the program, the text formats, the printing of the
source lines of a report, `lite-strace` (a loop whose behaviour is the kernel's, and which no
other part uses) and the vendored compiler sources (see the components in `PROJECT.json`).
LZ4 is taken to be correct. The address space of a fork, exhausted memory and
full disks are outside the models.
