# A verification of the CS24 systems programs in TLA+

The repository is a set of small systems programs in C and IA32 assembly: a
user-level thread package, an allocator, a garbage-collected interpreter, a
cache simulator and others, each in a directory of its own and independent of
the rest. This directory holds TLA+ models of them, TLC runs that check the
models on small instances, and TLAPS proofs.

Run `tlc -config <run>.cfg <module>` for a run and `tlapm <module>.tla` for the
proofs; `PROJECT.json` lists every run, its module and its properties, the
source lines behind each definition, and the mutants that show each property
can be broken by a plausible bug.

## 1. Inventory

| Component | State it keeps | Operations | What is hard |
|---|---|---|---|
| `week7` scheduler: `sthread.c`, `glue.s`, `timer.c` | `current`, `ready_queue`, `blocked_queue`, `scheduler_lock`, per thread `state`, `prev`, `next`, context | create, start, yield, block, unblock, finish, the SIGALRM handler | preemption between any two instructions; intrusive links shared by queues; a lock that callees drop |
| `week7` semaphores: `semaphore.c` | `i`, `threadQueue` | new, wait, signal | lost wake-ups, re-test after a wake-up, two queues for one thread |
| `week7` buffer: `bounded_buffer.c`, `fibtest.c` | `buffer`, `first`, `count`, three semaphores | add, take, producer and consumer loops | mutual exclusion, deadlock, starvation |
| `week6/sthreads` | as week 7 without lock | create, start, yield, block, unblock, finish | links left over from the other queue, the end of the last thread |
| `week3/myalloc` | one pool tiled by headers and payloads | init, `myalloc`, `myfree` | splitting and coalescing keep the tiling |
| `week3/rle` | none | decode, encode | counts at their limit, the carry of an 8-bit sum |
| `week4/scheme24` | the allocated values, lambdas and environments; the evaluation-context stack, which holds addresses of C locals | `evaluate`, ten special forms, built-in functions, the loop and `eval-file`, `collect_garbage` | what an evaluation still needs must be rooted at each collection; contexts must match the C calls on error paths too |
| `week4/exceptions` | a stack of jump buffers in a vector that grows and shrinks | TRY, CATCH, END_TRY, THROW, RETHROW | nesting, rethrow in a handler, a failing `realloc`, nothing to catch |
| `week5/cachesim` | cache sets, lines, tags, LRU times; memory; a heap of floats | read, write, flush; add and take a value | refinement of a flat memory; the order of the heap |
| `week5/multimap` | two binary trees and a B-tree | add, contains, traverse, clear | splitting a full node, the path of a search |
| `week8` virtual memory | page table, loaded pages | map, unmap, fault, evict | unfinished in the repository |
| `finWeek/cas` | one shared integer | `add_to_accum` | lost update, wrong result |
| `finWeek/primes` | a bit vector | the sieve | unsigned overflow, the last number |
| `midWeek/arbiter` | turn and two grants | `clock_arbiter` | exclusion, waiting time |
| `midWeek/reverse` | a linked list | append, reverse, free | both ends after a reversal |
| `week1/proc` | pc, registers, buses | fetch .. nextPC | the order of the units within a clock |
| others (`classes`, `cpuinfo`, `myids`, `bits`, `floats`, `week2`) | none worth a model | | |

The components do not call each other across directories, except that week 7
stacks `bounded_buffer` on `semaphore` on `sthread` on `glue` and `timer`,
that the heap of week 5 lies in the simulated memory, and that `virtualmem`
calls `vmpolicy` through four functions.

The properties that make each correct, and the places in the code that are
hard to test, are in `PROJECT.json` under `hazards`.

## 2. Modules and what they stand for

| Module | Code | State and actions |
|---|---|---|
| `ThreadQueues` | the `Queue` operations of `sthread.c:118-235` and of `semaphore.c` | One record `links` holds the head and tail of every queue and the *one* `prev` and `next` of every thread, as the structs do. `queue_append`, `queue_take`, `queue_remove` map links to links; `append_faults` and `take_faults` are true where the C code would follow a null pointer. |
| `SThread` | `sthread.c`, `glue.s`, `timer.c` | `status` (boot, run or how the process ended), `lock`, `current`, `state`, `links`. `MainCreate`, `StartTimer`, `StartLock`, `StartThreads` are `main`; `Preempt` is a tick that enters the scheduler; `Schedule` and `Dispatch` are `__sthread_scheduler` and `__sthread_restore`. |
| `SThreadClient` | the thread API under any use | `pc` and `target` of each thread; one action from the call to the lock and one from the lock to the switch; `sthread_create` statement by statement, because it takes no lock. |
| `Semaphore` | `semaphore.c` | `i` per semaphore; `wait` and `signal` cut at every point where the lock is free or another thread can have run: `WaitEnqueue`, `WaitBlock`, `WaitRelock`, `WaitPass`, `WaitDec`, `SignalInc`, `SignalWake`, `SignalRelock`, `SignalUnlock`. |
| `FibTest` | `bounded_buffer.c`, `fibtest.c` | `buffer`, `first`, `count`, the local `elem` and place `at` of each thread; one action per statement that touches shared state. Extends `Semaphore`, which extends `SThread`: the whole of week 7 runs together. |
| `BoundedFIFO` | (abstract) | what the buffer promises: put, get, at most `Capacity` elements |
| `CoopThreads` | `week6/sthreads` | the threads on `ThreadQueues` without a lock: a call is one step, since nothing interrupts it before its switch; `__sthread_schedule` is the first half of the scheduler, `Dispatch` the second |
| `RoundRobin` | (abstract) | what cooperative threads promise: a sequence of waiting threads, a set of blocked ones, and when the process ends |
| `MyAlloc` | `week3/myalloc/myalloc.c` | the headers as they lie in memory, stale ones too; one step per block of the search; `Split`, `Free` (with every merge) and the repeated free of `errors.txt`. |
| `Heap` | (abstract) | what an allocator promises: extents in the pool that do not overlap |
| `Accum` | `finWeek/cas` | one action per access to the shared integer |
| `Cache` | `week5/cachesim/cache.c` | the lines of each set, their order of use, the next level's bytes; hit and miss of reads and writes, flush |
| `FlatMemory` | `memory.c`, and the promise of `membase.h` | bytes and the last result |
| `BinaryHeap` | `week5/cachesim/heap.c` | the array, and `index` of the sift in progress; one action for each level a value is sifted over |
| `SchemeHeap` | `types.h`, `values.c`, the environments of `evaluator.c`, the reader | A heap maps identities to cells. Makers, lists, bindings and the pointers of a cell, as operators from heap to heap. |
| `Scheme` | `evaluator.c`, `special_forms.c`, `repl.c`, `native_lambdas.c`, `alloc.c` | `stack` is the C stack, frame by frame, with the locals of `evaluate` and of `eval_let`; `evaluation_stack` is what the collector sees of it. An action is the C code between two calls of `evaluate`. A collection is `StartCollection`, `Mark` steps and `Sweep`. |
| `SearchTree` | `week5/multimap/mm_impl.c`, `opt_mm_impl.c` | nodes by address, the values of a key in arrays of `array_size`, which is 1 for the first program and `ARRAY_SIZE` for the second: apart from that they are the same algorithm. One action for each node that a search or a traversal comes to. |
| `BTree` | `week5/multimap/opt_mm_impl_BT.c` | nodes with up to `Full` keys, each key with the subtree before it, and `node_child` after the last; one action for each call of `search_tree`, `insertHelper` and `mm_traverse_helper`, with the splits on the way |
| `MultiMap` | `multimap.h` (abstract) | what the header promises: a function from keys to sequences of values, a traversal in the order of the keys. The values of a key are in no particular order (`multimap.h:5`): `Add` puts a value anywhere among them. |
| `Exceptions` | `week4/exceptions` | `context`, the calls and TRY blocks control is in, and `env_stack`, the vector behind them; a throw pops a buffer and lands in its block |
| `Sieve` | `finWeek/primes` | one action for each pass of each loop, with unsigned arithmetic of `WIDTH` bits and a bit vector of such words |
| `RunLength` | `week3/rle` | one action for each pass of the encoder's loop and of the decoder's two, with its 8-bit registers |
| `LinkedList` | `midWeek/reverse` | the nodes in memory and the registers of the reversal, one action for each node that is turned round |
| `Arbiter` | `midWeek/arbiter` | one action for each round of the test: a processor may change its request, then the arbiter is clocked |
| `Instruction`, `Processor` | `week1/proc` | the words of an instruction and the ALU; one action for each unit that `clock()` runs, reading and setting buses |
| `InstructionSet` | (abstract) | the processor as its programmer sees it: one step executes one instruction |
| `MCSThread`, `MCFibTest`, `MCAccum`, `MCScheme`, `MCMultiMap`, `MCProcessor` | | constants that a cfg cannot write |
| `MCMemory` | | the allocator and the cache side by side, in the run `memory`: they share nothing, and which one runs is chosen in the initial state |
| `MCExercises` | | the programs of the run `exercises`, side by side; which of them runs is chosen in the initial state and the others do not move |
| `ThreadQueuesProofs`, `SThreadClientProofs`, `FibTestProofs`, `MyAllocProofs`, `CacheProofs`, `SchemeProofs`, `SearchTreeProofs`, `ExercisesProofs` | | theorems and their proofs |

Conventions. One CPU runs all threads of week 7, so only `current` steps, and
all interleaving comes from `Preempt`. A tick that finds the lock taken is
ignored by the handler and is a stuttering step here. A saved machine context
is the thread's program counter: the registers and the stack are not modelled.
Deleting a finished thread is being on no queue any more; in `CoopThreads` its
memory may be allocated again. A definition whose comment begins with "Mutant"
is not part of any specification: it is the form a plausible bug would give to
the definition that follows it or a later one, and `PROJECT.json` says which
property notices.

## 3. The runs

| Run | Instance | Shows |
|---|---|---|
| `sthread` | five threads, four created by `main`; both values of the timer argument | The API used in any order: the queues are exact lists, the process ends truthfully, the order is round robin. |
| `fib` | two producers, one consumer (as `fibtest.c:92-95` creates them), buffer of 2, `FIB_MODULUS` 2, both timer values | Exact queues, no lost wake-up, mutual exclusion, no end; refinement of `BoundedFIFO`; the consumer is fed for ever under `FairSpec`. |
| `memory` | allocator: pool of 15 bytes, headers of 2, sizes 1 and 3, repeated free of whole blocks; cache: 2-byte blocks, 2 sets of 2 lines, 3 tags: 12 bytes | Allocator: tiling, intact headers, coalescing, best fit, refinement of `Heap`. Cache: LRU, refinement of `FlatMemory`. |
| `scheme` | a library of one function, then any two of fifteen lines: recursion, a closure with state, improper and single argument names, `let`, cyclic and shared data, every special form, errors on every level, `eval-file` of a good and of a failing file | Memory safety under a collection after each evaluation, contexts that match the calls, exact collection at the prompt, termination. |
| `multimap` | binary tree: four keys, four pairs, arrays of 1 and of 2; B-tree: six keys, nodes of at most 3 | The tree answers truly, hangs together and refines `MultiMap`. The B-tree stays one tree of legal nodes through every split, and its traversal passes every pair added. |
| `exercises` | processor: words of 4 bits, the division and Fibonacci programs and every single instruction; accumulator: two threads, three additions of 1 or 3 each, words of 2 bits; TRY blocks and calls nested five deep, vectors of initial capacity 1, `realloc` failing at will; sieve: unsigned of 6 bits, eighteen limits up to 63; run lengths: all files of up to 8 bytes of two values, counts below 4; lists of four nodes; a heap of six values; the arbiter with unset pins; four cooperative threads | Each program keeps what its module states; the processor refines `InstructionSet` and the threads refine `RoundRobin`. |
| `sthread_unblock_race`, `fib_four`, `accum_return`, `scheme_body`, `multimap_btree`, `sieve_limit` | | the findings of section 6 |

Why the bounds are enough.

- Threads: a queue of four has a head, a tail and two members in the middle,
  so that every branch of `queue_append`, `queue_take` and `queue_remove` runs
  with neighbours on both sides; one thread is running. Threads are created in
  one order and each at most once, which is the only bound on their number.
- Buffer: with two slots and two producers the buffer is empty, part full,
  full, and wraps round; `first` takes both values while an element is inside.
  Modulus 2 tells consecutive elements of a producer apart.
- Pool: 15 bytes hold up to five blocks with their headers, so that a block is
  freed with a free neighbour on either side, on both and on none, and with a
  fourth block behind the three that merge; the last block also comes too small
  to be split, and two free blocks of different sizes can both serve a request.
- Accumulator: two bits wrap round within three additions of 1 or 3, so that a
  stale value can be current again; two threads are what a race takes, and the
  theorems of section 5 are about any number.
- Cache: each set has three blocks for two lines, so there are evictions, clean
  and dirty. The code never looks at a byte, so four (address, byte) pairs in
  different blocks and lines are written and all addresses are read.
- Scheme: two lines, so that a line meets what another has defined (a closure, a
  recursive function) or left in the root context, and the library before them as a
  third. 200 objects are more than are ever allocated at once; running out would
  be an evaluation error of TLC. The program texts are the input, and the only
  choice: the interpreter itself is deterministic. Texts that lead to what section 6 describes
  stop the interpreter and are in a run of their own or in none.
- Multimaps: four keys give every shape of a binary tree of four nodes, and four pairs
  fill one array of a key and begin the next. `MIN_FACTOR` is 2 in `multimap`,
  so that six keys split the root as a leaf and as an inner node, and a leaf under it;
  `multimap_btree` has the 3 and 5 of the source.
- Exceptions: at capacity 1 the vector doubles to 2 and 4 and is halved again
  within five blocks, as the real one is between 16 and 64.
- Sieve: limits of 6 bits reach the point where the next multiple, and the square,
  wrap round; the vector has one element, a whole one and a part.
- Run lengths: counts below 4 make files of eight bytes cross the limit twice,
  and the sum of the counts the 8-bit register's.
- Heap, list, arbiter: six values are three levels with a left child alone; four
  nodes have two inner ones; the arbiter's state is finite and all of it is reached.

`CHECK_DEADLOCK FALSE` is set in the two runs of `MCSThread` alone, whose process exits. The
programs of `exercises`, the accumulator and the interpreter end in an explicit
last step (`Over`, `Joined`, `Stopped`), so that any other stop is an error;
`fibtest`, the allocator, the multimaps and the cache never stop.

Restrictions that a cfg states as constants. `EarlyTick`: a tick between
`start_timer` and the first lock. It is off in `fib`, because the window is a
few instructions of a quantum of 10 ms (`timer.c:41`); `sthread` has it on for all
its properties, and section 6 says what it does. `Unblockers` and
`Creators`: who may call `sthread_unblock(., 1)` and `sthread_create` while the
timer is on. `sthread` lets one thread unblock and none create, because more
than this is unsafe (section 6); with the timer off every thread may do both.
`FreesAgain`: which blocks are freed twice.

## 4. Fairness

`fib` and `scheme` state liveness. In `FibTest`, `Fairness` is weak fairness of `main`'s boot steps
and strong fairness of each thread's step. Strong, because a ready thread's
step is enabled only while it is `current`, again and again and not for good:
the scheduler is round robin, which the run `sthread` checks (`RoundRobin`), and
a thread that is dispatched has a whole quantum of 10 ms, some million
instructions, for a step of a few. So a thread that is given the CPU for
ever again does execute. No fairness is asked of the timer: `ConsumersFed`
holds with it on, off, or striking at any rate short of starving
every quantum.

The interpreter is one thread that waits for nothing but input. Its `Fairness` says
that while it runs it steps: some step other than `Stopped` is enabled as long as
`status` is "run", so that this is weak fairness of those steps, written without
ENABLED. The lines of the run terminate, so `Finishes` says that no loop of evaluator or
collector goes on for ever of its own accord.

Liveness of the two producers *each* is not claimed: without the timer it is
false, as `problem1.txt` says. The small programs need no fairness: what they
state is safety, and a refinement of a specification without fairness.

## 5. The proofs

All are checked by `tlapm` with no assumption beyond the named `ASSUME`s of the
modules, which say what kind of value each constant is: a queue has a name, null
is no thread, the numbers of the heap are integers, `2^WIDTH` is an even natural number (the provers
know no powers). TLC evaluates them in every run.
The theorems are about the `Spec` of their module (`AllocSpec`, `AccumSpec` where it is not alone in its run); those of
`ExercisesProofs` are about `MCSpec`, in which the small programs lie side by side; each
has a part of the module to itself, with the invariant its proof needs.

**queues** (`ThreadQueuesProofs`). Lemmas for the three modules that use
`ThreadQueues`, for any number of threads and queues. Of links in any state: they
stay links (`AppendType`, `TakeType`, `RemoveType`), which is all that `FibTestProofs` asks.
Of links that spell out the sequences of two queues with no thread in both (`Lists`):
`queue_append` appends, `queue_take` takes the head, `queue_remove` takes one out of the
middle, and each leaves the other queue alone (`AppendListed`, `AppendElsewhere` and so on, then
`AppendLists`, `TakeLists`, `RemoveLists`). `ChainListed` says that walking the links from
the head gives the sequence back. `Chain` is a recursive function and there is no
induction over it: a set of natural numbers has a least element (`LeastNat`), so the least number
of steps after which the walk differs from the sequence leads to a contradiction.

**thread API** (`SThreadClientProofs`). For any number of threads: `QueuesKept`,
`ExitsTruthfully`, `RoundRobin`. They assume `Disciplined`: `sthread_create` is not called once
the timer runs, and at most one thread calls `sthread_unblock` then. Both are needed; section 6 has the
counterexamples to either. `ClientInv` says how the links are to be read at each place of the
boot sequence (`BootInv`; in the middle of `sthread_create` they are what the assignments left to do will make a
list, `Settled`) and of the run (`RunInv`), with the two queues as witnesses that a step hands on.

**fibtest** (`FibTestProofs`). For any sets of producers and
consumers, any length and modulus, with the timer or without: types,
`OneRunning`, `LockDiscipline`, `MutualExclusion`. None is inductive alone.
`IInv` adds: before the first thread runs nothing has begun (`NotStarted`); a thread
that is not running is suspended at a place where the lock was free or is
re-taken (`SuspendedUnlocked`); a thread is inside a semaphore operation only as
the statement `at` called it (`CallSites`); the one that is past the test holds a
unit that nobody can take (`TestHolds`); and the unit of `protect` is either in the
semaphore or with exactly one thread (`ProtectUnit`).

On top of it `ImplementsFIFO`: the buffer is a bounded queue, step by step. `FifoInv` adds that
the units of `full` and `empty`, with those held by threads between a wait and the matching signal, are the
elements and the free slots (`UnitsAccounted`); that the slots from `first` on hold the abstract queue, wrapped round
(`Stored`); and what of it the one thread inside has changed already (`Filled`). `EveryValueMatches` is what
follows for the test program: a consumer never takes from an empty slot. The argument asks nothing of
the thread queues but their type: all this survives even the corrupted
queues of `fib_four`, since a woken waiter tests again.

`QueuesExact`, `NoLostWakeup` and `RunsForever` do ask for the queues. They assume `ThreeThreads`: at most three
threads, at least one of either kind, each created by `main` as in `fibtest.c:92-95`. The bound is tight: `fib_four`
refutes `QueuesExact` with two and two. A blocked thread is in two queues with one pair of links, so
damage needs two blocked threads; with one thread running and
one ready there is only one left to be blocked (`OneBlocked`). That one is always ready needs the absence of deadlock, the absence of
deadlock needs that each waiter is on the queue of its semaphore with no unit left for it, and that needs exact
queues. Hence one invariant, `QInv`, for the three: the ready and blocked queues are linked as the threads' states say and a
semaphore's queue holds its waiter (`LinksRight`), a blocked thread is at a wait (`BlockedWaits`), a unit that is there
while a thread sleeps is spoken for by one that has been woken or is about to wake it (`WakeUps`), and the process runs (`Alive`). `SomebodyReady` counts the units: if all were
asleep, those of `full`, `empty` and `protect` would not add up to the length of the buffer.

**myalloc** (`MyAllocProofs`). For any pool, header and request sizes: `Tiled`,
`HeldIntact`, `Coalesced`, `WholeAgain`, `BestFit`, and `ImplementsHeap`, a refinement: a
split allocates an extent that overlaps none, a free with all its merges releases exactly one. They assume
`ProperUse`: no request of 0 bytes, no repeated free of a block that was merged away (section 6 says what
happens otherwise). The
invariant couples the pool's shape with the state of a search in progress: all
blocks before `curAddress` have been compared, so `bestAddress` is the first
smallest of them.

**cache** (`CacheProofs`). For any geometry, any bytes and any sequence of accesses:
`OneCopy`, `CleanCurrent`, `FlushComplete`, and `ImplementsMemory`, a refinement. The
argument: an address is the same as its tag, set and offset (`Decompose`, `Compose`, from
the uniqueness of division); a step that puts a block into a line is sound if
that line's old block was saved and no other line has the new one (`Fits`,
`Replace`); a hit and a miss both are (`HitSound`, `MissSound`). Of `Victim` this uses only that it is a line,
and of `uses` nothing, so it holds for the random policy of `cache.c:376` too; and as the
result is `FlatMemory`, what `next_memory` stands for, it holds for a stack of caches.

`MostRecentKept` is about the policy: each set holds the blocks of it that were used last.
The order in which the cache keeps its lines (`uses`) knows nothing of tags, and the history (`recent`) nothing of
lines. `InOrder` relates them: the valid lines, in the order of use, hold the last tags of the history, one each. A
hit moves a tag to the end of both (`UseKeepsOrder`); a miss in a full set, which is one with
as many valid lines as there are lines (`FullSet`), drops the first of both (`LeaveKeepsOrder`).

**scheme24** (`SchemeProofs`). For any program and any heap: `SweepsOnlyGarbage`, a
collection frees nothing that a root or a survivor points to, and `MarksOnlyReachable`,
it keeps nothing else. The invariant is the tricolour one: each pointer of a marked object leads to a marked or
a pending one, and so does each root (`Grey`); and all that is marked or pending lies in every
closed set around the roots (`Least`); and between collections nothing is marked, because the sweep takes the marks
off (`NoMarks`), without which the next collection would pass over what it must follow. No step of the evaluator runs during a collection
(`EvaluatorIdle`, `FormsIdle`, `LoopIdle`), and the collector changes no root. What the theorems cannot say is that
the roots are enough for the evaluator: that is `NoDangling`, which the code does not keep (`scheme_body`).

**multimap** (`SearchTreeProofs`). For any set of integer keys, any number of nodes and
any array sizes: `AnswersTrue`, `HungOnce`, `ArraysPacked`. A proof by the heights of the
tree would need induction over data. Instead `Placed` says that each node can be given a
*span*, a set of keys, such that the root's is all keys, a node's key is in its span, a child's
span is the part of the node's span on the child's side, and the spans of two nodes are disjoint
unless one hangs below the other (`SpansFit`); and that the key searched for is in the span of the node the search
stands at (`OnPath`). One step of a search, and a node hung below
another, keep this by looking at two nodes only. `Hung` says that a set with the
root that is closed under children is the whole tree, which is what makes `Reachable` and `Clear` provable without
recursion.

On top of it `ImplementsMultiMap`. `RefInv` adds where the traversal stands (`WalkedBy`): the spans of the nodes on
the stack lie one inside the left part of the next, and a node's key has been passed unless it is *ahead*, that is in
the span of the node to be entered, or the key, or right of the key, of a node on the stack. So the top of the stack has the least key
not yet passed (`TopIsLeast`). The values of a key are its arrays joined, a recursive function: that it has a solution
for the arrays at hand is part of the invariant (`Joinable`), each value added extends it (`FlatGrows`), and that there is no
second one follows by way of a least counterexample (`JoinedIsFlat`). Both programs put a value behind the others,
which is one of the places that the abstract `Add` may choose (`AtTheEnd`).

Of the B-tree, for any `MinFactor` from 2 on, any keys, values and nodes, and any `currentSize` in fresh
memory: `OneTree`, `NodesInShape`, `EveryPairPassed`. The nodes are read by their sizes, keys, arrays and pointers
(pointer 0 is `node_child`, pointer i the one before key i), and every step but those that make the first node and free all is made of four: a key is put into a node
(`PutKey`), a node is split (`SplitOf`), an empty root is put above the root, a value is added to a key.

- `Tree` says that each pointer has a node of its own to lead to, never the root, and that no proper set with the root is closed
  under the pointers. `PutPointers` and `SplitPointers` say of each pointer where it was before.
- The keys are not in the order of a B-tree, because `insertHelper` appends to inner nodes (disagreement 5 below). That the keys of a node
  still ascend rests on two weaker orders. `Bounded`: what hangs before a key is below it, but for the last key of that
  node, which may have been appended. `Spanned`: what hangs behind a key is above it. So the key that
  a split raises lands between its new neighbours (`SplitShaped`).
- An insertion starts when the search has not found its key. `On` keeps for both that the keys on the path taken are not it,
  and for the insertion `Fits` that it is below the key its node hangs before, unless no
  key of the node is above that one either.
- `Counts`: a pair is stored in as many places as it has been added. A split keeps the keys with their arrays, as a bijection says (`Moved`).
- `Walks`: the pointers followed so far (`Followed`, read from the stack) lead to the nodes that have been entered, and to no
  others (`Entered`), and what has been passed is what is stored at the keys before these pointers. At the end the
  nodes entered are closed under the pointers, thus all nodes.

That `malloc` finds room is a guard of the steps that make nodes (`Free # {}`): the code does not check for it.

The parts of `ExercisesProofs`:

- **accumulator**, for any number of threads and additions, any values and
  any word width: it is the sum of the additions that succeeded,
  modulo the width, and a compare-and-swap fails only after another succeeded (`OldOrRaced`).
- **processor**, for any word width, programs, registers and time
  limit, and any contents of the buses at the start: the units implement `InstructionSet`. The invariant
  `Wires` says for each bus at which places of the clock it holds what the current instruction
  calls for; a step of `rf_write` is the abstract step and every other stutters.
- **arbiter**, for any contents of the pins at the start and any order of requests: `GrantedInTwo` and `GrantedInTurn`.
  `ArbiterInv`: a processor that has been asking alone for one clock has the turn at the next.
- **exceptions**, for any nesting, any initial capacity and any failures of `realloc`: `BuffersMatchBlocks`.
  `ThrowInv` says that the live buffers are those of the guarded blocks that control is in, in their
  order, unless one was lost to a failure, and that the vector has room for them (`CapacityStays`, `PushStacks`,
  `PopStacks`); a throw cuts both stacks at the same block (`ThrowFacts`). The capacity after a
  growth is a recursive function, again read by way of a least counterexample.
- **heap**, for any integers, capacity and sequence of calls: `FirstIsSmallest`. `HeapInv`: every
  value is at most its children, but for the one that is being sifted, whose parent and children are in order
  with each other; and the array is, as a bag, what was added and not taken. A heap so ordered has its least
  value first because an index whose value is less than the first would have a least one (`RootIsLeast`).
- **cooperative threads**, for any number of threads, with the reuse of freed ones: `ImplementsRoundRobin`,
  on the lemmas of `ThreadQueuesProofs`. `CoopInv` says that the links are those of the two lists of
  waiting and blocked threads; each call is then the abstract operation on the lists.
- **list**, for any nodes: `OrderKept`. `ListInv` cuts the nodes, while the list is being reversed, into those already turned
  round and those still to come, and says of either part how it is linked; `WalkList` is the walk of the
  property, by way of a least counterexample.
- **run-length coding**, for any files and any number of values of a byte: `RoundTrip`. `RunInv` has as witness
  the places at which the text is cut into runs (`Coded`): the pairs written are runs between two
  neighbouring places, and the decoder stands at one of them with the sum of the counts before it, or with the bytes
  up to it. The sum is not defined by recursion: each step goes on by one run or one value.
- **sieve**, for any width of an unsigned int and any limit it holds: `PrimesExact`. `SieveInv`: the bit of an
  odd number is cleared exactly if an odd number below `p` crosses it out, that is divides it and has a
  square no larger; `Clearing` says so in the middle of a multiple, with the next one as witness, which
  may lie beyond the width and has then wrapped round. Of division it needs that multiples of `p` that are odd are
  `2 * p` apart (`NextMultiple`), and that an odd number that is not prime has an odd factor no larger
  than its root (`NotPrimeCrossed`).

Only model-checked, and why.

- The interpreter's `NoDangling`, `ContextsMatch`, `NoCrash`, `NoGarbageAtPrompt` hold of
  the programs of the run and not of all.
- `DivisionCorrect` is about two programs for the processor and their given registers.
- Liveness (`ConsumersFed`, `Finishes`), which is out of the prover's reach.

## 6. Where code and comments disagree

1. `fib_four`. A thread waiting on a semaphore is in two queues and has one pair
   of links. With three threads at most one is Blocked at a time. With two and two a consumer and then a
   producer wait, the second consumer is appended behind the first in the queue of `consumers`, which
   overwrites the first one's `next` (`sthread.c:136`), and the producer, still Blocked, is no longer in the
   blocked queue, against `sthread.c:53`.
2. `sthread_unblock_race`. The assertion on the state is before the lock.
3. `accum_return`. The total returned is read anew after the compare-and-swap, and contains what another
   thread has added in between, against `accum.c:11-13`.
4. `scheme_body`. The environment of a call is not rooted; a body of two expressions
   whose first makes no closure evaluates the second in freed memory.
5. `multimap_btree`. The B-tree appends a key above all keys of a node to that node although
   a subtree follows (`opt_mm_impl_BT.c:426`), and goes on in the left half after a split:
   after the keys 1 to 6, `mm_contains_key` denies 4 and 5. They are not lost: the
   traversal passes them, in whatever order.
6. `sieve_limit`. The last loop ends below the limit (`psieve.c:141`), so a limit that is prime is not
   printed, against "all prime numbers up to max_value" (`psieve.c:20`).

Seen while modelling and without a run of their own:

- A compare-and-swap that fails is ignored: `accum.c:31` only prints a message, so the value is never added
  (`accum.c:11` says that it is) and the call returns a total without it. `SwapFails` models it; `ReturnsOwnTotal` asks only
  of calls that succeeded.
- `sthread_create` calls `queue_add` without the lock (`sthread.c:324`). With `Creators = {t1}`
  the run `sthread` loses a thread to a tick in the middle of `queue_append`.
- `errors.txt:31-32` says that freeing twice is harmless. It is, unless the block was merged into the
  one before: its header keeps the old links and size (`myalloc.c:219`). With
  `"merged"` in `FreesAgain` the run `memory` violates `Tiled`.
- A tick between `start_timer` and the lock of `sthread_start` enters the scheduler
  before it has a stack (`sthread.c:279`, `TickBeforeStart`).
- A block of size 0 counts as neither free nor allocated (`myalloc.c:236`), so a pool that
  had one is not coalesced to one block.
- `append_value_to_list` leaves `tail` at the first pair (`values.c:468`), so the third binding of a
  `let` fails the assertion of `values.c:465`. `CanAppend` models it.
- `(let)` goes to `Done` before the child context is pushed (`special_forms.c:192`) and pops the
  context of `evaluate`, whose own pop then takes the caller's. `Let` models it.
- A function defined with an empty body is accepted by the sugared `define`
  (`special_forms.c:550`), and calling it never ends: the cdr of an error is an error (`evaluator.c:548`).
- `display` returns NULL; as an argument of an interpreted function it fails the assertion of
  `create_binding`, and inside a list that of `mark_value` at the next collection.
- The second array of a B-tree key gets no `currentSize` (`opt_mm_impl_BT.c:714-721`); `Uninit` is what
  memory from `malloc` may hold there. The traversal walks `node_child` first, so it is not
  in the order of the keys that `multimap.h:37` promises, and `EveryPairPassed` does not ask for it.
- `start_try` may fail and `TRY` ignores its result (`c_except.h:42`). The block is then unguarded and its
  end removes the buffer of the block around it: `BuffersMatchBlocks` states what is left.
  A block left by `return` leaves a dead buffer on the stack; the model's client does not do it.
- The sieve prints 2 for any limit, 1 included (`psieve.c:98`). Its bits are as many as the limit needs, up to the largest.
- `testarb.c` sets no request pin before the tenth clock, so the arbiter reads what `malloc` left and
  its assertion may end the test.
- `free_list` overwrites each node after it has freed it (`list.c:63-64`).

## 7. Not modelled

- The statistics, the number conversions and the command line of the cache
  simulator; the printing everywhere; the registers and stacks behind a context
  switch and behind `setjmp`; of the interpreter, the reader's treatment of malformed text, twenty
  built-in functions that return a new number or Boolean, as `+` does, its printing, which
  does not end on a ring made by `set-cdr!`, and of malformed programs the ones that only lead from one
  error object to the next; failures of `malloc` and `sigaction` at start.
- `week8`: `map_page`, `unmap_page` and the fault handler are empty apart from their TODO comments, so that
  there is no paging whose state could be checked; `vmalloc` and the matrix test lie on top of it.
- `classes`: objects whose fields never change after construction. `cpuinfo`, `myids`: one query of
  the hardware or the system each. `floats`: rounding, for which TLC has no numbers. `bits` and `week2`:
  pure functions of a few instructions without state.
- The workloads `apsptest.c` and `qsorttest.c` of the cache simulator: sequential programs
  that measure; that they read what they wrote is `ImplementsMemory`.

## 8. Plan

Modelled, in this order: week 7 (`ThreadQueues` to `FibTest`), `MyAlloc`, `Accum`, `Cache`, `Scheme`,
`SearchTree` and `BTree`, `Processor`, the small programs of `MCExercises`. What could follow:

1. An abstract evaluator without a collector, which the interpreter implements
   for programs that keep `NoDangling`; the theorem that contexts match calls.
2. Which keys `mm_contains_key` denies in the B-tree, as a condition on the order of insertion.
3. A page table, once the repository has a fault handler.
