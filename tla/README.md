# Formal models of yalx

yalx is a compiler for a small object-oriented language and a C runtime for the
programs it compiles: a garbage collector in the style of ZGC ("ygc"), safepoints,
OS threads ("machines") that run coroutines, and the objects of the language. In
the runtime the hard part is concurrency: lock-free tables, load barriers, a page
allocator with a hand-made lock, a safepoint protocol. In the compiler, which is
sequential, it is the algorithms whose mistakes show only in the programs they
compile: tokens at the ends of their types and of the buffer, parsing with a probe,
the types of expressions, instances of templates, phi nodes, slots and call areas,
the layout of objects, the bytes of instructions. This directory holds TLA+ models of these
parts, the configurations that check them with TLC, and proofs checked with TLAPS.

Paths are those of the repository, below `src/`: `src/runtime/...` here is
`src/src/runtime/...` in `PROJECT.json`, which lists components, runs, mutants,
the map from definitions to lines of code, the known hazards and the theorems.

    tlc -workers 2 -config MCForwarding.cfg MCForwarding     # one run
    tlapm ForwardingProofs.tla                               # one proof module

## 1. The system

| part | code | state | operations |
|---|---|---|---|
| memory-management thread | `runtime/daemon.c`, `mm-thread.c` 82-159 | task list, count, mutex and condition variable; number of active tasks | post a task, take and run it, wait until inactive, shut down |
| safepoint | `mm-thread.c` 26-80, 161-315; `process.c` | state, counter, polling page, wait barrier (tag, waiters, threads inside, semaphore); `mach->state` of each machine | begin, end; poll, handle a page fault; start, exit and join a machine |
| page life cycle | `heap/ygc.c` 265-331, `ygc.h` | page list, granule map, resident size | make and free a page |
| memory managers | `heap/ygc-virtual-memory.c`, `ygc-physical-memory.c` | sorted free lists of segments; unused bytes, segments of a page | allocate from the front or the end, release, shrink |
| object allocator | `heap/ygc.c` 165-239, 566-590 | shared page per processor, `page->top` | allocate small, medium, large; atomically bump |
| marking | `heap/ygc-mark.c`, `ygc.c` 334-469 | live maps, stripes of mark stacks, per-thread stacks, colour of every reference | mark start, workers, load and mark barrier with self-heal, thread exit, freeing of empty pages |
| relocation | `heap/ygc-relocate.c`, `ygc.c` 551-564 | relocation set; per page: references, pin | relocate start, worker, barrier, release |
| forwarding table | `heap/ygc-forwarding.c` | open-addressed table of 64-bit entries, granule index | find, insert |
| live map | `heap/ygc-live-map.c` | segmented bit map | set, grow, re-initialise |
| scheduler | `runtime/scheduler.c`, `stack.c` | list of coroutines, pool of stacks | spawn, yield, exit |
| jobs | `runtime/jobs.c` | workers, a count down | submit and join |
| string pool | `heap/heap.c`, `object/yalx-string.c` | striped hash table of interned strings | intern, grow |
| objects, types, root handles, lazy objects | `runtime/object`, `runtime.c` | the values of the language | one thread each, except `lazy_load_object` |
| lexer | `compiler/lexer.cc`, `lexer.h`; `base/io.cc`, `env.cc`, `format.cc` | buffer, what is left of the file, position, brackets of templates | one function per kind of token |
| parser | `compiler/parser.cc` | lookahead, rollback buffer of a probe | one recursive function per rule |
| type reducing | `compiler/type-reducing.cc`, `ast.cc`, `scope.cc`, `constants.cc` | definitions, a stack of scopes, captured variables | one visitor per node, with the types of its values |
| templates | `compiler/generics-instantiating.cc`, `scope.cc` | symbols of all packages, the arguments of one instance | one copying visitor per node, link types, register instances |
| front end otherwise | `compiler` | file units | reach dependencies |
| intermediate code | `ir/codegen.cc`, `scope.cc`, `node.cc`, `pass` | blocks, values, scopes with the value of every variable, users of phi nodes | generate bodies, merge paths, fold constants |
| layout | `ir/metadata.cc`; `object/any.c`, `heap/heap.c` | place of every field, marks of references | place fields; visit references, typed barriers |
| back end | `backend`, `backend/x64` | virtual registers, slots, parallel moves, frames | select, allocate slots and registers, emit |
| machine-code assemblers | `x64/asm-x64.*`, `arm64/asm-arm64.*`, `arm64/const-arm64.h`, `arch/label.h` | buffer, labels with chained jumps | one function per instruction, bind |

How they interact. Machines run coroutines and poll the safepoint at every
switch (`yalx_schedule`) or reach it by a fault on the polling page. The
collector's phases run as a task of the memory-management thread or
synchronously (`ygc_gc_sync`), and call workers through `jobs.c`. Machines share
the heap with the workers: every load of a reference runs a barrier, which marks
or relocates the object and heals the field. The barrier finds the forwarding of
a page by the granule of the address; relocation allocates copies through the
object allocator, which takes pages from the page life cycle, which takes ranges
from the two memory managers. The compiler is a pipeline: lexer, parser, types, intermediate
code, folding, selection, allocation, assembly text. It meets the runtime in the
layout of objects: where the compiler puts a field, the collector and the typed
barriers look for it.

What is hard, and what makes each part right:

* task queue: no lost wakeup; order; nobody is told "inactive" too early.
* safepoint: when the world is said to be stopped it is; begin and end return;
  every sleeper is woken, by exactly one post; the barrier is empty between two
  safepoints.
* memory: no address and no memory in two pages; nothing leaks when a page cannot
  be made; the granule map follows.
* allocator: no two objects share a byte; one thread makes a page; every
  allocation ends.
* marking: a good reference is to a marked object; marked objects are followed;
  healing never changes what a field refers to; marking ends; nothing reachable
  is freed.
* scheduler: a stack has one owner; who waits, runs. Lazy objects and the string
  pool: what is made once is made once and seen whole.
* compiler: every stage keeps the meaning of the program; every reference in an
  object is found at the place the compiler gave it.
* forwarding and relocation: an object gets one new place, on which all threads
  agree, and the place holds the object; a page is freed once, when nobody needs
  it; a page that still houses an object is kept.

`PROJECT.json` lists each of these at the line where it can go wrong.

## 2. The modules

| module | what it models | how |
|---|---|---|
| `TaskQueue` | `daemon.c` and the thread around it | a critical section is an action; a wait is the worker's state `sleep`, which a notify or a spurious wakeup ends. Each routine is posted by a thread of its own; one observer calls `mm_thread_wait_inactive` |
| `Safepoint` | `mm-thread.c`, life of machines in `process.c` and `runtime.c` | one action per shared access; `pc` has a label per line that touches shared state. `scan` holds the locals of the scan, `id`, `polled` and `w` those of a poll |
| `ForwardingMap` | what the table promises | an atomic map: each resolve decides on an address or agrees with the one that is there |
| `Forwarding` | `ygc-forwarding.c` and the calls in `relocate_object` | one action per load or compare-and-swap of an entry. `Stored` is the 18-bit field, `Hash` any hash |
| `Relocation` | one page of the relocation set | the worker and the barriers of mutators over the map of `ForwardingMap`, with the reference count, the pin, the contents of memory, and the count of live objects that marking left |
| `PageAllocator` | `allocate_object_from_shared_page`, `ygc_page_atomic_allocate` | one action per atomic operation on the shared page or the top |
| `Segments` | sorted list of segments | operators on sequences of ranges, used by both managers |
| `VirtualMemory`, `PhysicalMemory` | the two managers | one action per call; the searches of the virtual manager, which take no mutex, are a read and a cut |
| `PageMemory` | `ygc_page_new`, `ygc_page_free` | composes the two managers (INSTANCE) with the page list, the granule map and the resident size; each call into a manager, and the section under `ygc->mutex`, is a step |
| `Marking` | one marking phase | workers, mutators and exits; a reference is an object and a colour. One action per step between shared accesses |
| `Scheduler` | `scheduler.c`, `stack.c` on one machine | an action is what the thread does until another coroutine could run; the time between the end of a coroutine and the switch away from its stack is a state |
| `LazyLoad` | `lazy_load_object`, `need_init` | one action per access to the cell; constructors ask for other lazy objects on a stack of frames, and may throw, which drops the frames and leaves the cells |
| `StringPool` | `yalx_new_string` over a stripe of the pool | the search under the mutex is an action, making the string and filling the entry are others; either allocation may fail. Entries are numbered as they are inserted; a slot is the set of its entries, whose order in the list is that of the numbers |
| `Types` | types (`ast.cc`), the casting rules (`constants.cc`), what two types reduce to | the table of rules as one operator per row |
| `TypeReducing` | `type-reducing.cc`, `scope.cc` | one operator per visitor: definitions, scopes and a node give the types of the values and the scopes behind it, or a failure |
| `MCTyping` | the reference: the outcomes of a program whatever its types; definitions and programs | a value is the type it was made with; wrong is a value used as what it is not |
| `Templates`, `MCTemplates` | `generics-instantiating.cc`, the resolver of `type-reducing.cc`, nodes and types of `ast.h` | a visit threads the definitions and symbols through the tree and gives the copy and what is left of the template; the reference substitutes names |
| `SsaConstruction` | `codegen.cc` for branches, loops and assignments; `BranchScope`, phi nodes; the reference: what source and blocks do when they run | a generator state threaded through one operator per visitor; phi nodes lowered to moves as `instruction-selector.cc` does |
| `ConstantsFolding` | `constants-folding.cc` | the table of operators and what each computes at `Width` bits; the pass over a function |
| `Layout` | `metadata.cc` and its readers `any.c`, `heap.c` | placements as sequences of fields; the visitors as recursive operators |
| `CodeGeneration` | selector, zero-slot allocator, x64 generator | one operator per function of the code, and a machine that runs what is emitted |
| `Lexer` | `lexer.cc` and what it calls: the readers of files, the parsing of numbers | one operator per function over a lexer state; a file is a sequence of bytes, read `BufferSize` at a time |
| `MCLexing` | the reference: files written from the tokens they should be read as | numbers with their magnitudes byte by byte, pieces of strings, tokens beside each other, files of every length |
| `Parsing` | `parser.cc` | one operator per parse function over a parser state |
| `MCParsing` | the reference: the sources the grammar comments derive for a tree | `Source` writes a tree down, the parser must read the same tree |
| `X64Assembler` | `asm-x64.h`, `asm-x64.cc`, `label.h` | one operator per family of instructions; bytes, labels as chains of jumps |
| `X64Processor`, `MCAssembler` | the reference: a decoder of x64 bytes, the samples | |
| `Arm64Assembler` | `asm-arm64.h`, `asm-arm64.cc`, `const-arm64.h` but for vectors | one operator per family of instructions; a word is the set of its bits, labels are chains of links |
| `Arm64Vectors` | the vector and scalar floating-point methods of `asm-arm64.h` | one operator per encoding, with the assertions on formats and lanes of its methods |
| `Arm64Processor`, `MCArm64` | the reference: decoders of A64 words, the samples | |
| `ForwardingProofs`, `RelocationProofs`, `PageAllocatorProofs`, `PageMemoryProofs`, `MarkingProofs`, `SafepointProofs`, `ServicesProofs` | the theorems | section 5 |
| `MCForwarding`, `MCMarking`, `MCSafepoint`, `MCServices`, `MCAlgorithms` | instances | hashes that collide, heaps, symmetry; the other components are run as they are with a `.cfg` of their name |

`Relocation` rests on `ForwardingMap`, and `Forwarding` is shown to implement
`ForwardingMap`, so the relocation of a page is checked without probe sequences
and the table without reference counts. The barriers around the table, with allocation,
copy, pin and free between their steps, are shown to implement the map in turn.

Choices that hold everywhere. The models are sequentially consistent: the code
uses the default order of C11 atomics nearly everywhere, and fences change no
state. `DCHECK` and `GUARANTEE` end the process: variables named `failed` record
which one. Logging, statistics and timing are left out, and so is freeing of C
structures, except where a property is about it. History variables say so
where they are declared.

Definitions whose name ends in an underscore and a word (`InsertWins_Store`) are
*mutants*: plausible mistakes, unused by the specifications. Each checked
property is listed in `PROJECT.json` with a mutant that breaks it.

## 3. The runs

Nine runs must hold, three must find a violation (section 4).

| run | instance | states | what it shows |
|---|---|---|---|
| `runtime_services` | queue: 3 routines, a stop task, an observer, spurious wakeups; scheduler: 3 coroutines, a pool of 1 or 4 stacks; lazy objects: 2 threads, 3 objects, two of which need the third; strings: 2 threads, 4 texts, a pool that grows twice, one allocation that fails | 116,223 | order of posts, no early "inactive", a post wakes the worker; a stack has one owner and is never run on when freed, waiters run; loads agree, and end unless an exception lost the object; a text is interned once |
| `safepoint` | one late machine that may fault and exit, m0, 3 safepoints | 364,046 | the semaphore's books balance, the barrier is empty in between |
| `safepoint_live` | two machines that keep polling, 2 safepoints | 61,138 | begin and end return, sleepers return, who ran at the arm is stopped |
| `forwarding` | 3 threads, 2 objects that collide at the end of a table of 4 | 120,936 | one entry per object, one object per address, probes end, and the table implements the map |
| `relocation` | 2 mutators, 3 stale references, 2 objects, 2 copies to be had or not, objects counted once or twice by marking | 571,040 | count, pin and free of the page; the returned place holds the object; the whole implements `ForwardingMap` |
| `page_allocator` | 2 threads, 2 objects each of 3 or 4 bytes, pages of 9 | 22,772 | disjoint objects, one page maker, allocations end |
| `page_memory` | 2 threads, 3 pages of 1 or 2 granules, 6 addresses, 5 units of memory | 133,307 | disjoint ranges, granule map, nothing leaks |
| `marking` | 2 workers, 2 stripes, every heap of 2 objects with 2 fields, one mutator, 2 operations | 198,212 | good means marked, nothing forgotten, healing keeps references, marking ends |
| `algorithms` | 4,017 programs, 3,262 operations, 2,700 sets of models, 7,680 functions with their callers, 26,143 x64 and some 77,600 arm64 instructions, 14,106 source files, 26,402 files of tokens, 7,928 programs and definitions to give types to, 4,082 templates | 318,758 | the compiler's algorithms against reference definitions |

In `algorithms` a behaviour is one algorithm with one input, and a property says
of every input that what the model of the code makes of it is what a reference
says. They are stated of the initial states, with the conjunct `Kept`: the
input never changes.

The two settings of the safepoint differ in population: `StoppedSinceArm` and
`SafepointsEnd` speak of machines that exist all the time. When machines come or go
during a scan both fail, because `wait_all_threads_synchronized` counts the
machines once and scans the list again (`mm-thread.c` 170-233), because it loads `m->state` twice and a machine
that starts in between is neither running nor new (221), and because a
machine that exits keeps `MACH_RUNNING` until it is joined (`process.c` 68-91).
`process.c` takes the lock of the processor, not `mach_threads_mutex`, for both.

### Bounds, and why they are enough

* `MaxCycles` (Safepoint). Two safepoints are needed for a thread of one to meet
  the next; a third returns to the configurations of the second, as every local is
  out of use again and the counter is only compared for equality.
* `Routines`. Three tasks give a list with a middle; stop adds a fourth.
* `NEntries` = 4 is what `forwarding_new` makes for two live objects, with both
  hashes on the last entry: probe sequences overlap and wrap around. Three
  threads allow a winner, a loser and a reader in between. The proofs have no bound.
* `Loads`, `Requests`, `Ops` bound operations, not interleavings: two or three
  operations on two objects let every pair of operations overlap, and a third
  meet what they leave behind.
* `Limit` 9 with objects of 3 or 4 bytes and alignment 2: a page takes two
  objects, a third makes it full by one byte; the top runs past the limit.
* `Programs`: every branch, loop and `when` over two variables with assignments
  that add to a variable, add the other one or copy it, nested once, and after another statement: a merge
  needs a variable that is assigned on one path, on both, or in a loop and read
  before; a third level repeats the second, as scopes are treated alike. Loops run once, several times
  or not at all, and inner loops run again in each turn of the outer one. All loops test first;
  one that tests last is compiled to the same jumps, and so tests first too (`codegen.cc` 1219-1243). `Fuel`, 300 blocks, is more than any of them runs.
* `MaxFailures` = 1 (StringPool): one failed allocation leaves an entry empty or a string out of the pool, with two
  threads and four texts left to meet either; the proof has no bound. `Remarks` = 1 (Relocation): the one comparison with
  `live_objs` tells only whether it is the number of objects.
* `Operations` at 8 bits: the ends of the range, its middle and small numbers, for
  every operator. `Models`: all field sequences up to two of every kind, in an
  enum in an enum, a struct in a struct, and a class with a base. `Shapes`: up to
  four parameters for two argument registers, results in registers and in memory,
  mixed sizes, shared arguments, one or two calls, a callee that calls.
* `Samples`: every operand form with each kind of register (rsp, rbp, r12 and r13
  are special to the encoding), every instruction; jumps in both directions, near
  and far, three to a label. `Files`: every production of the grammar, and
  every operator beside every other.
* `ScanInputs`: the powers of two at the ends of the types and their neighbours, in three bases
  with every suffix and sign; three pieces of a string; every two tokens beside each other and apart. `BufferSize` 4
  (4096 in the code) and files of up to 13 characters: a read is full, cut off or
  empty, and a token of two bytes or more lies across the end of a buffer.
* `Inputs`: every kind of expression and statement over values of every type, in
  every position a type is asked of, with two-level ones where types join; and
  definitions that override, implement or inherit rightly and wrongly.
* `TemplateInputs`: every class of node in a template with the parameter in every part, every form of a type in every
  position of a definition, one request or two, and what may not be asked for; `Nesting` 4: legal programs need 3.
* 6 addresses and 5 units of memory: the last page fails in the middle of
  `ygc_page_new`, pages of two take memory in two segments, and frees happen in
  every order.
* `Heaps`: every graph over two objects, with self-references and sharing, an
  array among them; `marking_lost` needs a chain of three.

`CHECK_DEADLOCK FALSE` is set where the system comes to rest: all work done,
bounds used up, or the process ended by an assertion.

### Fairness

* `MCServices`: for the queue, the worker runs, a thread that has counted a routine posts it,
  the observer is woken: these are OS threads that hold no lock while they wait.
  For the scheduler, a coroutine yields or ends after a while, without which
  cooperative scheduling promises nothing. For lazy objects, a thread goes on.
* `Safepoint`: the memory-management thread goes on with a begin or an end, and
  every thread goes on, which includes that a running machine polls again.
  `yalx_schedule` polls at each switch; a program that never yields is outside
  this assumption, and begin then does not return.
* `PageAllocator`, `Relocation`: a thread inside an operation goes on. No thread
  has to start one. Only weak fairness is needed: a compare-and-swap that fails
  means that another one succeeded, and requests are bounded.
* `Marking`: workers go on and the job is joined. Nothing is asked of mutators,
  whose bound is in `Ops`.

## 4. Where code and expectation part

Three runs must find a violation.

* `safepoint_world`: a poller that has left the barrier of one safepoint is still
  `MACH_SAFE` when the next is armed (`mm-thread.c` 221, 289-295). The scan counts
  it as stopped, and it then writes `MACH_RUNNING` and runs on in a stopped world.
* `page_memory_race`: `allocate_virtual_memory` takes no mutex although
  `free_virtual_memory` does. Two threads that make pages at once are given one
  range. The passing run of `PageMemory` therefore has `Callers` = 1.
* `marking_lost`: workers push what they find on their own stacks, which are
  committed when the worker exits (`ygc-mark.c` 59-64, `ygc.c` 145-159). What is
  two references from a root is never followed, and its page is freed.

What else was met. These are modelled, or seen while modelling, and need no run:

* `task_queue_take` never lowers `q->count` (`daemon.c` 31): once a task has been
  posted, a take on an empty queue does not wait and returns the list head. In
  `TaskQueue` the worker then runs `SENTINEL`, and `Alive` becomes false; check
  the invariant `Alive` with `MCServices.cfg` to see it. `PostWakesWorker`
  speaks of the posts of live processes.
* `mm_synchronize_handle` asserts `SYNCHRONIZED` (300), but the page is armed
  before (181): a fault in between ends the process. Check `Alive` in `MCSafepoint.cfg`.
  For m0 the handler itself is not implemented (`platform-signal-linux-x64.c` 46-65).
* A debug build asserts `SYNCHRONIZED` after a bounded spin (284), which a slow
  scan does not keep; set `Debug` = TRUE.
* An index of 2^18 or more in a medium page does not fit `from_index`
  (`ygc-forwarding.h` 35). Set `FromIndexLimit` = 1 in `MCForwarding.cfg`:
  `NoDuplicateFrom` and `ImplementsMap` fail, as an object is inserted again and
  again.
* `forwarding_table_insert` registers the first granule of a page only
  (`ygc-forwarding.c` 139), which a medium page has several of.
* A debug build fills the old object before its new place is published
  (`ygc-relocate.c` 319): a second copier can win with a copy of the filling.
* `ygc_page_atomic_allocate` moves the top although the object does not fit
  (`ygc.c` 587), so that the top ends behind the limit.
* `find_fit_from_end` returns an address one `size` too low (`ygc-virtual-memory.c`
  61); set `LargeSizes` = {2} in `PageMemory.cfg`.
* Freed segments are merged with the one behind and not with the one before
  (96-113): memory stays usable, but in smaller pieces. `Segments` does the same.
* `ygc_barrier_mark_on_field` reads the field a second time (`ygc.h` 355): one
  cleared since is a null, which is good, and is marked. `failed` in `Marking`.
* The granule map is moved by `realloc` under readers without a lock (`ygc.h` 181);
  `ygc_select_relocation_set` reads `page->next` after the page is freed (`ygc.c`
  496); `page_size * (fragmentation_limit / 100)` is 0 in integers
  (`ygc-relocate.c` 25); `ygc_gc_sync` stops nobody at its "paused" stages;
  stacks of coroutines are no roots.
* An object that two threads mark is counted twice (`ygc.c` 599-607), and `forwarding_verify` then finds fewer entries
  than live objects and ends the process (`ygc-forwarding.c` 85-86). `FreedPageIsEmpty` says that this is the one
  GUARANTEE that fails, and only then; `ReleasedOrPinned` speaks of pages counted right.
* An interned string's entry is published empty and filled without the lock
  (`yalx-string.c` 81-91): a second search of the slot reads through the null. `EmptyIsInHand`, a part of
  `InternedOnce`, bounds this window: an empty entry is in the hands of one thread, and nothing crashes but a search or a rehash
  that comes between its insertion and the store of its string. Only when the allocation of the string fails does the window stay open.
* A string whose entry cannot be allocated is returned all the same, without being interned (`heap.c` 265-268): equal
  texts then have two strings (`loose` in `StringPool`). The slots of a larger table are
  allocated without a check (`heap.c`, rehash); a failure there is left out.
* A constructor that throws leaves its lazy cell PENDING for ever (`runtime.c` 866, `heap/unwind-posix.c` 81-124), and who asks for it
  spins: `Lost` in `LazyLoad`. `LoadsEnd` says that nobody spins for another reason.
* `current_co` is commented out on every platform (`boot-linux-x64.s` 167-178: a breakpoint is left), so that `yield` of compiled
  code does not work at this commit. `Scheduler` takes it to return what the comment says.
* `yalx_schedule` returns a dead coroutine's stack to the pool while it runs on
  it, and frees it when the pool is full: `freed` in `Scheduler`. `spawn` advances `next_coid` without the lock that others take, and leaks a
  stack when a MALLOC fails (68); `stack_pool_new` takes a stack that is too small
  (`stack.c` 34).

In the compiler the properties hold except for inputs that the model names by a
predicate, each of which is a mistake of the code:

* `StaleMerge`, `codegen.cc` 2139-2166 and `ir/scope.cc` 255-289: in a loop, a variable that a branch or an inner loop
  assigns on one way only, and that is assigned again behind it, merges with the value it had outside: the phi of the loop is made last, and
  `ReplaceUsers` (`ir/node.cc` 381-388) leaves the moves of other phi nodes alone.
* `StaleCopy`, the same place: a variable that takes over another one's value in a loop keeps the value from outside. In
  `while (x < 3) { y = x; x = x + 1 }`, `y` is still the first `x` in the end.
* `SharedValue`, `codegen.cc` 2150: the phi nodes of a loop are kept by the value they replace, so two variables that hold one
  value when the loop begins (after `y = x`) share the phi of one of them.
* `MovesTheDead`, `constants-folding.cc` 36-47: a folded value that flows into a phi node changes the
  operand of the phi but not the moves of the block.
* `BarrierCrashes`, `heap.c` 417-439: the typed barrier of an enum reads a null for a unit variant; and
  the visitor of the collector (`any.c` 23-98) finds neither inherited
  references nor those in an enum that is not compact.
* `Misplaced`, `zero-slot-allocator.cc` and `instruction-selector.cc`: a constant passed twice reaches the first
  register only (69); an argument that overflows the registers is stored only
  if it is a constant (321-345); the area of a call is misplaced when the top or its parts are not aligned (201, 215).
* `Misscanned`, `lexer.cc`: `PosixSequentialFile::Read` (`env.cc` 28-45) gives nothing for a read that meets the end, so that
  what does not fill a buffer behind the first is lost, and a file in memory that is empty fails. Of `i8` and `i32` only
  the lower half is taken, of no type the least number; unsigned numbers may be negative; `ParseI64`, `ParseU64`
  and `ParseO64` check for overflow with a comparison that overflows (`format.cc` 30-140), and 64 bits that are all set are a
  -1 in bases 8 and 16; `u` without a width gives an `IntVal`. `1e3`, `1f`
  and `1d` are errors, and so are exponents with a sign (394-428); `a-1` is `a` and `-1` (300); `7..` takes the first dot
  as one of a number, and of four dots and more three are read as two. `\"`, `\\` and
  `\u0041` are misread, `${{b}}` ends at the first brace, a template the file ends in is looked
  through for ever, and `\r\n` in a block string counts two lines.
* `Misread` and `Probed`, `parser.cc`: `-a + b` stops after `-a`, as a prefix returns before the
  loop over operators (1209-1222); `(a + b)` and `(a) -> e` are syntax errors (1545-1580); `f(a < b, c)` loses a token and
  `f<int, string>(x)` fails, as the probe consumes commas (1791-1801); the probe knows fewer types than the parser
  (`in`, `out`, arrays, functions: 1803-1894), and its buffer of 128 tokens has no bound check (2543); `...` needs two
  parentheses (396-416); the branches of `if` and lambdas swallow a comma that
  follows. `docs/design.md` 98-107 has `in chan<T>`, and about line 117 top-level
  annotations, which are rejected. Fields of objects and parameters of constructors lose their
  annotations and access (540-553, 655-710).
* Type reducing accepts more than it should where the programs of `MCTyping` do not
  go (`type-reducing.cc`): the value of a reduced function or lambda must accept its
  declared type instead of the other way round (916-960); an array of a derived class
  may be stored to as one of its base; an array initializer with a type takes elements of any
  (`ReduceType` is never null, 2661), nested ones without a type get
  the wrong dimension; function types are compared by the number of parameters only
  (`ast.cc` 947); a channel has the primary type of its elements (`ast.h` 1808), so that
  `chan<i32>` passes for an `i32` and never iterates; operands of `&&` and `||` may
  be anything (1743-1769), and `!` always fails (1771); `break` in a lambda inside a loop is accepted;
  assigning to an outer variable does not capture it; a function may fall off its end;
  `E::v` without arguments makes a value that has some (1149); names of an enum case keep the type of the first case (2417); a `when`
  over a struct reduces its clause once for each name; concepts of a base are not found
  (`ast.cc` 441); a cast from an interface to a class, and a join of the two, reads a
  null (2731, 2896); fewer arguments than parameters are read past their end
  with `...`; a lambda two levels deep that reads the outermost variable is `UNREACHABLE`; public
  members of a base cannot be used inside of a class (2842); `Throwable` itself can be neither thrown nor caught.
* `Misinstantiated`, `generics-instantiating.cc`: the copies of what is returned are put into the template
  (281); an application with arguments in a body writes through a null (623); arrays, `try`, `when` without a
  destination, untyped parameters of lambdas, function types with parameters and enumerations end the process;
  fields lose their access, methods their own parameters, classes a base without arguments. The types of a base, of
  concepts and of channels are linked in the template, so that a second instance gets the first one's (134, 778;
  `ast.cc` 741). `Find(pkg, ...)` (915) looks the own package up as an alias and never finds it: an instance is made twice, or, when it names
  itself, without end, which the resolver of the test (`generics-instantiating-test.cc` 48-80) hides.
* `Misencoded` and `Unlinkable`, `asm-x64.cc`: the register form of arithmetic flips the wrong bit of the opcode
  when the operand is rsp or r12 (486-501), and its assertion rejects words and bytes; byte
  immediates use the 32-bit form and word immediates beyond a byte have four
  bytes (503-536); byte registers rsp to rdi lack a REX prefix; `movb` drops a bit
  of r8 to r15 (120-129); `movaps` between xmm4 or xmm12 and another swaps registers but not REX
  (141-168); `test` with an immediate of 0 to 255 emits nothing (337-341);
  `subb` and `cvtps2dq` have wrong opcodes; a far jump after near jumps to a label asserts (232, 297);
  so does every `j` on `RCXZero`, which is 18 where the assertion wants four bits (250, `asm-x64.h` 80), before the branch that encodes it.
* `asm-arm64.h`: a literal page address (`adrp`) of a bound label is encoded as a distance
  in bytes where the processor counts pages, and of an unbound one fails the assertion
  that only `adr` passes when the label is bound; `smulh` takes W registers; a post-index by a
  register drops the register; `ins` of a 64-bit lane asserts in a branch whose
  condition contradicts the assertion; `dcptr`, `mvn` of a register, `ld1`, `st1` and their kin
  are declared and nowhere defined.
* `Misjudged`, `asm-arm64.h`: `addp` of three registers accepts 1D; `dup` checks neither its index nor
  the width of its lane; conversions that round do not compare the formats of two vectors;
  `sqshl`, `sqshlu` and `uqshl` accept a whole Q register as a scalar; `movi` of bytes
  drops a shift.

## 5. What is proved

TLAPS proves 13,183 obligations, with no axiom and no step left open. The theorems
hold for every value of the constants that satisfies the named assumptions of the
component's module, which TLC evaluates in the runs. Where a theorem needs more, it
says so in its statement, as the code does not establish it. Every safety invariant
that a passing run checks of a state machine is proved.

The proofs go one way: an invariant that is inductive (`IInv`, or with a prefix where
a module has several), a lemma that `Init` implies it, a lemma per action or group of
actions that `Next` keeps it, and theorems that read off what is promised.

### The forwarding table: `ForwardingProofs`

From `ForwardingAssumption` (types of the constants),
`OffsetsAssumption` (a copy is not where an object of the page is, and no two
objects are at one place) where places are compared, and `TableAssumption` (two
entries for each live object, which `forwarding_new` makes) where probes end.

| theorem | states |
|---|---|
| `TypeCorrect` | `Spec => []TypeOK`, whatever the bit field loses |
| `OneEntryPerObject`, `OneObjectPerOffset`, `EverybodyAgrees` | `NoDuplicateFrom`, `NoDuplicateTo`, `ResolversAgree`, if indexes fit |
| `OneToOne` | `NoDuplicates`, the two first together |
| `TableImplementsMap` | `ImplementsMap`: every step of the table is a step of `ForwardingMap` or a stutter, if indexes fit |
| `ProbesAreBounded` | `ProbesEnd`: no probe sequence comes back to its start, if indexes fit |

That indexes fit the field (`IndexesFit`) is a hypothesis and not an assumption of
the model, because the code does not establish it for medium pages. `NoDuplicateFrom`
is not inductive. The invariant `IInv` adds `ChainOK` (an entry sits on the probe
sequence of its object behind populated entries only), `SearchOK` (what a thread
has passed is populated by other objects) and `OwnerOK` (a new offset belongs to
one entry or to one thread that carries it). With these, a thread that inserts at
an empty slot knows that its object is nowhere: were it further down, the chain
would have populated the slot; were it before, the thread would have seen it.
That probes end follows by counting: entries have different indexes, and there
are more slots than indexes.

### The relocation of a page: `RelocationProofs`

From `RelocationAssumption` (finitely many mutators and objects, the worker is no mutator, the
places have different names, copies are on other pages).

| theorem | states |
|---|---|
| `TypeCorrect` | `TypeOK`; the count of references, which is decremented without a look, never drops below zero |
| `PageIsFreedOnceUnheld` | `FreedOnceUnheld`: the count is the number of holders, and the page is freed once, when there are none |
| `FreedPageIsLeft` | `FreedPageIsEmpty`: the one GUARANTEE that can fail is that of the number of entries, when marking counted an object twice, and every object of a page that is freed is in the table and on another page, for those who come too late to grab it |
| `BarrierReturnsTheObject` | `ReturnsTheObject`: a barrier returns the object's one place, and the object is there |
| `BarrierImplementsMap` | `ImplementsMap`: every step of a barrier or of the worker is a step of `ForwardingMap` or a stutter, where an object that stays is mapped to itself |
| `PlaceIsFinal`, `FreedIsForGood` | what a step may never do: move an object again; free, grab or pin a freed page |

None of the three invariants is inductive. The invariant says where the holders of the page are
(`PlacesFit`), that a thread without the page came when it was freed already
(`LateMeansFreed`), that what the worker has visited is in the table and, if it stayed
in place, has pinned the page, but for the object it is at (`VisitsCount`), and that what a thread
carries is an object of the page (`CarriesObject`). So when the worker has verified and
drops its reference, no object is missing from the table and none is in place, whoever put it there.
The comparisons of `forwarding_verify` and the refinement also need that copies are not shared (`CopiesFit`): a copy belongs to one object in the table, or to one
thread between its allocation and its insert. The step at which a barrier takes effect is the find that hits
or the insert.

### Marking: `MarkingProofs`

From `MarkingAssumption`. It says that `NWorkers` is at most `NStripes` and its square at
least that, which `ygc_mark_init` establishes (`ygc-mark.c` 13-14).

| theorem | states |
|---|---|
| `TypeCorrect` | `TypeOK` |
| `BarrierMarksFirst` | `GoodMeansMarked`: a good reference, in the heap or in a mutator's hands, is to a marked or new object |
| `NoWorkIsForgotten` | `FollowedToTheEnd`: a marked object that is on no stack and in nobody's hands has good fields only |
| `HealIsSilent` | `HealKeepsReference`: the compare-and-swap of a heal never changes what a field refers to |
| `ColourIsKept` | no step makes a good reference bad again |
| `SelectionKeepsGood` | no page a good reference leads to is freed |

The invariant adds that what a thread has read of a field is still there or the field
has become good (`ReadsHold`: this is what the compare-and-swap rests on), that what a worker has
passed of an object is good (`VisitedGood`), that a null is good, and where threads are. `SelectionKeepsGood` is
the other half of `marking_lost`: what is lost is only what no barrier has seen. That nothing is lost
is false (section 4).

### The safepoint: `SafepointProofs`

From `SafepointAssumption` (finitely many threads of disjoint kinds, each machine on a processor).

| theorem | states |
|---|---|
| `TypeCorrect` | `TypeOK`; the counts of the barrier never drop below zero |
| `NoWakeupIsLost` | `WakeupsBalance`: every sleeper is owed exactly one post, counted, claimed or posted |
| `BarrierIsLeftEmpty` | `BarrierEmptyBetween`: a disarm leaves no sleeper, no post under way and none in the semaphore |
| `WorldStoppedSinceArm` | `StoppedSinceArm` in a fixed population: who ran when the safepoint was armed does not run while the world is stopped |

The first three hold for every population, with machines that come, exit and fault at any
time. Their invariant counts: those inside the barrier (`InsideCounted`), those asleep
against waiters, claims and posts; `CountMoves` is the lemma that a step moves one thread from
one label to another. `FixedPopulation` (no machine comes, exits or takes a fault) is a hypothesis of the last,
which is false without it (section 3). Its invariant `FInv` follows the scan: the number that
is still missing is the number of machines less a set of machines that were looked at and found stopped
(`StillFits`, with the machine between its two loads), and who was found stopped is held by the safepoint until the disarm (`StoppersHeld`).

### Memory: `PageAllocatorProofs`, `PageMemoryProofs`

`PageAllocatorProofs`, from `AllocatorAssumption` alone:

| theorem | states |
|---|---|
| `TypeCorrect` | `Spec => []TypeOK` |
| `ObjectsAreDisjoint` | `ChunksDisjoint` |
| `ObjectsLieInPages` | `ChunksInPage`: objects are in their page, below the top, aligned |
| `PageBusyIsALock` | `OneMaker` |

The invariant adds that threads work on pages that exist and that all chunks lie
below the top, so that a successful swap hands out what nobody has. `RoundUpBounds`
is the arithmetic of `ROUND_UP`.

`PageMemoryProofs`, from `PageMemoryAssumption`:

| theorem | states |
|---|---|
| `AddressesAreDisjoint` | `AddressesDisjoint`: no address in two pages, or in a page and in the free list |
| `GranulesLeadToPages` | `GranulesFindPages`: every granule of a listed page leads to it, and no other leads anywhere |
| `MemoryIsDisjoint` | `MemoryDisjoint`: no memory behind two pages, or behind a page and free; a page has all it asked for, and what is unused is what the list holds |
| `NothingGetsLost` | `NothingLeaks`: at rest the free lists, the listed pages and the resident size add up to the capacities |

All but `MemoryIsDisjoint` have the hypothesis `OneAtATime`: one caller, and no large sizes. Without
the first the run `page_memory_race` shows that two pages get one range, without the second
`find_fit_from_end` cuts from the middle and leaves the end in the list. Frees and failures half way
are unrestricted. The invariant says that the free list is sorted and its pieces are apart
(`FreeFits`), that the ranges of pages are apart from it and from each other (`HeldFits`), that
a search that has found a fit has not lost it (`CutFits`, `OneCut`), that no two threads work on one
page, and that a page on its way has a range and is not listed (`RangesFit`). The lemmas are about the operators of
`Segments`: what cutting from a sorted list and putting into one, with the merge of neighbours, leaves and returns.

`MemoryIsDisjoint` needs no condition, since the physical manager cuts and puts back under its mutex. `PInv`
says that the free list is sorted (`MemoryFits`), that the segments of pages are apart from it and from each
other (`SegmentsFit`), and that what is unused is what the list covers (`MemoryCovered`); `AsksFit` that a page's segments
add up to what was asked for. `LInv` of `NothingGetsLost` adds that every address is in the list, in a page, or
in the hands of the thread that puts it back (`AddressesCovered`), that each page with memory is at one
known place of one thread (`PlacesFit`), and that the resident size counts what those places say (`RssFits`).

Sums are folds over sequences (`TotalSize`, and `Do` for the release of several segments). They are
unrolled by `FoldStep`, and what they come to is proved by way of sets: a sorted list covers a set of
granules (`Covered`) of as many elements as the sizes add up to (`TotalIsCovered`), and cutting, merging and splitting take
from that set and give back to it. Where a fold has to be followed to its end (`FoldSteps`), the
places of the list form a set of numbers, and the greatest place up to which the claim is right is
shown to be the last one, from the well-foundedness of `<`.

### Services: `ServicesProofs`

| theorem | states |
|---|---|
| `QueueTypeCorrect` | the types; the count of active tasks never drops below zero |
| `RoutinesRunInOrder`, `InactiveIsDone` | `RunInPostOrder`, `InactiveMeansDone` |
| `StackOwners`, `RunningOneIsAlive` | `StacksHaveOneOwner`, `RunningIsAlive` |
| `LoadsReturnOneObject` | `LoadsAgree` |
| `PoolInvariant`, `TextsAreInternedOnce` | `InternedOnce`, if hashes tell: one string for one text, unless the entry of one could not be allocated, and a crash in the window of an empty entry only |

From the assumption of each module: names that are different, records and stacks
at addresses of their own, constructors that need lazy objects, hashes that are numbers.

* The queue: the list is the end of what was posted, `ran` its beginning, and the worker has
  at most the one between them in its hands (`HandFits`); the count of active tasks is the number of those
  announced and not over (`OpenCounted`), so that zero means done.
* The scheduler: one coroutine runs or is dying (`OneRuns`), the queue holds the others
  once (`QueueHoldsWaiters`), and a stack is held by one, or pooled once, or freed (`HeldOnce`, `PooledOnce`). That a stack is pooled and
  *run on* at once between `co` dying and the switch is no contradiction: its holder has given it away (section 4).
* Lazy objects: a claim of a cell is had by one frame of one thread (`OneMakes`), which the cell's
  value follows (`FramesFit`, `CellsFit`).
* The string pool: an entry is in the slot its text hashes to, after a rehash too (`SlotsFit`,
  `RehashFits`), no text has two entries (`TextsOnce`), and who is to fill an entry shares it with nobody (`OneFills`),
  as any other search of the slot would have read through the null. An entry that nobody is to fill, or a string without an
  entry, is there only after a failed allocation (`EmptyFits`, `LooseFits`), and what crashed met an empty entry (`CrashFits`). `HashTells` is a hypothesis: `memcmp`
  over the length of the new text finds a longer one that begins with it, and only the comparison of
  the hashes keeps the two apart.

### What is only model-checked

* Liveness, under the fairness of section 3: TLAPS has no rule for `ENABLED` that reaches it.
* The algorithms of the compiler: recursive operators over programs, which rule out the SMT
  backend, and induction over syntax, which the installed provers cannot instantiate.
* `StoppedSinceArm` with a changing population and `AddressesDisjoint` with several callers are false, as the runs show.

## 6. What is not modelled, and the plan

Left out inside of what is modelled: variants of enums with several values (`ir/metadata.cc` 722-726, 745-783), which
the runtime has no class for and `codegen.cc` (1152, 2576) reads the first part of only; values above 8 bytes in
parallel moves; a barrier on a page without a forwarding (`ygc.c` 553); a machine that retires a shared page
while others allocate.

Not modelled for good reason: wrappers of the platform, boot code in assembly, the
retired back end in `backend/recycle`, the stub in `vm`, the text of
the output (instructions are abstract), vendored code. The back end is modelled
for functions of one block, since the x64 visitors of conditional branches and
comparisons are `UNREACHABLE` at this commit, code generation is disabled in `compiler.cc`, and nothing calls the linear
scan of `register-allocator.cc`. `PROJECT.json` has the reason for each part.

Planned, in this order:

1. `Barriers`: the barriers of several pages and granules over `ForwardingMap`
   and `Relocation`, through a collection of several phases.
2. `LiveMap`: the segmented map as an array under several workers; count of live
   objects. The selection of the relocation set (`ygc-relocate.c` 14-247).
3. Proofs: the refinement of `ForwardingMap` by barriers over several pages, once `Barriers` is there.
