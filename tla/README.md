# Verification of The Void Engine

The repository is a C++17 engine substrate. Its own core logic is in three
places: the lock-free transports that carry data between threads, the threading
primitives those threads wait on, and the memory and container layer. This
project models the parts in which several threads meet and the containers, stores
and algorithms that one thread uses alone, checks them with TLC on small instances,
and proves with TLAPS, for every value of the constants, invariants and refinements of
the concurrent parts, of the linked slot lists and of the balanced tree.

Paths below are relative to the repository; `include/...` and `src/...` stand
for `src/include/...` and `src/src/...`, where the files lie.

## 1. Inventory

### Transports (`include/threading/transports`)

All four are single-producer single-consumer. A transport is set up and torn
down while both roles are quiescent; between that, the producer calls `post()`
or `publish()` and the consumer `read()` or `discard_and_acquire()`, each on its
own thread and never blocking.

| component | state | operations | hard behaviour |
|---|---|---|---|
| `TQueue<T>` | three buffers; producer roles output, staged, locked and a phase; consumer buffer, read index and phase; one atomic publication word | `post`, `read`, `refresh_readable_count`, `initialise_fixed`, `initialise_growable`, `deallocate`, validity checks | neither side sees the other's roles, and must deduce them from the word it exchanges; growth, discard and allocation failure in the middle of a post; obsolete publications |
| `TBulk<T>` | three payloads; producer roles; consumer payload; one atomic word | `publish`, `producer_data`, `discard_and_acquire`, `consumer_data` | the same, for the latest state only: a publication replaces the one before |
| `TRing<T>` | a power of 2 of slots; an index per side; one atomic count | `post`, `read`, `initialise`, `deallocate` | two copies per wrapped batch while the other side copies too |
| `TOwning<T>` | as `TRing`, of movable objects | `post`, `read`, `initialise`, `deallocate` | moved-from slots, destruction of what is left |

Interfaces, endpoints and bundles (`interfaces/`, `endpoints/`, `bundles/`) split
these operations by role and forward them.

What makes them correct: no buffer or slot is written while the other side may
read it; messages arrive once, in order, and all of them unless discard is asked
for; capacity is never exceeded; a consumer that polls gets everything.

### Threading primitives (`include/threading`, `src/threading`)

* `CCountingSemaphore`: an atomic count of permits with one value kept as the
  "control released" sentinel; `acquire_control`, `release_control`, `acquire`,
  `try_acquire`, `release`. It waits on the platform's wait word, or on a
  `CParkingGate` where the platform has none. Correct when permits are neither
  lost nor made, the sentinel is never reached by adding, no wake-up is lost and
  giving up control frees every waiter.
* `CParkingGate`: two exclusive locks, one of them closed; parkers pass through
  the phase on their ticket; `cycle_phase` closes the other phase and opens this
  one. Correct when a parker passes once a cycle after its arrival, and never
  crosses into a later control lifetime.
* `CWaitPredicate`: an atomic word with setting, counting and conditional
  waiting; same two builds as the semaphore.
* `CThreadControlState`: run state, exit request, heartbeat and failure code of a
  thread, each one atomic.
* Messages: plain data with a type identifier.

### Platform (`src/platform`)

Wait words, exclusive lock, thread creation and joining, thread names and
priorities; modules, files, paths, clocks. The wait word's contract (park only
while the word equals the expected value, spurious returns allowed) is part of
the semaphore's model; the rest is system calls.

### Memory (`src/memory`, `include/memory`)

`byte_allocate()` and `byte_deallocate()` go through a process-wide allocator
that `set_allocator()` may replace: a gate (`CCallGuard`), a count of calls inside
and a count of live allocations. Correct when a replacement happens only with no
call inside and no allocation live, so that a block is always given back to the
allocator that made it, and when neither side keeps the other waiting for ever.
`CMemoryToken` owns one block and reallocates it; the growth policies choose its
size, with shifts near the width of a word as the hard case. Contexts count the
allocations of a thread; `CTypeless` and `TInstance` own one object.

### Containers (`include/containers`)

Sequential; what is hard is a long sequence of legal calls, memory that runs out
half-way through one, and data moved within one block.

| component | state | operations | hard behaviour |
|---|---|---|---|
| `TUnorderedSlots` | one array of links and states, two circular lists, `high_index`, a lock | reserve, acquire, release, erase, `pack`, resizing, ranks | lists rebuilt by scans, moves that overtake one another through virtual calls |
| `TOrderedSlots` | the same with a third category, an AVL tree by index | the same, `lex`, `unlex`, `lex_all`, `relex_all`, `sort_and_pack`, searches, bounds, ranks | rotations, equal keys, moves along cycles of a permutation |
| collections | slots, each with a storage index, over a `TStableStorage` | emplace, replace, erase, pack, grow, shutdown | an allocation failing between the slots' and the storage's; addresses that must not change |
| `TStableStorage` | buffers of equal size, a directory | map, ensure a slot, shutdown | the directory doubled when full |
| `TPodFifo`, `TPodVector` | a block, capacity, size, read index | push, pop, insert, swap-insert, erase, reserve, shrink, pack | wraps, and packing in place |
| `CByteRectBuffer`, views | a block, width, height, pitch, alignment | allocate, reallocate, sub-views, copies, clears | pitches that differ, overlapping rows |
| `CStableStrings` | a byte buffer, offsets, lengths, ids and ranks | append, find, sort, reserve, shrink, integrity check | five vectors of which any may get no memory |

### Host (`src/host`)

`host()` creates three thread packages (two workers and the application). A
package owns a `TQueue` in each direction, a `TOwning` for results, a
`CWaitPredicate` which `post()` increments, and a `CThreadControlState`. The host
forwards messages between the packages until the application's state is Exited,
then shuts every package down. Hard: start-up against an early exit, shutdown
against a worker about to wait, results that nobody can take, and pointers into
the host's variables that travel in messages.

### Algorithms (`bit_utils`, `types`, `system`, `algo`, `image/codec`)

Functions of their arguments: bit searches and carries, Morton and Hilbert codes,
half floats, identifiers, the permutation validators (which visit ranges kept on a
stack of fixed size), the sorted static lookup, and the TGA codec, whose encoder
sizes its output in one pass and writes it in another. What is hard is the widths,
the thresholds and the boundary cases. Input and output, platform services and debug
output are listed in `PROJECT.json` with the reason they are left out.

## 2. Plan

In the order of importance. Done:

1. `TQueue`, the central transport, with `SpscStream` as its abstract
   specification; invariant and refinement proved.
2. `TBulk`; invariants proved.
3. `TRing` with `BoundedFifo` as its abstract specification; invariants and the
   refinement proved.
4. `CCountingSemaphore` on native wait words; invariants proved.
5. `MemoryAllocation`, the allocator's gate; invariants proved.
6. `ThreadPackage` and `Host`: `host.cpp`'s start-up, message loop and shutdown, over
   the stream of item 1, the wait predicate, the owning ring and the control state;
   all its safety properties proved.
7. `TUnorderedSlots`, link by link, with `SlotLists` as its abstract specification;
   integrity, queries and the refinement proved.
8. `AvlTree` and `TOrderedSlots`, with `OrderedSlotLists` as its abstract
   specification; the collections and their storage over both kinds of slots; the
   tree and the objects of the unordered collection proved.
9. `TPodFifo`, `TPodVector`, `CByteRectBuffer` and `CStableStrings` against lists,
   images and sets of strings; `TOwning` over `TInstance`, single ownership proved.
10. `CParkingGate` over `CExclusiveLock`, and `CWaitPredicate` in both builds;
    assertions and ownership of the locks proved.
11. The algorithms against reference definitions.

Left: what is proved of the tree carried to `TOrderedSlots` (its lists, packing and rank
walks, hence `OrderedSlotsAgree`) and to the refinement of `OrderedSlotLists`, which are
checked; `take()`, `clone()`
and moves of a whole container into another; the fallback build of
`CCountingSemaphore`, compiled on no supported platform
(`platform_defines.hpp:138-147`); `decode()` of files that `encode()` does not write.

## 3. Modules

| module | models | notes |
|---|---|---|
| `SpscStream`, `BoundedFifo` | what a queue and a ring promise | abstract |
| `TQueue` | `TQueueTransport.hpp` | |
| `TBulk` | `TBulkTransport.hpp` | |
| `TRing` | `TRingTransport.hpp` | |
| `MCTransports` | | the three as one specification; growth curve and rounding function of the checked instance |
| `TOwning` | `TOwningTransport.hpp`, `TInstance.hpp` | checked in `MCStorage`, which extends it |
| `CCountingSemaphore` | `CCountingSemaphore.cpp`, `wait_word.cpp` | native build |
| `CParkingGate` | `CParkingGate.cpp`, `CExclusiveLock` | single accesses; no `Next` of its own |
| `CWaitPredicate` | `CWaitPredicate.cpp` | both builds; extends `CParkingGate` |
| `MemoryAllocation` | `memory_allocation.cpp` | |
| `ThreadPackage` | `CThreadPackage` and `CThreadContext` of `host.cpp`, `CWaitPredicate`, `CThreadControlState` | native build; no `Next` of its own |
| `Host` | `host()`, the workers and the application of `host.cpp` | extends `ThreadPackage` |
| `SlotLists`, `OrderedSlotLists` | what the slots objects promise | abstract |
| `TUnorderedSlots` | `TUnorderedSlots.hpp`, `on_move_payload` of `TPodUnorderedSlots.hpp` | checked in `MCContainers`, which extends it |
| `AvlTree` | the tree of `TOrderedSlots.hpp` | operators, and the tree on its own as a behaviour, checked in `MCContainers`, which extends it |
| `TOrderedSlots` | the rest of `TOrderedSlots.hpp`, `on_move_payload` and `on_compare_keys` of `TPodOrderedSlots.hpp` | uses `AvlTree` by INSTANCE |
| `TStableStorage`, `TUnorderedCollection`, `TOrderedCollection` | the headers of these names | the collections extend their slots and the storage |
| `MemoryTokens` | `memory_primitives.hpp` | used by the four below |
| `TPodFifo`, `TPodVector`, `CByteRectBuffer`, `CStableStrings` | the headers `TPodFifo`, `TPodVector`, `ByteBuffers`, `StringBuffers` | operators only |
| `BitOps`, `SpatialCodes`, `GrowthPolicies`, `fp16data_t`, `system_ids` | the headers of these names; the policies of `memory_allocation.hpp` | operators only |
| `validate_permutations`, `tga` | the headers of these names, `TStaticLookup.hpp` | operators only |
| `MCContainers`, `MCStorage`, `MCAlgorithms` | | the containers, stores and algorithms as behaviours, with their properties |
| `MCLibrary` | | the three as one specification |
| `LibraryProofs` | | theorems about `TOwning`, `TUnorderedSlots` and `TUnorderedCollection` |
| `TransportProofs` | | theorems about `TRing` and `TBulk` |
| other `...Proofs` | | theorems about the module of that name |

`PROJECT.json` maps every definition to the lines it stands for. The conventions
common to all modules:

* A call is a sequence of actions, one per access to an atomic and one per copy
  into or out of shared memory; what a thread does to its own variables between
  two such points is part of the action before or after it. A program counter
  per thread (`ppc` or `postAt` for a producer, `cpc`, `bpc` or `readAt` for a consumer,
  `pc`, `spc`, `ctl`) says where it is. A call whose checks fail at once and change nothing is no step.
* A message is its number in the stream of posted messages, so that loss,
  repetition and reordering can be read off the contents of a buffer.
* Variables marked "history" are no part of the code; no guard of a code step
  reads them, except for the bounds on the length of a behaviour.
* Bounds are constants named `Max...`; the code's own limits keep their names
  (`KMinCapacity` for `k_min_capacity`).
* A definition preceded by the comment "Mutant" is a plausible mistake in the
  definition after it; it is used by no specification, and only documents that the
  properties notice the difference (`PROJECT.json`, "mutants").
* A component that one thread uses alone is either a state machine whose steps are
  whole operations (the slots and collections), or a set of operators from a record
  to the record, or the set of records, an operation may leave (the stores), so that
  a property can apply every operation to every record that is reached.

### TQueue

`PostBegin` is `post()` up to the decision of `growth_and_discard_policy()`;
`PostPrepare` grows and fills the output buffer; `PostPublish` is the exchange;
from there either `PostExtend` (still pending: the withdrawn staged buffer takes
the messages too and becomes the output buffer), or `PostRebase` (already
consumed: the phase flips, both free buffers restart) and `PostRepublish` (the
store). Each of the three reallocations may fail (`PostPrepareFails`,
`PostExtendFails`, `PostRebaseFails`) and poisons the producer.
`ReadBegin`, `ReadExchange` and `ReadCopy` are `read()`; a count of 0 stands for
`refresh_readable_count()`, which is the same without the copy.

A post is visible from `PostPublish` on when it extends a pending publication,
from `PostRepublish` on otherwise: `posted` counts there. The refinement mapping
to `SpscStream` takes for `pending` the buffer the word names, if the consumer
would accept it, and for `held` what is left of the consumer's buffer.

The capacity of a buffer is a number. What a growth curve must satisfy is stated
as `GrowthAssumption`; `MCTransports` takes the first values of `base_growth_curve()`
with 2 in place of the minimum of 32 elements.

### TBulk

`Modify` is a write through `producer_data()`. `publish` is one step, since its
only access to shared state is the exchange; `discard_and_acquire` is two
(`Discard`, `Acquire`), because the payload is given up before the exchange.

### TRing

`RingPostCopy` and `RingPostWrap` are the two copies, `RingPostCommit` the
`fetch_add`; `RingReadCopy`, `RingReadWrap`, `RingReadCommit` likewise. `slots` is a
function on `0 .. ringCapacity - 1`, so a copy that leaves the ring would change
nothing it should: `RingAgreement` sees that.

The three transports are checked in one run, of which each behaviour is about one of
them (`used` in `MCTransports`); where their names would be the same, those of `TRing`
and `TBulk` say so (`ringCapacity`, `bulkStaged`).

### CCountingSemaphore

One controller, any number of consumers and producers. `Load`, `Wait`, `Take`,
`ReturnsFalse` are the loop of `acquire()` and `try_acquire()`; `ReleaseLoads`,
`Give`, `ReleaseFails`, `Wake` that of `release()`. `Give` and `Take` are the
compare-exchange: on failure they take over the value found. The wait word parks
only while the word is 0 (`Parks`), a parked consumer may return at any time
(`WakesSpuriously`). `m_has_control` is a plain `bool` which producers read while
the controller writes it; a read yields either value, which is what the steps
`ControlTaken` and `ControlReleased` amount to, the flag being written apart from
the count.

### CParkingGate and CWaitPredicate

A parker copies the gate's packed state as its ticket, waits at the mutex of the phase
the ticket names and looks at the state again; `cycle_phase()` locks the other mutex,
stores the other phase and unlocks this one. Each of these accesses is an operator of
`CParkingGate`, and `CWaitPredicate` strings them together: `ctl`, `pc` and `ticket` say
where the controller and each waiter are. The controller takes control, modifies the
word, wakes (a wake-up or a cycle), gives up control (the sentinel, then the gate) and
takes it again, for any number of lifetimes; a waiter asks for "not zero", "not this
value" or "no longer controlled". The generation of the gate's state is bounded to two
values, so that it wraps, and a ticket may be a whole round old. The code's assertions
(that a release is by the lock's owner, that only a controlled gate is cycled) are
`AssertionsHold`. Which build it is, and which threads wait, is chosen in `Init`.

### MemoryAllocation

`set_allocator` closes the gate, `SetterProceeds` and `SetterDecides` read the two
counts, `SetterReplaces` and `SetterOpens` store. The stores are release stores:
on a processor with a store buffer (`buffered`) they go into `buffer` and reach
memory by `Drain`, in order, at any time before the mutex is unlocked. That is
what the x86 build does, where these stores and loads are plain moves; an ARMv8
build uses `stlr` and `ldar`, which keep the load behind the store. Which of the
two the processor is, is chosen in `Init` and does not change. The callers'
read-modify-writes are full barriers on either. The mutex makes the callers of
`set_allocator()` one.

### ThreadPackage and Host

`ThreadPackage` holds what the host shares with each thread, and one operator per
access to it; `Host` says who takes which step when. The host's place is `hpc`, a
thread's `pc[p]`. The names of the places follow the calls: a worker goes round
`top` (exit request), `read`, and then either `serve` or `wait`, `load`, `sleep`,
`asleep`, `resume`, which are `mark_waiting()`, the load of the word, the entry into
the platform's wait, the wait, and `mark_running()`. The application goes round `top`,
`drain`, `read`, `decide`. `post()` is three steps, the message, the word, the wake-up
(`HostPosts`, `HostPokes`, `HostWakes`); so is the shutdown of a package up to its wait
(`ShutdownRequests`, `ShutdownReleases`, `ShutdownWakes`).

What is abstracted. The two queues are sequences, as `TQueue` is shown to be; the
ring of owned objects is a sequence of at most `KOwnedCapacity` objects that drops
what does not fit. A file or image is "full" or "empty", which is all the code
looks at; loading, decoding, encoding and saving choose an outcome, and choose
failure when their input is empty. The two structs `async_tga_load` and
`async_tga_save` are the four views whose addresses travel in messages (`Variables`),
and a worker reads them through the address when it serves the message, not when
it was sent. Slots count from 1, and `thread_slots` starts with the first slot in all
three entries, as `{}` in the code does: that entry of a package which was never
emplaced names the first package. The heartbeat, names and priorities are left
out. `join_and_close()` succeeds.

Two places have no step out of them. `unready` is the branch of `startup()` for a
thread that is done when it is first looked at, which `StartedIsReady` shows never to
be reached. `undefined` is the null pointer that the shutdown loop takes from
`get_object()` when not even the first package could be placed; `HostReturns` is about a
host that has a package.

### TUnorderedSlots

`index` is the object's data members, with the array as `meta`, a function from slots
to their links and state, and the counts and heads of the two lists as functions of
the category. The list operations (`Combined`, `Unlinked`, `Linked`) change the same
links as the code; lists made by a scan of the array (`state_to_list`,
`range_to_list`) are `Chained`, whose links go round a set of slots in ascending
order. An operation is one step, since nothing else runs during it, but `pack()`
calls the derived class between its moves and is a step per slot visited
(`PackPasses`, `PackMoves`), with the lists rebuilt in the last (`PackEnds`); the lock
keeps the derived class from doing anything meanwhile. `payload` is what
`TPodUnorderedSlots` and `TUnorderedCollection` keep beside each slot, and what their
`on_move_payload()` exchanges. A payload is taken out of an erased slot, where the
code leaves it and never looks at it again. An acquired payload is one that no slot has, so
that two cannot be mistaken for each other.

`SlotLists` knows no links: the slots are two sequences, with a payload for each
loose one, and `pack()` is a single step. The mapping reads the two lists by their
links and, within a `pack()`, finds the payload of the ranks already moved at their
new places.

### TOrderedSlots and AvlTree

`index.meta` maps a slot to parent, two children, balance and state; `avl_insert` and
`avl_remove` change them as the code does, rotation by rotation. A walk along the links is
a recursive function of the slots it may come to. A loop that also changes the tree
(`Raised`, `Lowered`) is a function of the number of its turns, each of which takes the
tree, the slot it is at and the side that has changed, and gives the next; there are no
more turns than slots. The loose and the empty list reuse the children as
previous and next. A key comparison is a function from slots to negative, zero or
positive, taken from the payload's key, so equal keys occur. `lex_all()` and
`relex_all()` take the lock before they look whether there is anything to do and keep it
when there is not; the model keeps it too (`LockIsLeft`), after which every operation is
refused. `OrderedSlotLists` knows three sequences; the mapping reads the tree in order.
`OrderedSlotsAgree` is its integrity check, and compares searches, bounds, neighbours and
ranks with that order. The tree is also a behaviour on its own, over the variable `tree`:
any slot that is out goes in and any that is in comes out, with the slots' numbers for
keys; `BalancedInOrder` is what must hold of it.

### Collections and stable storage

A collection's step is a whole operation with every place at which its memory may run
out as an alternative (`...Fails`). `slot` maps a slot to its storage index, `storage`
is the number of buffers and `object` what lives at each address. An erased slot keeps
its storage index. In `TUnorderedCollection` `pack()` exchanges the slot data of two
slots, not the objects. `ObjectsKept` says that exactly the occupied slots have an
object, the one they were acquired for, at an address of their own that was mapped. Of
the slots in use it speaks only while the collection is ready and not half-way through
`pack()`, whose moves trade slot data before the lists are rebuilt. `Begin` does not ask
for memory that fails: an `initialise()` that gets no storage is `Deallocate`.

`MCContainers` has the unordered slots and their collection (four slots, buffers of two)
and the tree alone (12) as its own variables, so that what is checked is word for word
what is proved; the ordered slots (4) and their collection (3) share the other variables,
and `OrderedSlotsAgree` says of each what there is to say.

### Stores

A FIFO is its block, capacity, size and read index, with `<< >>` for no block. Moves
within a block are by runs of elements: `memmove` as one assignment, `memcpy` of
overlapping runs as either order of copying. `FifoAgrees`, `VectorAgrees` and `RectAgrees`
apply every operation, with every argument in bounds, with memory and without, to a
reachable record and compare the list it holds with what the operation says.
`PacksInPlace` names the packing requests that the code gets wrong (run `fifo_pack`) and
`FifoAgrees` excepts; `swap_insert()` is excepted where its count is larger than the
number of elements behind the index. A string table is a record of five vectors, and an
operation is told how many blocks it gets, which fails it between any two of them.
`TOwning` has its two sides split like `TRing`; `destroyed` counts the destructions of
each object, `sent` is what was posted and not read, and `OwnedOnce` says that an object
that was made is the producer's, the consumer's, in one slot, or was destroyed once.
`ContentsKept` is the conjunction of what is checked of the other stores.

### Algorithms

A word is the set of its one bits, so a shift drops what leaves the width and an
addition is done by carries; a float is sign and bits, a half likewise. `BitOps` has one
operator per function, with the width as a parameter for the two overloads. The
references are arithmetic: powers of two, interleaved coordinates, distance one between
neighbours of a Hilbert curve, the half a value rounds to by a division. `tga`
has the encoder's sizing pass and its writing pass separately, with the packet and table
limits as constants, and decodes what is written; views that are too large for its header
or not of whole texels it refuses. `AlgorithmsAgree` demands what the repository says of the
functions and nothing else: inputs for which the code gives something else are left out of
it, by a definition that names them. Those that contradict a statement of the repository are
what the runs `half_of_float` and `narrow_permutation` are about (`FloatsAsDocumented`,
`RawPermutationsValidated`); section 5 lists them all.

## 4. Runs

| run | instance | states | shows |
|---|---|---|---|
| `transports` | queue: capacities 0, 2, 3, 4 of 4, batches to 3, 7 messages; bulk: 4 modifications, 5 publications; ring: capacities 0, 2, 3, 5 of 4, batches to 3, 7 messages | 96,262 | queue: no shared write, agreement, stream, delivery; bulk: what waits or is held stays as published, truthful return, delivery; ring: slots not shared, agreement, FIFO, delivery |
| `queue_wedge` | queue with batches to 2, 5 messages | | the drained queue that refuses |
| `bulk_overwrite` | bulk as in `transports` | | the held payload that is modified |
| `semaphore` | 2 consumers, 2 producers, at most 2 permits, 2 released per lifetime | 231,828 | accounting, sentinel, wake-ups, progress |
| `waits` | 2 waiters, both builds, 2 generations, words 0 to 1 | 226,428 | assertions, progress of controller and waiters |
| `allocation` | 2 callers, 2 allocators, 1 block, both kinds of processor | 232,640 | quiescent point, ownership of blocks, live count, progress |
| `allocation_store_buffer` | same | | the overtaken store |
| `host` | three packages, predicate words 0 to 1, one owned object | 114,563 | nothing slept through, start-up, verdict, lent views, shutdown |
| `library` | domains of 4 slots, an unordered collection of 4 and an ordered one of 3, buffers of 2, a tree of 12 nodes, stores of 4 or 5 elements, a ring of 5 owned objects, inputs of the algorithms | 198,960 | lists, trees, queries, objects, contents, string ids, references, round trips, both refinements |
| `fifo_pack` | same | | the packing that loses elements |
| `half_of_float`, `narrow_permutation` | the inputs of the algorithms | | the float that is rounded down or the NaN that becomes an infinity; the list that is no permutation |

**Why the bounds are enough.** The queue's roles are three, so the exchanges of the
word repeat with a period of a few posts; with a maximum capacity of 4 over a
minimum of 2 it is filled, grown from 2 over 3 to 4, refused and discarded within
7 messages, and each kind of post (extend, rebase) meets each kind of read and
each failure several times over. Capacities 0, 2, 3 and 4 give a conditioned
capacity from the growth curve and from a power of 2, and every relation between
capacity and maximum. The ring wraps at least twice within 7 messages through
capacities 2 and 4; 5 is a capacity above the maximum and refused. The
semaphore's maximum is 2 instead of 2^32 - 2, which puts the sentinel within reach
of two releases; the released permits of a lifetime are bounded, the lifetimes are
not. Two callers and a setter are the parties of every race in the allocator; one
block lets it be made by one allocator and freed under another. The host's packages
and messages are those of the code; its predicate words are 0 and 1 before the
sentinel, so that the word wraps within the two posts a worker gets and an
`epoch` may meet a word that has come back to it. The gate's
generations wrap after two cycles, so that a ticket meets a state that has come back to
it, and two waiters may be parked at both phases; there is one controller, as the code
demands.

Four slots are the least number
with a head, a tail and a slot between them in one list beside a slot in the other,
and let `pack()` move two payloads past a hole and past each other; two keys among three
payloads give equal keys on either side of a different one. Four nodes allow single and
double rotations; twelve are the least with a tree of height five, in which one removal
rotates at two levels, and nodes are inserted and removed in every order. Three objects with two per
buffer need a second buffer and a directory that grows. A FIFO of five elements wraps
with a gap that is smaller than head or tail, equal, or larger; a string table takes
strings of which some begin others, and seven blocks cover every allocation of an
append. The words of the algorithms have their real widths, and the inputs lie at the
thresholds: every pair of bits of a word, every exponent of a float with the fractions
next to a rounding boundary, every exponent of a half, all points of Hilbert curves of
three levels, all lists of up to five values for the validators, all two-by-two images of
four colours, rows up to nine texels against packets of 4 (128 in the code) and tables
of 3 entries (256), and rows and columns of ten, which are too long for sides of 9 (65535). The number of operations
on a container or a store is not bounded. The proofs remove the bounds for the
safety properties of the transports, semaphore, waits, allocation and host runs, and
those of the library that are about the ring of owners, the unordered slots and their
collection, and the tree.

**Deadlock.** `host()` returns when its threads have ended, and its configuration
therefore turns the deadlock check off; so does that of the library, whose algorithms are
done with an input when it is chosen. It is on in the other runs, the transports'
included, which may be deallocated when all messages of a behaviour are posted and read.

**Fairness.** A thread that is inside a call goes on (weak fairness on every
continuation): the code contains no step a thread may wait at, other than the
waits themselves. No call is ever forced to begin, with one exception: the
consumer of a transport polls. For the queue and the ring that is strong fairness
of a read of a single message, since other reads may come between; this is what
`CHostWorkerThread::main()` does, which reads one message at a time until there is
none. Spurious returns of a wait are never fair: progress must not depend on them.
The store buffer drains, as processors do. In the host every thread runs on, a parked
worker only when it was woken. The controller of the wait predicate and its waiters go on inside a
call under weak fairness, and none of them is forced to begin one: a lock that stays free
is got in the end, and nothing is assumed of a lock that is passed from hand to hand.
That this is enough, because a parker that has passed turns to the other lock, is what
`ControllerGetsThrough` shows.

**Properties.** Each is stated and explained in its module. The main ones are:
`NoSharedWrite` and `NoSharedSlot` (no data race on a buffer), `Agreement` and
`RingAgreement` (the inductive invariants: how the two private views fit), `ImplementsStream` and
`ImplementsFifo` (refinement), `EveryMessageArrives`, `EveryMessagePasses`, `ReturnIsTrue`,
`NoLostWakeup`, `PermitsAccounted`, `AssertionsHold`, `BlocksAreCurrent`, `NobodyKeptOut`,
`NothingSleptThrough`, `LentIsKept`, `HostReturns`, `OwnedOnce`, `SlotsAgree`,
`BalancedInOrder`, `OrderedSlotsAgree`, `ObjectsKept`, `ContentsKept`, `AlgorithmsAgree`, `ImplementsSlotLists`, `ImplementsOrderedSlotLists`.

## 5. What the code does not do

Six runs end in a violation; each quotes a line of the repository.

* `queue_wedge`. `growth_and_discard_policy()` judges the size of the producer's
  output buffer. That buffer keeps the backlog of the last publication until the
  next exchange shows that it was consumed, and the check comes before the
  exchange. A queue without discard that was filled to its maximum and drained
  rejects every further post.
* `bulk_overwrite`. `publish()` assigns the locked index before it takes the output
  index from it, so the producer is handed the payload that the consumer has just
  acquired. What does hold is `HeldUntilNextPublish`.
* `allocation_store_buffer`. The gate needs a full barrier between its store and the
  load of the active calls, or sequentially consistent operations, as in Dekker's
  algorithm; with release and acquire the load may come first.
* `fifo_pack`. Packing a wrapped FIFO onto its own block moves the head to its place
  before the tail is saved. The other branch (`TPodFifo.hpp:324-328`) uses `memcpy` on
  runs that overlap when the head is longer than the tail.
* `half_of_float`. Floats from bits `0x387fe000` to `0x387fefff`, and the negative ones one
  further up, are nearest to the least normal half, but `set()` takes them for normalised and
  gives the half before it: its threshold has one binary digit less than the limit in the
  comment beside it (`TakenForNormalised`). A NaN whose payload is in the 13 bits that are
  shifted out becomes an infinity (`PayloadLost`), where the comment promises the payload as
  far as possible. Either refutes `FloatsAsDocumented`; `FloatAgrees` holds of every other
  float.
* `narrow_permutation`. With an internal type of 8 or 16 bits, `validate_raw_permutation()`
  computes differences in `int`, which may be negative. A value below the base passes the
  check of the range; a value below a deferred range is counted in it, so that every
  permutation of three and more values is rejected and lists such as 0, 2, 2 are accepted.
  `PermutationsAgree` has of these types only lists of up to two values from the base on.

The models also follow the code where it differs from what a reader may expect. There is
no run for these; the definitions that show them say so.

Threads:

* A consumer that polls a `TBulk` first removes the initial word whose purpose
  (`TBulkTransport.hpp:98-99`) is to keep the first `publish()` from reporting an
  acquisition.
* `validate()` of a queue (`TQueueTransport.hpp:476`) demands that the consumer's buffer
  be the producer's locked one, which is not so while an accepted publication has not been
  seen by the producer.
* In the fallback build of `CWaitPredicate` a fresh ticket parks at the phase that is
  closed when it arrives, although the modification it should see may be over: the wake-up
  is lost until the next one. `NativeWaitsEnd` holds for native wait words only. `set()`
  stores unconditionally (`CWaitPredicate.cpp:258`); by a thread other than the
  controller's it can overwrite the sentinel of `release_control()`. In the fallback build
  of `CCountingSemaphore` producers that release permits at the same time would call a
  gate that has one controller.

Slots and collections:

* `private_resize()` of `TUnorderedSlots` allocates an array and uses another
  (`TUnorderedSlots.hpp:1128`): each resize leaks one, which the live allocation count
  never gets back.
* `pack()` of a domain without a loose slot returns before it rebuilds anything, so the
  empty list keeps its order (the header, lines 187-190, says it is rebuilt).
  `reserve_empty()` asks `is_safe(true)`, which admits an object without an array, and then
  locks with `allow_null` false (line 918): on such an object it fails for any number of
  slots but 0.
* `lex_all()` and `relex_all()` (`TOrderedSlots.hpp:1039`, `:1084`) take the lock before the
  count is tested and keep it when there is nothing to lex.
* `sort_and_pack()` calls `on_move_payload()` with one slot as source and target;
  `reserve_and_acquire()` with a unique key compares the key of a slot not yet reserved
  when the slot is beyond the capacity; one direction of the search by rank is never taken.
* The move assignment of `TUnorderedCollection` is the default one and does not destroy
  the target's objects; `TStableStorage::move_from()` drops the target's buffers.

Stores:

* `TPodVector`: `swap_insert()` of more elements than follow the index overwrites what it
  has just moved; `reserve()` and `ensure_free()` reallocate although there is room;
  `shrink_to_fit()` lowers the capacity and frees nothing, because
  `CMemoryToken::reallocate()` takes equal sizes for nothing to do.
* `TPodFifo::pop_front(count)` (`:217`) does not compile when it is used.
* `CStableStrings::initialise()` of an initialised table adds a second sentinel to each
  vector, and without memory gives up the whole table.
* `buffer_growth_policy()` passes `k_buffer_growth_policy_min_capacity` where
  `k_buffer_growth_policy_capped_rate`, which nothing uses, is meant;
  `base_stepped_growth()` takes a class whose midpoint equals the requirement, where its
  comment says "greater".

Algorithms:

* The automatic level of the three-dimensional Hilbert codes is taken from the highest bit
  index: too few levels for highest bits 9, 18 and 27, and shifts outside the word for
  code 1 and for bits from 28; in two dimensions the same from bit 30.
* `validate_raw_permutation()` rejects counts above half the range of its value domain.
* The modules `render_*` (64 to 68) do not fit the module field and encode to 0.
* TGA `decode()` does not count a run's element among the source bytes; images of 8 bits and
  type 2 leave their rows unset.

Host, which contradict nothing the repository says:
`created` is true again after a successful join (`host.cpp:240`), so the
deallocations at 241-246 are left to the destructors; a failed first emplace ends in a
null pointer (`undefined`, above); `Failed` is overwritten by `Exited` before anybody acts
on it, and the failure code, which nobody reads, is what `VerdictIsTrue` is about.

## 6. Proofs

Eight modules hold theorems, over all values of the constants that satisfy the
named assumptions.

* **TQueueProofs**, from `CapacityAssumption` and `GrowthAssumption` (the growth
  curve never recommends less than it was asked for). `TypeOK /\ Agreement` is
  inductive. `Agreement` is needed because `NoSharedWrite` speaks of buffers that
  neither side can see to be free: `RolesAgree` says, for each point of a post,
  which words the producer can find and which buffers the consumer can own,
  through the two phases; `BuffersFit` says that output and staged buffer hold the
  same backlog, so that the check of the one holds for the other. From it follow
  `NoSharedWrite` and `ValidityChecksHold`. The refinement, `QueueIsStream`, needs three facts on the
  contents, which are inductive beside `Agreement`: what the consumer has in hand is
  the next messages (`InHand`), where a publication begins (`Beginning`), and that the
  backlog is what lies between. Each action is then a step of `SpscStream` (`PostPublish`
  of an extension, `PostRepublish`, `ReadExchange`, `ReadCopy`) or a stutter.
* **TransportProofs**, from `RingAssumption` for the ring and `BoundAssumption` for the
  bulk transport. In the ring `RingTypeOK /\ RingAgreement` plus what has
  been copied so far is inductive; `NoSharedSlot` follows by arithmetic on runs
  of slots modulo the capacity, which is done in lemmas by cases on where the run
  wraps. `RingIsFifo` maps each step to a step of `BoundedFifo` or a stutter:
  only the commits move the queue. The three invariants of the bulk transport and the
  roles' relation to the word are inductive together.
* **CCountingSemaphoreProofs**, from `SemaphoreAssumption`. `TypeOK`,
  `SentinelMeansReleased`, `PermitsAccounted` and `NoLostWakeup` are inductive
  together with three small facts (`Unsaid`: when the controller's flag is up, when
  the history is 0, that only `acquire()` parks). `NoLostWakeup` bounds the count by
  the consumers looking for a permit and the producers about to wake one, so its
  steps are about the cardinalities of those two sets.

* **MemoryProofs**, about the allocator gate, the first-in, first-out store and the
  vector.

  *MemoryAllocation*, from the assumption on the constants. For every set of
  callers, allocators and blocks: the replacement happens with no call inside, on
  processors without a store buffer (`QuiescentPoint`, `BlocksAreCurrent`,
  `RejectedWhileLiveInOrder`), and the count of live blocks is right on both
  (`LiveAccounts`). The argument is on cardinalities: the active count is the number
  of callers between their increment and their decrement, and a caller that saw the
  gate open is among them when the setter reads the count.

  *TPodFifo*, from `Limits`: a limit and a smallest capacity that are numbers. The store is
  one record and its operations are functions of it, so the system of `FifoSpec` is a
  variable that becomes any outcome any request may have (`Steps`, the operator whose
  reachable records the run `library` explores). `FifoKept` says that `FifoAgrees` holds of it
  always, for every limit, every capacity and lists of any elements. `FifoOk` is inductive:
  the record is what `is_valid()` accepts, and its block is a sequence. The block is reasoned
  about place by place: element `k` is at `Nth(f, k)`, one conditional subtraction away from
  the read index (`Wrap`, `NthIs`). A push writes to the places after the last
  (`PushIs`) and a pop leaves the others where they are (`PopIs`), in one piece or two.
  A `memcpy` within one block may copy strictly forwards, each element after the ones before
  have been overwritten, so what it makes of overlapping ranges has to be shown: it is a move
  when it goes down or when the ranges are apart (`ForwardsIs`, `CopiesOn`). Packing into
  another block, or in place where the elements do not wrap, puts them in line
  (`PackedIntoIs`, `PackStraight`); where they wrap it does so if they fit below the head
  (`PackWrapped`). The exception is the one the run `fifo_pack` is about: packing in place
  outside `PacksInPlace`.

  *TPodVector*, from `Limits`, in the same way: `VectorSpec` is a variable that becomes any
  outcome of the operator `Steps` of `TPodVector`, and `VectorKept` says that `VectorAgrees`
  holds of it always. `VecOk` is inductive: the record is what `is_valid()` accepts and its
  capacity is within the block. What an operation makes of the block is stated place by
  place: a range moved into another (`Placed`), a gap opened at an index (`Opens`), elements
  put into it (`Among`), a range taken out (`Without`); making room keeps every element or
  fails and changes nothing (`Roomy`). Of `swap_insert()` and `swap_erase()` the list is not
  determined, only that no element is lost: each is shown to be a rearrangement of places,
  an exchange that is its own inverse (`Swapped`) or a rotation (`Turned`), and a bijection of
  the places makes every element occur as often as before (`Shuffled`). The exception is that
  of the run: `swap_insert()` of more elements than follow the index.
* **CWaitPredicateProofs**, from the assumptions on words and generations. In the fallback
  build the controller holds exactly the lock of the closed phase (`GateHeld`), in the
  native build none (`GateUnused`); a waiter holds a lock only on its way through
  (`PassageHeld`); the gate's lifetime follows the predicate's (`LifetimeFollows`). From
  them `AssertionsHold`: every release of a lock is by its owner, for any number of waiters
  and generations.
* **HostProofs**, from `PackageAssumption` and `HostAssumption`: all the safety properties
  of the run `host`, for any width of the predicates' words and any capacity of the rings.
  The packages and the application's two requests are what they are in `host.cpp`. The
  word wraps, so that with enough pokes a worker that has been poked would find its old
  epoch and park; that this does not happen is a fact about the messages. The two requests
  travel one after the other, so there is one message under way (`Flows`): it has one of
  twelve turns (`Turn`), is in one queue, ring, hand or the host's `outbound`
  (`Carries`), and a worker gets two of them. From the turn and the place of the message
  follow whether a worker's epoch is its word and where it may be parked (`Level`), and
  what the application, the host's variables and the file hold (`Fate`). Beside `Flows`
  the invariant says how far the start-up and the shutdown have come (`Started`,
  `Placed`, `Controlled`). Ten of the steps move the message (`KicksOff` to
  `WorkerServesOn`), and the others leave it where it is (`FlowsStep`).

* **LibraryProofs**, about the ring of owners, the unordered slots and the collection of
  objects over them.

  *TOwning*, from `OwningAssumption`. `OwnedOnce` is not inductive: it says nothing of the
  count the two sides test. `OwningInv` adds it (`CountAgrees`): the count lags behind
  `sent` by the side that has moved its object and not yet said so, and the writer is
  `Len(sent)` slots ahead of the reader around the ring. A post then moves into a slot that
  held nothing and a read out of the one that holds the oldest, so the slots that hold an
  object lose or gain one (`OneOwner`, on cardinalities), and the two never have the same
  slot.

  *TUnorderedSlots*, from `UnorderedAssumption`, for any number of slots. The lists are what
  a traversal by the links finds, and every operation changes single links. `Ring` is the
  bridge: the links of a set of slots spell a sequence `s` when the next of `s[k]` is
  `s[k + 1]`, the next of the last is the first, and the previous ones likewise. For each list
  operation of the code a lemma says which sequence the links spell afterwards: a scan makes
  the ascending one (`ChainedFacts`), `combine_lists` appends (`CombinedFacts`), attaching
  puts a slot first (`LinkedFacts`), removing leaves it out (`UnlinkedFacts`). Built of them
  are the lemmas about growing, shrinking, packing, erasing and sorting a domain. `SlotsInv`
  says that the two lists share out the domain and the headers agree with them (`Lists`),
  that `high_index` and the peaks are what they bound (`BoundsHold`), and that during
  `pack()` the target is the number of loose slots below the source (`PackFollows`), which
  is what makes each move overwrite a slot whose own payload has gone. Each action is then a
  step of `SlotLists`, or a stutter for `pack()`'s beginning and moves (`SlotsAreLists`).
  `SlotsAgree` follows (`SlotsSound`): what the code checks by walking a list holds of a
  ring (`IntegrityHolds`), and ranks are numbers of loose slots below, however the slots are
  linked (`QueriesAgree`, `RankFacts`).

  *TUnorderedCollection*, from `UnorderedAssumption` and `BufferAssumption` (a buffer has a
  slot: the code takes `std::max(slots_per_buffer, 32)`). Its steps are those of the slots
  with the slot data and objects beside them, or leave the slots to grow, or do nothing that
  the slots can tell: so `SlotsInv` and the refinement carry over (`CollectionIndexSound`,
  `CollectionSlotsAreLists`; an `emplace()` that gets no memory for its object is growth, or a
  stutter). `ObjectsKept` is not inductive, as it is silent during `pack()`. `CollectionInv`
  says at all times which slots are live: the loose ones outside `pack()`, and within it the
  targets already filled and the sources still to come, so that a move, which trades the
  slot data of a live source and a dead target, keeps one object for each live slot
  (`Keeps`). The slot data may be longer than the domain, for `on_reserve_empty()` may
  succeed and the growth after it fail, and no two slots have the same storage index,
  so an object is reached from one slot. That `map_index()`, which doubles a directory until
  it is large enough, takes no address away and leaves the storage sound, however often it
  runs out of memory, is a fact about the recursion of its doubling (`DirectoryFor`).

  A traversal is a recursive function, and induction over it is out of the prover's reach.
  Where a lemma needs it, the proof takes the set of places at which the function and its
  closed form differ; if it has an element it has a least one (`Smallest`, from the
  well-foundedness of `<`), and the recursion's equation at that place contradicts it.

* **AvlTreeProofs**, from `NodesAssumption`. The lemmas about single operations hold for any
  set of slots and any order of their keys: `at` gives each slot a place, and inserting and
  removing are about the places. `Sound` says that there are limits for the subtree of every
  slot and a height for every slot such that, at each slot, its children lie within its limits
  on their side of it and point back at it (`Linked`) and its balance is the difference of
  their heights, which make its own (`Weighed`). Both are conditions on a slot and its
  children, so that a rotation is checked at the slots it touches (`SingleRotateIs`,
  `DoubleRotateIs` and what is made of them), and everything about the whole tree is derived:
  that a search ends where a new slot belongs, that a successor is the next place, that the
  walk from an end comes to every slot once and in order, that the height the code
  computes is the one of `Sound`.

  In between, a tree is not balanced: a subtree has one level more, or less, than the
  balances above it count. That is the invariant of the two loops. A turn of `Raised` or
  `Lowered` (`Taller`, `Shorter`) either restores the balance for good, or restores it at the
  slot it is at and moves the one level to the slot above, which has a wider span; so the
  loop ends within as many turns as there are slots. `InsertIs` and `RemoveIs` put the two
  halves together: a sound tree becomes one with that slot more or less, and the rest in the
  same order. `TreeSound` is the invariance of `Sound`, and `TreeBalanced` draws
  `BalancedInOrder` from it, for any number of slots.

  A search is one operator for the seven kinds. It comes back with what it finds further
  down, or else with its own slot, and what it leaves to one side cannot be wanted because
  the comparison falls along the order of the slots (`Falls`: the key at hand compares with
  the slots consistently; equal keys may be many). `LocateIs` shows for any such order that
  it comes back with the first or the last slot it is for (`Answers`), child by child
  (`AnswersOnward`), and `SearchesAnswer` says so of the tree. `OneSlotAtATime` is the action
  property: a step changes the set of slots in the tree by the one it is about.

  A walk or a loop is a recursive function, and induction over one goes by a least
  counterexample, as in `LibraryProofs`; what descends is the number of slots in a span.

**Model-checked only.** Liveness (`EveryMessageArrives`, `LatestArrives`,
`PermitsReachWaiters`, `ReleaseFreesWaiters`, `ControllerGetsThrough`, `NativeWaitsEnd`,
`NobodyKeptOut`, `HostReturns`), which is out of the prover's reach; and of the library
`OrderedSlotsAgree` (the objects of the ordered collection are part of it) and
`ImplementsOrderedSlotLists`, `ContentsKept` and `AlgorithmsAgree`. The lists
beside the tree of the ordered slots, its balanced rebuilding and its rank walks, the
validators and the codec are recursive operators, or folds over sequences, with which the
provers cannot work. Of `ContentsKept` the parts about `TPodFifo` and `TPodVector` are
proved (`FifoKept`, `VectorKept`) and those about byte rectangles and string tables are
only checked, on the records reachable within the bounds of the run.

**Not modelled.** The components with status `not_modelled` in `PROJECT.json`. Within
the modelled ones: moves, clones and visits of containers; the operations of a store that
fail and change nothing; the allocation of an owning result in `host.cpp` that gets no
memory (`create_typeless()`, whose null pointer the worker does not test); the real minimum of 32 slots of a stable storage's buffer (2 in
the model) and of 32 elements of a queue's (2); element sizes and the bytes of a message; the widths of the
counters of `TQueue` and `TRing`, whose values stay at or below a maximum capacity
of 2^20 (`Agreement`, `RingAgreement`); memory orderings weaker than the accesses modelled, except
where a release store is followed by a load of another location
(`MemoryAllocation`): in the transports and the semaphore each hand-over goes
through one atomic, by a release operation and an acquire operation.
