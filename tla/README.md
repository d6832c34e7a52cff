# A TLA+ verification of the uVisor core

uVisor is a hypervisor for Cortex-M microcontrollers.  It divides a program into
*boxes* (box 0 is public, the others are secure), gives each box its own memory,
peripherals and interrupts, and mediates every interaction between them.  The
core runs in exception handlers (SVC, faults, the interrupt gateway); boxes and
their RTOS threads run unprivileged.  This directory holds models of the parts of
the core that carry its logic, the TLC runs that check them on small instances,
and TLAPS proofs of their main properties for all instances.

## 1. Inventory

| Component | State | Operations | Correct when |
|---|---|---|---|
| Pool queue, spinlock (`core/system/src/pool_queue.c`, `spinlock.c`) | management array (links and slot state), free list, head and tail of each queue, one lock per pool | allocate, free, enqueue, dequeue, dequeue_first, find_first; blocking for threads, `try_` for the core | a slot is in one place only; the lock serialises the users; queues are first-in first-out |
| Page allocator (`page_allocator.c`, `page_allocator_faults.c`) | usage map, owner map per box, free counter, heap bounds and map shift | init, malloc, free, masks for the MPU | secure boxes share no page; the counter is right; pages are zeroed between owners; a page is one MPU subregion |
| vMPU ARMv7-M (`core/vmpu/src/mpu_armv7m`) | region table, MPU slots with their priorities, rotating slot, next free box memory | order and lay out boxes, add regions, switch, fault recovery, push, invalidate | boxes do not overlap; only regions of the active box are open; its memory stays open; permitted accesses get through |
| vIRQ ARMv7-M (`core_armv7m/virq.c`) | owner, handler, was_enabled per IRQ, disable-all counter per box | register, set, enable, disable, disable_all, enable_all, priority, pending, gateway in and out | IRQs stay with their box, ISRs run there, sections hold |
| Context (`context.c`) | active box, stack of previous states, stack pointer per box | switch in, switch out, forge and discard frames | every switch out returns where the switch in came from |
| Threads (`thread.c`) | table of thread contexts | create, destroy, switch | a thread runs in the box that created it |
| IPC (`core/system/src/ipc.c`, `api/src/ipc.c`) | send and receive queue, allocated and completed tokens per box | send, recv, wait, drain | a message is delivered once, to a matching receive, and both sides learn of it |
| RPC (`core/system/src/rpc.c`, `api/src/rpc.c`) | outgoing queue, todo and done queue, function groups, semaphores | call (sync, async), wait, waitfor, drain messages and results | a call runs once and its result reaches its caller |
| Box initialisation (`box_init.c`, `core_armv7m/box_init_v7m.c`) | running counter, done flag | first, next | every configured box once, in order, back to box 0 |
| Register gateway (`register_gateway.c`) | none | check, perform | only the box named in the gateway |
| vMPU common (`vmpu.c`) | box count, box memory | enumerate boxes, check tables, add memory and ACLs, bus fault recovery | ACLs of a box are what the hardware opens |
| ARMv8-M and Kinetis ports | MPU, SAU and vIRQ state | boot, switch, recover | as for ARMv7-M |
| Secure allocator (`api/rtx/src/secure_allocator.c`) | page table and heap per allocator | create, destroy, malloc, free | pages of an allocator go back once |
| Debug box, halt | registered driver | register, halt, reboot | one driver, entered at most once |
| SVC dispatch, boot, API tables, linker, platforms | none | | |

**How they interact.**  A box calls the core by SVC; each call is one handler that
nothing but a higher-priority exception preempts.  The core and the threads of a
box share pools (IPC and RPC queues) that live in memory of the box: threads take
the spinlock, the core tries it and gives up.  `thread_switch` drains the queues
of the box that is left and then switches the box; the switch reloads the MPU
from the owner map of the page allocator.  An interrupt runs the gateway, which
switches to the box that owns the IRQ and back.

**What is hard.**  Threads preempted inside a pool function while the core works
on the same pool; the MPU as a cache of the owner map; sections of several boxes
that overlap through interrupts; nested interrupts; tables that fail half way;
timeouts of RPC waits against late results; counters and tables at their limits.
`PROJECT.json` lists these places under "hazards", each with its line.

## 2. The modules

| Module | Models |
|---|---|
| `PoolOps` | the data structure of `pool_queue.c`: every static helper and the body of every public function, as operators from pool memory to pool memory |
| `PoolSpec` | what a pool promises: free slots, slots that are out, first-in first-out queues |
| `PoolQueue` | threads and core using one pool under the spinlock |
| `PageAllocator` | malloc, free, the owner and usage maps, the page regions of the MPU |
| `Virq` | the vIRQ table, the NVIC as far as the code uses it, ISR nesting |
| `Ipc` | the IPC calls of threads, and the core draining send queues |
| `Rpc` | calls, waits, function groups and handlers of threads, and the core draining messages and results |
| `BoxLayout` | where the memory of each secure box lies, and the order of the boxes |
| `PageHeap` | where the pages of the heap lie, and the bits and MPU subregions that stand for them |
| `Vmpu` | boot of the boxes, the MPU as a cache of the region table, switches and faults; uses `BoxLayout` and `PageHeap` |
| `Kernel` | active box, state stack and stack pointers, under interrupts, thread switches, box initialisation, halts and the debug box |
| `MC...` | instances for TLC |
| `..._proofs` | theorems and proofs |

### PoolOps, PoolQueue, PoolSpec

`pool` is the memory of one pool with its queues.  The C union of
`queued.prev` and `dequeued.state` is kept: `prev` also holds `FREE` and
`DEQUEUED`, and slots are bytes, so `num_allocated` wraps at 256.  A thread's call
is three steps: `spin_lock` takes the lock and reads the pool into `snap`,
`Write` computes the body of the function from what was read and writes the
differences, `spin_unlock` releases.  If the lock works, `snap` is the pool at the
time of the write; if it does not, the write goes over what others did, as in the
code.  The core's `try_` functions run in handlers and are one step each; when the
lock is taken they change nothing.  `held` is a history variable: the slots each
actor got and has not given back.  Callers enqueue and free only what they hold
(`Disciplined`), which is how `api/src/ipc.c`, `api/src/rpc.c` and the core use
the pool; any slot may be asked out of the queue.

`find_first` unlocks when it finds a slot and its caller unlocks again.  The
parameter `ThreadOps` says which blocking functions the threads of a pool call:
threads search only the queue of incoming RPC.  The passing run and the proofs are
about pools whose threads do not search; the run `pool_queue_find` shows what
happens when they do.

### PageAllocator

Owner maps and the usage map are sets of pages.  `page_allocator_malloc` and
`page_allocator_free` take a page count or a table of pages (`Nowhere`, written
as the number `Total`, stands for a pointer into no page) and whether the page
size in the table is right.  The table lies in memory of the caller: an access to
it that fails halts, which is not modelled.  `loaded` is the set of pages that the
MPU opens to the active box: `vmpu_switch` loads the last octet in which the box
owns a page, a fault on an owned page loads its octet and may evict others, and
neither malloc nor free touches the MPU.  `content` records whose data a page
holds.  `SharedFree` says whether a secure box may free pages of box 0, which are
in the owner map of every box; the passing run and the proofs assume that it does
not, the run `page_allocator_shared` shows what follows if it does.

### Virq

`id`, `hdlr`, `was_enabled` and `counter` are the fields of the vIRQ table; `nvic`
has the enabled and pending bits and the priority of each IRQ.  Every vIRQ
function registers the IRQ for the active box first (`OnIrq`) and halts when
another box has it.  `virq_gateway_in` is the switch to the ISR, at any moment at
which the NVIC would take the exception; `isr` is the stack of ISRs with the box
each one interrupted, as deep as `UVISOR_CONTEXT_MAX_DEPTH`.  `due` is a history
variable: what an outermost `enable_all` owes to the box.  Thread switches happen
at the lowest priority, so never while an ISR runs.  `HALT_ERROR` sets `halted`,
after which nothing happens; this is why the run switches deadlock checking off.
Once a debug box is registered a halt returns to its caller; what follows then is not
part of this model (`Kernel` has it for the active box), so what is shown of the vIRQ
table holds up to the first halt.

### Ipc

Each box has a pool and a queue for sends and one for receives (`free`, `queue`;
what `PoolSpec` promises of them), and its sets of allocated and completed tokens.
A request takes its token, then its slot, then enqueues, each under a lock; `pc`
says where a thread is, and a thread at an `in_` place holds that lock, preempted
or not.  `ipc_drain_queue` starts for any box at any moment, since the scheduler
calls it whenever it leaves a box; then only the core runs, one step per pass of
the loop, until the loop ends.  A lock that a thread holds makes the core's
trylock fail.  `tick` flips on every pass so that a pass which changes nothing
else is still a step.  A descriptor says whether the core's check finds it, and its
buffer, in memory of the caller, which covers the "don't put it back" branches;
boxes that corrupt their own queues are not modelled.  The double unlock of
`find_first` does no harm here: the core searches while no thread runs.

### Rpc

Each box has an outgoing pool (what `PoolSpec` promises of it), an incoming pool
whose memory is that of `PoolOps`, because its todo and done queues share one
management array, and a list of function groups, each with a semaphore that counts
to 1 as `box_init.c` initialises it.  A thread goes from place to place (`pc`), one
step per pool operation, semaphore operation or function run; `job` is what it
remembers.  A message keeps the fields of the code: gateway, peer box, wait and
match cookie, state, result.  The argument of a call identifies it, and the result
of a function is its argument, so that a wrong result is visible.  `ran` is a
history variable.  `thread_switch` starts a drain of the active box, at any moment;
`held` is the set of pool locks, of those that preempted threads may hold, which are
taken during this drain.  A gateway is valid or not (`is_valid_rpc_gateway`); boxes
that damage their own queues are not modelled.  The result counter wraps after 2^21
calls, beyond the bound `MaxCalls`.

Pool operations are atomic here, as `PoolSpec` has them.  For `find_incoming` that leaves
out the second unlock of `find_first`, which is the subject of `PoolQueue` and of the run
`pool_queue_find`: with one serving thread in each box it does no harm, because nobody else
of the box takes the lock of the incoming pool; with several, what the run `rpc` and the
theorems say assumes that the unlock does not let two of them into the pool.  A result
that does not match its call is dropped, as in a release build; in a debug build the
`assert(false)` on that path stops the system instead.  The callee of a gateway is taken
to have the box id that its index in the configuration table gives (section 5).

### BoxLayout, PageHeap, Vmpu

`BoxLayout` and `PageHeap` are the arithmetic: powers of two, alignment, eight
subregions, eight-bit counters.  `Visited` lists the permutations in the order of the
recursion of `__vmpu_order_boxes`, of which the first that needs least memory wins.
`LayoutSound` begins with `OrderSound`: the chosen order has every box once.
The six sections of a box are three here (`Sections`): of the six, four consist of whole
words, and each of the other two, the context and the heap, ends one of the three.  As in
the code there are two computations: the memory of a box is found from the sum of the
sizes (`SumBss`), and the sections are put into it with each size rounded up to four bytes
(`SectionAt`, `vmpu_box_index_init`).  `Guarded` relates the two.
`Vmpu` boots a configuration table step by step (`order_boxes`, `enumerate_box`,
`load_box_0`), each of which halts where the code does.  Then the MPU is a
cache: `mpu` has the rotating slot, and for each slot its region and priority;
`vmpu_switch` invalidates it and leaves a list of pushes, which are steps of their
own; `access_denied` is an access of the active box that faults, `fault_recovery`
the handler, `access_repeated` the access when it gets through.  Of overlapping
regions the highest slot decides, as in the hardware.  Who owns which page is a
constant here; that it changes is the subject of `PageAllocator`.

### Kernel

`s` holds the globals of `context.c`, `box_init_v7m.c` and `debug_box.c`, the process
stack pointer and BASEPRI.  A stack pointer is a stack (of a box or of a thread) and
a depth in frames, so that `context_forge_exc_sf` adds one and
`context_discard_exc_sf` removes one.  `code` lists what is suspended and what runs:
boot code, a thread, ISRs, an init handler, the debug handler.  Handlers are functions
from the state `s` to the next, and `Then` goes on after a check only if the core is
not dead: with a debug box a halt returns to its caller, as it does in the code.
`s.why` keeps the first reason for a halt.
`slots` is the thread table of `thread.c`; `context`, `saved` are what the RTOS keeps
of each thread.  `use_stack` is unprivileged code that calls deeper or returns.

## 3. Runs

| Run | Shows |
|---|---|
| `pool_queue` | lock, ownership and structure of a pool of 3 slots, 2 threads and the core; refinement of `PoolSpec`; a taken lock is released |
| `pool_queue_find` (violation) | the double unlock of `find_first` lets two threads into the pool |
| `page_allocator` | isolation, confidentiality, counter; 3 pages in 2 octets, 3 boxes, tables of up to 3 entries |
| `page_allocator_shared` (violation) | a page of box 0 freed by a secure box is given out while others own it |
| `virq` | ownership, sections and ISR nesting; 2 boxes, 2 IRQs, 2 priorities, counter up to 2, depth 2 |
| `ipc` | tokens, slots and delivery between two boxes: 2 slots per queue, 3 tokens, unknown boxes and buffers outside the box |
| `rpc` | calls of two boxes to a third, with timeouts, stale cookies, an invalid gateway and full pools: each call in flight is in one slot of its callee, runs once, in a group that contains it, and its result reaches its caller |
| `rpc_twice` (violation) | of two threads that serve the same group, the second takes a handled call out of the done queue and runs it again |
| `rpc_stuck` (violation) | two calls arrive before the server takes its semaphore; the second stays in the todo queue while the server waits |
| `vmpu` | 64 tables with all choices of three secure boxes out of four, one with overlapping ACLs, ten that are refused (as are those of the 64 that do not fit); then switches and faults with three MPU slots: sound and least layout, pages are subregions, only own regions open, stack region kept, permitted accesses carried out |
| `kernel` | four boxes, two threads, two IRQs and a debug box: code runs in its own box and on its own stack, the state stack stays in its array, the chain of initialisations ends |
| `isr_frame` (violation) | the frame of an ISR is put over frames that the thread it interrupts still uses |

**Bounds.**  Three slots are the fewest with a first, a middle and a last element,
so every branch of `dequeue` is taken; two threads and the core give every pair of
concurrent users.  Three pages with a shift of one and octets of two pages make a
heap that starts and ends inside an octet; box 0 and two secure boxes are all the
kinds of pairs there are.  Two boxes and two IRQs suffice for a section of one box
to meet a section of the other; two priorities give one level of ISR nesting
within an ISR, and a depth of two is reached and exceeded only by the halt.
Two slots per IPC queue are the fewest with which a drain meets one message that
it can deliver and one that it cannot; a third token lets a request fail for want
of a slot after it got a token.  Three calls over two slots on each side make both
pools run full and a slot be used again for another call; one function group slot lets the
second group fail.  In `vmpu` the four plain boxes need regions of 256, 256, 512 and
1024 bytes, one of them filled to the last subregion, from a start that is aligned to
32 bytes only, so that the order of the boxes matters; their sections have sizes that are
and that are not multiples of four; a box with five regions and
pages in two octets, one of which the switch does not visit, competes for three slots; heaps of 0 to 20 pages are tried at
every alignment, and the counts 255 to 257 around the eight-bit limit.  In `kernel`
the state stack is small enough that two nested ISRs fill it and the debug box exceeds
it, a slot that another box leaves in use makes the thread table run full, and one of
the secure boxes has no initialisation handler.

**Fairness.**  `LockReleased` assumes that a thread inside a pool function keeps
running (weak fairness of `Write` or `spin_unlock` of each thread), which an RTOS
that serves its ready threads gives.  No thread is assumed to call, or to win
the lock.  `AccessServed` assumes that the core finishes its switch, that a fault
handler runs and that the processor repeats the access: all three are the hardware's
and nothing else runs in between.  `BoxInitCompletes` assumes that an initialisation
handler of a box returns.  `Rpc` states weak fairness of the drain loops, which
nothing preempts, and strong fairness of each thread's call and serving steps, of its
taking a posted semaphore, and of the switches of each box; it is generous on purpose,
since `rpc_stuck` shows that a call is left lying even so.  The other properties need
no fairness; that the IPC drain loop ends is stated by `DrainProgress` as a quantity
that every pass lowers.

Deadlock checking is off where the system really may stop: after a halt (`virq`,
`kernel`, `vmpu`).

## 4. Proofs

| Theorem | Statement |
|---|---|
| `SpinlockSerializes`, `SlotsHaveOneOwner`, `NoSlotIsLost`, `PoolImplementsSpec` | for a pool with one queue, any number of slots below 252 and any finite set of threads that do not search: mutual exclusion, one owner per slot, no slot lost and all counted, and the refinement of `PoolSpec` |
| `PagesAreIsolated`, and from it `UsageMapIsExact`, `SecureBoxesShareNoPage`, `MpuOpensNoForeignPage`, `PagesLeakNothing`; `MallocIsPrivate` | for any heap, alignment and number of boxes, if no secure box frees a page of box 0 |
| `VirqIsSafe`, and from it `DeliveredIrqsAreOwned`, `SectionsHold`, `NothingIsEnabledUnasked`, `IsrsRunAtHome`; `IrqsKeepTheirOwner` | for any boxes, IRQs, priorities, counter limit and depth |
| `FreePagesAreCounted` | under the same condition the free counter is the number of pages that malloc can hand out |
| `IpcTypes`, `TokensAreStable`, `SlotsAreUsedOnce`, `TokensStandForOneRequest`, `RequestsAreAnswered`, `DrainComesToAnEnd` | for any boxes, threads, requests, tokens and slots: types; tokens that do not change under a thread inside `tokens_lock`; one place per slot; one pending request per token; no request lost; every pass of the drain loop comes closer to its end |
| `OnlyOwnRegionsAreOpen`, `StacksAreKept` | for any tables, regions, pages and at least two slots to rotate through: the MPU holds regions of the active box and box 0 only, and no fault evicts the memory of the box |
| `BoxesAreLaidOutSoundly`, `BoxesNeedTheLeastMemory` | for any number of boxes, any sizes that fit an MPU region and any start: memory of boxes is aligned, apart and within bounds; the sections as they are laid out end below the guard if their sizes are multiples of four and before the end of the guard otherwise; the stack has room above it; and no other order of the boxes would end lower |
| `PagesAreMpuSubregions` | for any heap bounds, page size and page limit: a page is exactly one subregion of an aligned region |
| `KernelInvariant`, and from it `TypeCorrect`, `CodeRunsInItsBox`, `StacksAreOwned` | for any boxes, threads, IRQs, priorities and depths |
| `RpcTypes`, `OutgoingInvariant`, and from it `OneWaiterPerCall`, `FreedSlotsAreQuiet`; `NoMessageIsLost` | for any boxes, threads, gateways, calls and outgoing slots, and up to 251 incoming slots |
| `IncomingInvariant`, and from it `CallsInFlightCorrespond`, `ResultsReachTheirCallers`, `FunctionsRunOnce`, `ServersRunTheirGroup` | for the same, if no function of a box is served by two threads (`SeparateServers`): one slot of the callee per call in flight, the caller's own result, one execution per call, of the right group |

*Pool.*  Mutual exclusion follows from `LockDiscipline`: the lock is taken exactly
while one thread is inside, and what that thread read is still the pool.  That no
slot has two owners needs the lists: a dequeue returns what the links say.  The
invariant `PoolInv` therefore says, without recursion, that the queue *is* an
injective sequence of slots linked both ways (`QueueIs`) and that the free list
never leads to a slot twice (`FreeListLinked`).  Each operation gives the new
sequence: appended, without its first, its last or a middle element.

`ListFrom`, by which the refinement reads the abstract queue, follows the links with a
recursive function.  `ChainIs` shows what it computes: the sequence of `QueueIs` solves
the recursion, and a solution that differs from it has a least index at which it differs,
where the recursion leaves no choice.  Hence the list read from the head is that
sequence (`ListIs`), and `HelperRefines` maps each helper to one action of `PoolSpec`:
`Append` for an enqueue, `RemoveAt` for a dequeue.  A step of a thread is a step of
`PoolSpec` because the pool that it read is still there when it writes (`StepDid`).
`NoSlotIsLost` adds to `PoolInv` that the free list is one list of all free slots, that
`num_allocated` counts the others and that whatever is out has a holder (`ConserveInv`);
`FreeListLinked` alone would allow a cycle of free slots beside the list.

*Pages.*  `PageInv` joins four facts that need each other: the usage map is the
union of the owner maps, so a page that malloc takes is in nobody's map; two boxes
share only pages of box 0; the MPU opens pages of the active box or of nobody, so
a page that changes hands is not open to the previous owner; and an allocated page
holds data of its owners only, because it was zeroed when nobody else could write
it any more.  The counter is right because the pages that malloc takes are as many as
it subtracted (`LeastAreCounted`: the first *n* of at least *n* unused pages are *n*)
and because each page that free accepts was in use.

*vIRQ.*  `VirqInv` says that an enabled IRQ has an owner, that nothing of a box in
a section is enabled, that what will be restored is due, and that the box at each
level of the ISR stack is the owner of that level's IRQ.  The first three need
each other, since a call that registers an IRQ could otherwise bring an enabled
one into a section.

*IPC.*  `TokensAreStable` rests on `LocksExclusive`, that two threads of a box never
hold the same lock, and on `TypeOK`, by which a thread that holds a pool lock does
not hold the token lock as well; the core delivers only when it can take the token
locks of both boxes.  `SlotsAreUsedOnce` needs that the slots on the free list, in the
queue and with threads that are about to enqueue are pairwise apart (`SlotsApart`), and
`TokensStandForOneRequest` the same of tokens over both queues of a box, which are
allocated and not completed, while a completed token is always allocated (`TokensApart`):
a wait gives back completed tokens only.  `DrainComesToAnEnd` needs that the slot at
which the loop started is not one that the loop gave back (`FirstInv`).

*vMPU.*  What the MPU holds, and what is still to be pushed, are regions of the active
box.  For the stack region the invariant is about priorities: all are 0 when the region
of priority 255 is pushed, and when the last slot written is the one with 255 all others
are empty, so that the search for a slot, which starts after the last one written,
ends at another (`StackInv`).

The layout is proved along the code.  `SramIs` is the arithmetic of one box: six of the
eight subregions hold what it asked for, so that with the sections rounded up and the guard
there is room for the stack, and the guard is at least 32 bytes (`Split`).  `SectionsSplit`
adds the layout of the sections: two of the sizes are rounded before the last section
starts, which moves it by at most six bytes, less than the guard.  `VisitedAll` says that the recursion over permutations visits
every one and nothing else: by induction from the last position down, the orders visited
from position *k* on are those that leave the positions below *k* in place (`Fixing`), since
each is a swap of *k* with a later position applied to one that leaves *k* in place too
(`SwapFixes`).  Hence the order chosen is a permutation and none ends lower
(`OrderIsBest`).  `LaidOut` is the invariant of boot: the boxes configured so far lie where
`SramEnds` puts them in that order, and `mem_pos` is where they end.  It needs that a box
that passes the sanity check has sections at all, without which there is no guard, and
asks for at least `MIN_STACK_SIZE`: the search takes the
stack size as it is while `vmpu_acl_sram` raises it, and without the check the two would
disagree.
That a recursive function of the model exists and what it computes is shown by hand, by the
least index at which it could fail (`Upward`, `Downward`, `SramEndsExist`,
`VisitExists`).  `PagesAreMpuSubregions` is
arithmetic: `PageHeap_proofs` shows that the heap starts at a multiple of the page size,
that the shift makes page and subregion numbers agree modulo eight, and that neither
the clamp nor the eight-bit count makes a page number outside the maps.

*Kernel.*  As long as nothing has halted and no thread was refused a slot (`Normal`),
there is one saved state for each code but the one that runs, of the box of that code and
with a stack pointer into a stack of that box; every recorded stack pointer of a box is in
a stack of that box; the chain of box initialisations runs on top of boot code, with
interrupts masked and nothing else suspended; threads have different slots, each
with the box that created the thread; and the heap of a box, while a thread of it runs, is
that thread's, the box's or none.  Without the part about the chain, an interrupt could leave the chain's
last step with another box's state on top.  After a halt only the types are claimed: with a
debug box, handlers go on after a failed check.

*RPC.*  A slot of an outgoing pool is free, in the queue, on its way or in the hands of
the thread that frees it, and its state, its semaphore and its wait cookie must agree with
that.  `OutInv` says so: the semaphore is posted only when the result is there; a queued
slot is ready to send; a wait cookie in a slot names that slot; of the cookies that were
handed out, none is that of a free slot or of a slot that somebody waits for.  Hence a
stale or spent cookie finds nothing to wait for, which is `WaiterUnique`, and the slot
that a waiter frees is `done`, which is `FreeSlotsQuiet`.  Two hypotheses are in `TypeInv`:
what a thread remembers fits the place it is at, and the counter of every cookie is one that
the box has used.  None of this depends on how the callee serves its incoming pool.

On the other side, the incoming pool of a box holds two queues in one set of links.
`PoolHolds` says what the links of a pool with given sets of slots in its queues must be.
In place of sequences it has a rank for each slot that grows along the links, which
suffices: an enqueue gives the new slot a higher rank, a dequeue keeps all ranks, and a
search of the todo queue ends in a slot of that queue or nowhere (`FindIn`: of the ranks at
which it could have left the queue there is a least).  Which queue a slot is in is told by
the state of its message (`QueuesOf`): `sent` before the function has run, `done` after.

`InInv` joins this with the calls.  A call is known by its box and its counter, and the
message carries both.  The counters of a box's messages differ and are not above the
box's counter (`CallsDistinct`, `MessageOK`, `CounterOK`); a busy slot holds the copy of
a message that is marked as sent to this box (`CopyOK`), a sent message has a copy
(`HasCopy`), and no call has two (`CopiesDistinct`).  A call that is ready or whose copy
is not done has not been run, which makes `RunAtMostOnce` inductive; a result is
the arguments of its own call, which is carried from the copy to the message and to the
waiting thread (`CallerOK`).  A server that has found a slot finds it still in the todo
queue, and one that has dequeued it keeps it (`ServerOK`).  That last part is where two
threads that serve the same function would be in each other's way: a slot that the first
has run is in the done queue when the second dequeues it, as `rpc_twice` shows.  Hence
the hypothesis `SeparateServers`, which the instance of the run `rpc` satisfies.  Under
it the comparison of `drain_result_queue` never fails: a result that is taken from the done queue always frees its slot.

**Assumptions of the proofs** are those of the modules (`PageAssumption`,
`VmpuAssumption`, and so on), which TLC evaluates on the instances: sizes that are
positive, tables that are sequences, secure boxes whose memory fits the largest MPU
region (`SizesFit`), page maps as long as `page_allocator_config.h` makes them and
numbered by a byte, slots numbered by a byte (`NumIn` up to 251, as
`UVISOR_POOL_MAX_VALID` demands), threads of boxes that exist.  Where a theorem has a
further hypothesis (no search by threads, no free of shared pages, `SeparateServers`),
its statement says so.

**Model-checked only.**  `LockReleased`, `BoxInitCompletes` and `AccessServed`
(liveness).  Every invariant and action property of the passing runs is a theorem.

## 5. Observations

What the violation runs show is under "findings" in `PROJECT.json`.  Reading the code
against the models showed more, which no run is spent on:

- A free that returns an error has freed the entries before the bad one
  (`page_allocator.c:256`; `docs/lib/manual/UseCases.md:70` says that the table is
  checked first).
- The first `disable_all` of a box clears `was_enabled` of all other boxes' IRQs
  (`virq.c:181`), so that the `enable_all` of a box inside its own section restores too
  little; `virq.c:218-220` says that it re-enables what was enabled before or during the
  section.
- Vector 0 keeps the IRQ registered to the box (`virq.c:117`; `docs/lib/API.md:291` says
  that it is deregistered).  `OwnershipStable` would allow either.
- An IRQ that a box disables inside its section is enabled at the end of it.
- `rpc_fncall_wait` spends the wait cookie before it waits and does not put it back after a
  timeout (`api/src/rpc.c:187`): no later wait gets the result, and the slot is never freed.
  `docs/lib/manual/UseCases.md:681-689` repeats the wait until it succeeds, which it then
  never does.
- The drain loops end when the first slot comes round.  The IPC loop keeps waiting for
  it when that message was dropped (`core/system/src/ipc.c:264`), the RPC loop when it
  was dropped or delivered (`core/system/src/rpc.c:230`): messages that cannot be
  delivered are then put back for ever, with nothing able to preempt the loop.
- Box memory is computed from the sum of the section sizes (`vmpu.c:365`) while the
  sections are laid out rounded to four bytes (`vmpu.c:282`).  Sections of 31 bytes and 1
  byte fill a subregion of 32 by their sum, and the second starts in the guard, although
  `vmpu_armv7m.c:348-349` sets a subregion aside for rounding.  `LayoutSound` says how far
  this goes: never over the guard, and not at all if the sizes are multiples of four.
- A write to a read-only region, or an access to the guard, finds a region
  (`vmpu_armv7m.c:111`), counts as recovered and faults again, for ever; so may an access
  that only the second of two overlapping ACLs allows.
- Without a secure box `__vmpu_order_boxes` finds no order and the size stays
  `UINT32_MAX`: boot halts (`vmpu_armv7m.c:579`).
- A box id is an index into the chosen order (`vmpu.c:415`), but into the configuration
  table in `box_init_v7m.c:191`, `core/system/src/rpc.c:77` and `vmpu.c:629`: they differ
  when the order is changed.
- A box that is not the debug box can reboot the system: the halt returns and the reset
  follows (`debug_box.c:28`; `docs/lib/DEBUGGING.md:126`).  A second registration replaces
  the debug driver in the same way.
- A thread that finds the thread table full, or whose slot was freed, runs in whatever box
  is active (`thread.c:81`, `:119`).
- A thread with an allocator of its own whose box gets its heap while the thread runs goes
  on with the heap of the box until the next switch (`rtx_malloc_wrapper.c:90`).
- An ISR of box 0 before the RTOS starts is put at the boot-time stack pointer of box 0,
  over what the boot code has in use since.

## 6. Not modelled

- *Register gateway*: one handler without state; its conditions could be restated, not
  explored.
- *Bus fault recovery, fault classification and the public address checks* of `vmpu.c` and
  `vmpu_armv7m.c`: decoding of one instruction and comparisons with linker symbols.
- *ARMv8-M port*: needs the secure and non-secure state of the processor; pools, pages,
  IPC and RPC are shared with ARMv7-M.
- *Kinetis MPU port*: register programming of one vendor.
- *Secure allocator*: the heap algorithm is the RTOS library's; which heap is active is in
  `Kernel`.
- *SVC dispatch, assembly wrappers, printing, boot code that copies tables, linker and
  platform files*: no state of their own.
- *Boxes that corrupt their own queues* (`is_valid_queue`), and the bytes of messages.

The source tree holds some 54 000 lines, of which about 11 000 are uVisor's own; the
rest are vendored CMSIS and device headers, which hold no logic of the system.  The
models cover the ARMv7-M core's state machines.

## 7. Plan

ARMv8-M scheduler and vIRQ, and allocators over pages, as models of their own.
