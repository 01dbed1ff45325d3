# ucore in TLA+

A model of the teaching kernel ucore as it stands in this repository: what its
parts promise, how the code keeps the promise, which instances TLC has checked
and which theorems TLAPS has proved. The repository holds several labs, each a
copy of the kernel at one stage; a part is modelled from the lab that has its
most complete code.

## 1. The system

ucore runs on one CPU. Processes interleave only where the kernel calls
`schedule()`: an interrupt taken in the kernel may set flags and wake processes
but never takes the CPU away, and `trap()` reschedules or exits only on its way
back to user mode. Sections between `local_intr_save` and `local_intr_restore`
also keep interrupts out. What is hard follows from that:

* state that is checked, then left alone over a `schedule()` or a call that may
  sleep, and used again (`do_wait`, `dev_stdin_read`, `vfs_open`);
* interrupts between marking a process asleep and switching away from it;
* intrusive lists and trees shared by several operations (siblings, run queue,
  timers, free pages, free blocks, the skew heap), where one wrong pointer shows
  much later;
* references counted on one path and given back on another (`mm_count`,
  `ref_count`, `open_count`);
* arithmetic at boundaries: pids that wrap, block sizes, timer differences,
  strides, ring positions, the index of a file, numbers in print.

| Component (source) | State | Operations | Must hold | Modules |
|---|---|---|---|---|
| Process table (`Lab5/kern/process/proc.c`) | `proc_struct`s, `proc_list`, hash lists, family links, `mm_count` | fork, exec, exit, wait, kill, yield, init_main | families exact, nobody waits for nothing, every orphan reaped, address spaces counted | `Proc`, `ProcProofs` |
| Pid allocator (`get_pid`) | `last_pid`, `next_safe` | the scan of `proc_list` | fresh pids, the scan ends | `GetPid`, `GetPidProofs`, `PidAlloc` |
| Scheduler of Lab5 (`sched.c`, `trap.c`) | `current`, `need_resched` | `schedule`, `wakeup_proc`, timer | the CPU goes to processes that can run, all of them | `Proc` |
| First and best fit (`lab2/kern/mm/default_pmm.c`, `best_fit_pmm.c`) | free list, page flags, `nr_free` | init_memmap, alloc, free | free and held pages disjoint, list coalesced | `FreeList`, `MemoryProofs`, `PageAlloc` |
| Buddy allocator (`lab2/kern/mm/buddy_system_pmm.c`) | lists per order | split, merge | blocks tile the memory, buddies adjacent and whole | `Buddy`, `MemoryProofs` |
| SLOB `kmalloc` (`Lab5/kern/mm/kmalloc.c`) | circular free list, big blocks | kmalloc, kfree, ksize | one circle by address, one owner a block, the pages taken divided, room enough | `Slob`, `MemoryProofs` |
| Virtual memory areas (`lab3/kern/mm/vmm.c`) | sorted list, `mmap_cache` | insert, find, destroy | sorted, disjoint, cache valid | `Vma`, `MemoryProofs` |
| Page faults and swap (`lab3/kern/mm/vmm.c`, `swap.c`, `swap_clock.c`, `pmm.c`) | page table, clock hand, swap slots | fault, swap in, swap out | memory keeps what was written | `Swap`, `SwapProofs`, `PagedMemory` |
| Scheduler framework, round robin and timers of lab8 (`sched.c`, `default_sched_c`) | run queue, time slices, timer list | wakeup, schedule, add/del_timer, run_timer_list | queue exact, timers punctual, no starvation | `Sched`, `SchedProofs`, `TimerService` |
| Stride class (`lab8/kern/schedule/default_sched_stride.c`, `libs/skew_heap.h`) | skew heap, strides | enqueue, dequeue, pick, tick | heap exact, least stride first although strides wrap | `Stride` |
| VFS (`lab8/kern/fs/vfs`, `devs/dev.c`) | inode counts, bootfs, mounts, working directories | open, create, close, chdir, getcwd, bootfs, mount, unmount | counts cover the holders, leaks only where the code leaks | `Vfs`, `VfsProofs` |
| Console input (`lab8/kern/fs/devs/dev_stdin.c`) | ring, wait queue | write by the interrupt, read | no lost wakeup, order of characters | `Stdin`, `StdinProofs` |
| Library (`lab8/libs/printfmt.c`, `string.c`) | none | print, strtol, memmove | what is printed reads back, overlaps copied | `Lib` |
| Shell (`lab8/user/sh.c`) | line, argv, descriptors, child processes | readline, gettoken, runcmd | words as typed, commands in turn | `Shell` |
| Image tool (`lab8/tools/mksfs.c`) | inodes, index caches, free map | allocate, append, add_entry, close | image exact and read back | `Mksfs` |

`PROJECT.json` lists every component with its status, and every hazard with the
property that watches it.

Components meet as follows. `do_fork` calls `get_pid`: `Proc` picks any pid that
`PidAlloc` allows, and `GetPid` is shown to implement `PidAlloc`. Handlers of
`Proc` call `wakeup_proc` and `schedule`, which are inside its actions. In lab8
the device sleeps through `schedule()` and is woken through `wakeup_proc`:
`Sched` shows that a process that can run gets the CPU, and `Stdin` assumes just
that as its fairness. The shell reads the lines the device delivers. In lab3 a
fault calls `alloc_pages`, which calls `swap_out` when the page allocator has
nothing left; allocator, replacement list and page table meet in `Swap`, whose
pages are those that `find_vma` (`Vma`) would find. `mksfs` makes on the host the
image that a disk of the VFS holds.

## 2. The modules

**`Proc`** (run from `MCProc`, and with `GetPid` from `MCLive`). One action per handler
from one scheduling point to the next; `pc` says at which point each process stands. The
control is all there: the order of tests in `do_wait`, the loop of `do_exit` one child
at a time, the asserts and panics (`halted`), a fork that fails for want of memory or
processes, exec dropping a shared address space, the timer arriving at any user step.
Family links are the fields `cptr`, `yptr`, `optr`, with the pointer updates of
`set_links`, `remove_links` and `do_exit`. `schedule` walks `proc_list` from the current
process, wrapping past the head. Abstracted: address spaces are identities with a count,
pids any free one, exit codes, names, trapframes and stacks left out; the hash lists are
one set. `do_exit` gives its children away with interrupts off; the loop is split into
steps so that its intermediate states are seen, and nothing can run between them.

**`GetPid`**: the loop of `get_pid` element by element, `proc_list` being the
sequence that `set_links` and `remove_links` leave. **`PidAlloc`**: a pid is
handed out that no live process has; it counts processes as well, so that a
duplicate pid, which leaves the set of live pids as it was, is no step of it.

**`FreeList`**: the list with its `next` and `prev` pointers, `property` fields and
`PG_property` flags; `ListAdd` and `ListDel` are those of `list.h`, the loops over the
list are taken over the nodes its pointers reach. `search`, chosen at the start, is
first or best fit, the two files sharing all else. `users` counts who believes to hold a
page. **`PageAlloc`**: the pages handed out were free and adjacent, and no other page
changes hands.

**`Buddy`**: `property` and `PG_property` as the code keeps them, a page being its
place in the array of structures; `BuddyOffset` is the exclusive-or of byte offsets
that `get_buddy` computes, `mem_begin` being where the array begins; `Xor` takes it bit
after bit, over the `WordBits` of a `size_t`. Merging is one step per pair; the model
stops at a wrong merge (`MergeWrong`).

**`Slob`**: `slob_alloc` and `slob_free` on the circular list, whose start `slobfree`
moves with every call; headers, units and alignment to units are kept, addresses count
units. `Ksize` is what `ksize` tells of a small block, header included, and `Room` what
is behind the header. `kmalloc` takes whole pages for what does not fit into one, with a
`bigblock_t` that comes from the same list; an assertion that fails is `panicked`. The
contents of blocks are left out. **`Vma`**: the sorted list of areas and `mmap_cache`;
an assertion that fails is `halted`. **`MCMemory`** runs the four of them and `Swap`,
one at a time (`which`).

**`Swap`** (run from `MCMemory`). One action per way
through `do_pgfault`: first touch, swap-in, a fault on a page that is mapped already, an
address in no area. The kernel's own allocations may take a frame and force a page out
as well. An entry is 0, a frame or a slot number. `IsVictim`, `Passed` and `MovesHand`
are the loop of `_clock_swap_out_victim`: where the hand starts, which frames lose their
`visited` bit, where it stops. A victim is unlinked but the hand stays on it, so `stale`
keeps the pointer `list_del` left in it. Nothing runs between the steps of a handler
(interrupts are off), so each is one action. Abstracted: contents of pages are a few
values, page tables are in place, there is one `check_mm_struct`, and the TLB is left
out. **`PagedMemory`**: a page has some content when first touched, and only stores
change it.

**`Sched`**: `wakeup_proc`, `schedule`, `add_timer`, `del_timer`,
`run_timer_list` and the round-robin class. The process and trap code of lab8 is
not in the repository, so the processes that call the scheduler are external;
what they do is what `sched.c` and `dev_stdin.c` need them to do (mark, let
interrupts in, `schedule()`, and afterwards delete the timer, which lives on the
stack). **`TimerService`**: a timer set for n ticks goes off at the n-th.
**`Stride`**: the class that the build of lab8 takes (`default_sched_c` has no `.c`
suffix), with the left, right and parent pointers of `skew_heap.h` and its merge as
they are, and words of `Width` bits. `stride_pick_next` adds to the stride of the
root while it is in the heap; `schedule` then takes it out. `LongSleeps = FALSE`
says that a process that slept is woken while its stride is within BIG_STRIDE of
the runnable ones: `stride_enqueue` keeps the old stride, so after a sleep of more
than 2^31 it would sort on the wrong side, and the class has no defence against
that. **`MCSched`** runs one class or the other, as `sched_init` picks one for good.

**`Vfs`**: every path of `vfs_open`, `vfs_close`, `vfs_chdir`, `vfs_getcwd`,
`vfs_set_curdir`, `vfs_set_bootfs`, `vfs_mount` and `vfs_unmount` with what it does to
`ref_count` and `open_count`. The kernel is not preempted and what is done under
`vdev_list_sem` or the lock of a `files_struct` is one step, so another process runs
only where a call into the file system or a `down` may sleep; `pc` says where a call
stands. Nothing sleeps under `bootfs_sem`, so its `down` never waits, and the test of
`bootfs_node` before it (`vfs.c:82`) and the one under it see the same. `sfs` is not in
the repository: it answers as `inode.h` allows, failures included. `HeldAt` says what
each place that can hold a reference holds. An inode whose count comes to 0 goes to
`vop_reclaim`, which a device does not have (`halted`). `CreateFails` is the path on
which `vfs_open` goes on with a node that nobody has set; the model stops there.
**`Mksfs`**: a step copies a block, adds an entry, or enters or leaves a directory; the
index caches `l1` and `l2` are kept and written at the end, as in the program. Names are
values, hash chains left out. **`MCFiles`** runs either.

**`Stdin`**: the keyboard interrupt and any number of readers, each section with
interrupts off being one step. The wait queue is external. **`Lib`**: `printnum`,
one conversion of `vprintfmt`, `vsnprintf`, `strtol`, `strnlen`, `memmove` as
functions; the state is the last call with its result. **`Shell`**: `readline` and
the processes that take the line apart with `gettoken`, which writes zeros into it;
a word is a position in the line of its process and reaches to the next zero, so
that what the program really gets is seen. `WordsExact` speaks of the arguments, which
are used after the whole line has been read; the name of a redirection is used at once,
and is not the word (finding 6). **`MCConsole`** runs one of the three.

`GetPidProofs`, `ProcProofs`, `StdinProofs`, `SwapProofs`, `MemoryProofs`, `VfsProofs`
and `SchedProofs` hold the proofs; `ListLemmas` holds what several of them need: what
pushing, inserting, removing, cutting and joining do to a sequence, its range and its
injectivity, and how a function defined place after place is reasoned about.

The MC modules put components side by side that do not run on each other: their states
add, they do not multiply, and one run answers one question (is memory divided exactly
and does it keep what was written; does the right process run; does a key become a
command; are files right). A property of such a run names the property of its part.

## 3. What TLC checks

| Run | Instance | Properties |
|---|---|---|
| `live` | get_pid: 4 live processes beside idle, pids 1..7; processes: initproc and 3 more, one shared address space; fair | `Inv` (with `UniquePids`), `AllocatesFresh` (implements `PidAlloc`), `ScanEnds`, `RunnableRuns`, `OrphansReaped` |
| `proc_safety` | initproc and 4 more pids, 3 address spaces, shared and copied, all may be killed | `FamilyInv` (with `IInv`), `MmCounted`, `ChildLists`, `ParentsAlive`, `NoLostWakeup`, `CurrentMayRun`, `NeverAllAsleep`, `InitCheckPasses`, `ReapedByParent` |
| `proc_kill` | the processes of `live` | `KilledDies`, violated (finding 1) |
| `memory` | 9 pages for first and best fit, 8 for the buddy blocks, 3 for kmalloc, addresses 0..5 for areas; paging of 4 pages (one read-only) on 3 frames, 3 slots, 2 values | `FitExact` (free list), `BuddyExact` (buddy blocks), `KmallocExact` (`CircleExact`, `OneOwner`, `PagesDivided`, `RoomEnough`), `MmapExact`, `KeepsPromise` (`FreeList` implements `PageAlloc`); `IInv`, `PagingInvisible` (implements `PagedMemory`), `NewestStays` (paging) |
| `freelist_tail` | 5 pages, the last one included | `NoDoubleAllocation`, violated (finding 2) |
| `buddy_merge` | 8 pages | `BuddyIsOtherHalf`, violated (finding 3) |
| `kmalloc_short` | the heap of `memory` | `RoomForAll`, violated (finding 5) |
| `sched` | 3 processes; slices of 2, sleeps up to 3, fair; strides of 3 bits, priorities 1 and 2 | `QueueExact`, `TimersExact`, `KeepsTime` (implements `TimerService`), `RunnableRuns`, `SleepersReturn`, `StrideExact`, `PicksLeast` |
| `files` | 2 processes with one `files_struct`, a disk, a device, a name; images of 3 and of 27 blocks | `RefsExact`, `OnlyCreateLeaks`, `ImageExact`, `ReadsBack` |
| `created` | 1 process | `MakesWhatWasNamed`, violated (finding 4) |
| `console` | 2 readers, ring of 2, 4 characters, fair; longs of 6 bits; lines of up to 5 characters | `IInv`, `InOrder`, `NoLostWakeup`, `CharactersRead`, `LibraryExact`, `WordsExact`, `InTurn` |
| `redirect` | lines of up to 5 characters | `FileIsWord`, violated (finding 6) |

Why the bounds are enough.

* *live*: with pids 1..7 and four processes the window closes, the candidate
  wraps and a scan restarts more than once.
* *proc*: MAX_PROCESS = 5 leaves room for three user processes beside idle and
  initproc. A process with two children, and initproc with all three once it has
  adopted them, make every place in a sibling list (head, middle, tail, only child)
  and every kind of adoption occur; the fourth pid lets a pid be used afresh before
  an old one comes back. Pids and address spaces are interchangeable in
  `proc_safety` (symmetry); `live` uses no symmetry, and one shared address
  space keeps it small and lets copies fail.
* *memory*: nine pages hold a held block between two free ones on either side, so
  all four cases of merging occur with splits of every size. `Exhausts = FALSE`
  keeps the callers from ever taking the last page, because the code is wrong beyond
  that (finding 2): what this run shows of the list holds for a kernel that leaves
  the last page alone. Eight buddy pages split three times and are requested in
  sizes that are and are not powers of two; with structures of 40 bytes the
  exclusive-or is right for pages 0 and 1 and for the halves of the memory, so right
  merges of several orders happen before a wrong one stops the model. A page of
  kmalloc is six units of two bytes: blocks of two and four units and the headers of
  big blocks are split from the front of free ones and joined before, behind and on
  both sides, 8 bytes run into the assertion of `slob_alloc`, 12 bytes take a page,
  and 23 and 25 bytes are on either side of two pages: 25 are halved to 12 and get two, one
  byte short (`kmalloc_short`). Three
  areas leave room for one before, between and after.
* *memory*, paging: three frames leave the hand at the head, in the middle, at the end and off
  the list, and the kernel may take one, two or all of them (the model stops at "no
  victim" when none is left to swap out); the fourth page makes somebody leave, and
  its own slot is one the disk does not have. `NewestStays` speaks of a page that
  was brought into the frame of another: one that was brought into a free frame,
  with the hand just before it, may indeed be the next to go.
* *sched*: three timers give a new timer before, between and behind others and ties.
  Strides of three bits wrap after a few turns; three processes make a heap with two
  children and one with a chain, so that every kind of merge occurs. Only the root is
  ever taken out: `schedule` calls `stride_dequeue` on the pick alone, so the branch of
  `skew_heap_remove` for a node with a parent is not exercised.
* *files*: a second process is enough to change the shared directory, the boot
  directory or the mounts at any place where the first may sleep, and to create or
  open the same file. `MaxLeaks` stops opens with O_CREAT once two references have
  leaked or may leak; two leaks on one inode and on different ones both occur. The
  image of 27 blocks holds a file with one direct, two indirect and three doubly
  indirect blocks and its index; one of 3 is too small for anything; free maps of 8 bits
  make several map blocks and a last one that is used in part.
* *console*: four characters make a ring of two wrap twice and overrun. Longs of six
  bits are printed with every sign, base and padding at their least and largest
  value, in fields and buffers that are too short, just right and too long. Five
  characters make a line with two commands and a redirection; a sixth does not fit.
  `redirect` takes the same lines.

The runs stop in no state the code cannot leave, except where a loop over a corrupt
list does not end: `CHECK_DEADLOCK FALSE` is in `freelist_tail` only. A run that expects
a violation checks one property; the trace TLC prints is the finding.

Each property has a mutant in `PROJECT.json`, those that speak of two parts one for
each: a plausible slip in one definition (a dropped reset, an off-by-one, the wrong
end of a list) under which the run reports that property violated. The definitions
are in the modules, marked *Mutant*.

## 4. Fairness

`MCLive.LiveSpec` (`Proc.FairSpec` in `proc_kill`) and `MCSched.ClassSpec` (for the
round robin): weak fairness of the
kernel's own steps (a handler that has begun goes on; nothing in it blocks but
`schedule()`), and strong fairness of the timer. The interrupt controller keeps the
timer pending while interrupts are off, so it is taken when user mode is entered
again, and it comes back at every tick; being enabled again and again is therefore
enough for it to happen. The scan of `get_pid` runs with interrupts off, and goes on.
No fairness is assumed of user programs: they may loop for
ever. `MCConsole.ConsoleSpec`: weak fairness of a reader's call of `schedule()`, and
strong fairness of `Back(r)`, its return to a reader that can run; strong because
another reader that has the CPU disables it again and again, and `RunnableRuns` is
the justification. `Stride`, `Vfs`, `Shell` and the rest have safety properties only:
what `PicksLeast` and `StridesClose` say together is that nobody is passed over for
more than BIG_STRIDE, and the calls of `Vfs` wait for a file system about which
nothing is known.

## 5. What is proved

Every theorem holds for all values of the constants that satisfy the modules'
assumptions: any number of processes, pids, address spaces, readers, files, any ring.

* `GetPidProofs`: `GetPidCorrect` (`Inv`), `PidsAreUnique`, and `ImplementsPidAlloc`:
  every step of the code is a step of the abstract allocator or changes nothing it sees.
  `UniquePids` is not inductive: the call that trusts the cached window needs
  `WindowIsFree` (no live pid strictly between `last_pid` and `next_safe`), and a scan
  on its way needs `ScannedIsFree`, the same for the part of the list it has passed.
  `ListLemmas` has the facts about sequences used for the list.
* `ProcProofs`: `ProcCorrect` proves `IInv` over every action, and with it
  `CurrentAlwaysMayRun`, `WaitersSleep`, `TablesAlwaysAgree`, `MmAlwaysCounted`,
  `KillAlwaysWakes`. The strengthening is `PlacesFit` (where a process stands fits its
  state, so that a sleeper is in `do_wait` and only `current` is on its way out of a
  trap) and `MmOwners` (a process that has begun to exit has no address space), without
  which neither a wakeup nor a drop of `mm` can be shown harmless. `MmCounted` rests on
  lemmas about how the cardinality of the set of owners changes. The second part is
  about the family: `FamilyCorrect` proves `FamilyInv`, and from it follow
  `ListsAlwaysExact`, `ParentsAlwaysAlive`, `WakeupsNeverLost`, `SomeoneAlwaysRuns`,
  `InitCheckAlwaysPasses` and `OnlyParentsReap`. `ChildLists` walks from `cptr` and so
  says nothing that a pointer update could be followed through; the invariant says it
  link by link (`ListsFit`), with the one exception the code makes: in the loop of
  `do_exit` the new youngest child keeps its `yptr` to the sibling just given away. That
  the links reach every child and no others is `AllReached` (every set that holds `cptr`
  and is closed under `optr` holds all children), which replaces induction along the
  list. `ParentsFit` says that a parent is in `do_exit`'s loop at the latest, `NoCycle`
  that among any processes there is one whose parent is elsewhere and one that is
  nobody's parent, `WaitersFit` that what a sleeper in `do_wait` waits for exists and
  has not exited. From the last two comes `NeverAllAsleep`: a waiter waits for a child,
  and a finite family has somebody without one.
* `StdinProofs`: `StdinCorrect` (`IInv`), `NoWakeupIsLost`, `SleepersAreQueued`,
  `CharactersInOrder`. The strengthening is `RingHolds`: slot j-1 modulo the size holds
  the j-th character typed; it is kept because two positions less than the size apart
  use different slots (`SlotsDiffer`).
* `SwapProofs`: `SwapCorrect` (`IInv`) and `PagingIsInvisible` (`Swap` implements
  `PagedMemory`, `mem` being the content of the frame or slot the entry names), and
  `NewestAlwaysStays`. The invariant is `FramesExact` (a frame is free, or linked and
  mapped by the one page its `pra_vaddr` names, or the kernel's; a page that is out is
  in its own slot) with `HandLeadsBack` (the stale hand still leads into the list) and
  `HandVisited` (a hand on the last frame has seen it used: it stays there when that
  frame was swapped out and taken at once for another page), which `NewestStays` needs.
  `AllocFacts` says that `alloc_page`, with the `swap_out` inside it, changes no
  content; it rests on slots being different for different pages.
* `MemoryProofs`, areas: `AreasAlwaysExact` (`MmapExact`). `MmapExact` compares every
  two areas; the invariant adds that none is empty (`InOrder`), from which an insertion
  that the two assertions let through is right against all areas and not only against
  its neighbours (`Inserted` says what `list_add` makes of the sequence, by position),
  and `Known`, that cache and answer are areas of the list. That the cached area is the
  one a search would find follows because no two cover an address.
* `MemoryProofs`, free list: `FreeListAlwaysExact` (`FitExact`), `FreeListKeepsPromise`
  (`FreeList` implements `PageAlloc`) and `NoPageTwice`, for any number of pages, both
  searches and any requests, under the assumption that callers never take the last page
  of memory (`~ Exhausts`). The assumption is needed: beyond it the code is wrong
  (finding 2), and in the proof it is used where a block is put back, to know that a
  free block lies above it. The invariant `FitInv` speaks of the set of flagged pages
  and not of the order in which pointers are followed: `Links` (each `next` is the next
  page of the set by address, each `prev` the one before), `Tiles` (the blocks of the
  set follow each other and cover the free pages), `Coalesced` (no block ends where
  another begins). `DelLinks` and `AddLinks` say what `list_del` and `list_add` do to
  `Links`; `TakenTiles` is the split of `alloc_pages`, `PutTiles` the insertion and
  `MergesTiles` the two merges of `free_pages`, the second on the block the first has
  made. That the loops over the list visit that set, from low to high, and come back to
  the head is counted once, step by step (`WalkBelow`, `WalkReaches`, `WalkReturns`):
  each step goes up by a page at least. That a request is refused only when no run of
  free pages is that long is `RunInBlock`, which is where `Coalesced` counts.
* `MemoryProofs`, kmalloc: `KmallocAlwaysExact` (`KmallocExact`), for any sizes of page,
  unit and `bigblock_t` that `SlobAssumption` allows, any number of pages and any sizes
  asked for. The invariant `SlobInv` has the heap by the set of its blocks again:
  `Circle` (each pointer leads to the next block of the list by address, and the highest
  block's to the arena), `NoneTouch`, and `Divides` (blocks follow each other and have
  exactly the units of the arena and of the pages that are neither free nor a big
  block's). It adds how long each block in use is, which `kmalloc` knows once and
  `kfree` reads from the header, and that big blocks have their pages to themselves
  (`BigsOK`). `CircleWithout` and `CircleWith` say what unlinking and linking a block do
  to a circle, `DividesCut`, `DividesJoined` and `DividesAdded` what the units do.
  `CarvedOK` is `slob_alloc` once it has found a block, `FreedOK` is `slob_free` with
  all four cases of joining. That the loops find what they look for wherever `slobfree`
  was left is `NthVisits` and `PlaceFound`: a loop that takes as many steps as there are
  blocks comes twice to one of them, by counting, and a set of blocks that the pointers
  do not leave is the whole circle (`ClosedIsAll`); so `slob_free` always finds a place,
  and a page that `slob_alloc` has just freed into the list gives it room. `RoomEnough`
  is division: for small blocks, of the bytes behind the header (`Room`) by the unit;
  for big ones by the number of pages (`ShortByLess`), and it says no more than how
  short they may be: `RoomForAll` is violated (finding 5).
* `MemoryProofs`, buddy blocks: `BuddyAlwaysExact` (`BuddyExact`), for any `max_order`,
  any `sizeof(struct Page)`, any width of `size_t` that holds the array, and any sizes
  asked for. `BuddyExact` speaks of the moments between two calls; the invariant
  `BuddyInv` holds in the middle of `free_pages` too: `BlocksOK` (lists, orders and
  blocks in use agree, each block begins at a multiple of its size, and `CoverOnce`:
  each page lies in exactly one block), the block being merged heads a block on the list
  of its order, and `nr_free` and `pnum` together count the pages of the lists.
  `PartsDivide` says that a block split down gives blocks that cover it once,
  `PairJoins` that two halves of a pair are one block of the next order. The step that
  needs care is the merge: `get_buddy` takes the exclusive-or of a byte offset with a
  number of bytes that is seldom a power of two, so it need not be the offset of the
  other half, nor of a page. `XorOfMultiple` and `OtherOfPair` show that where the
  result is a multiple of the block's bytes all the same, it is the other half of the
  pair; a free block of the same order begins at such a multiple, so a merge with one
  (the guard of `MergeBuddies`) is always a merge of two true halves. What is no such
  block is `MergeWrong`, where the model stops: the theorem is about what comes before,
  and `BuddyIsOtherHalf` stays violated (finding 3).
* `VfsProofs`: `ReferencesAlwaysExact` (`RefsExact`). The invariant says what a call has
  in hand at each `pc` (`CallOK`), that directories are directories (`DirsOK`), and
  `Kept`: the counts cover what `Held` lists, and what is referenced is mounted and
  exists. Four lemmas, one for taking, dropping, moving and forgetting a reference
  (`KeptTakes`, `KeptDrops`, `KeptMoves` with `KeptHands`, `KeptForgets`), say that
  `Kept` stays; each step of a call is put together from these, and each rests on
  `OneMoves`, the change of the cardinality of the holders when one place changes.
  `KeptDevices` is the reason why `vop_reclaim` is never called for a device.
  `OnlyCreationLeaks` (`OnlyCreateLeaks`) goes the other way: every step but the two
  named ones changes each count by as much as it changes the number of holders
  (`Balanced`, with a lemma for each way to move a reference and one for each step). For
  this `CallOK` had to say more about what a call has in hand after a failure.
* `SchedProofs`: `SchedCorrect` proves `SchedInv`, and with it `QueueAlwaysExact`,
  `TimersAlwaysExact` and `TimersKeepTime`: `Sched` implements `TimerService`. The field
  `expires` of a timer is what it has left beyond the one before it, so all that is
  known of a timer is a sum along `timer_list`. `AddTimerDue`, `DelTimerDue` and
  `RunTimersDue` say what the loops of `add_timer`, `del_timer` and `run_timer_list` do
  to every such sum: a new timer takes its place, gives its time to the one behind it
  and leaves the others alone; a deleted one passes its time on; a tick takes one off
  each, and exactly those that come to 0 go off, at the front and in order (`DueFirst`).
  Which process may have a timer at all depends on where it stands, so the queue and the
  timers are kept together with `StatesFit`; `AmongIs` says that a woken process is
  queued once.

Two devices stand in for what the provers lack. A function that is defined place after
place (`Due`, `Among`, `Nth`, `PageCount`, `Power`, the sum in `Xor`) is shown to exist
and to satisfy its equations by `BuildsExists` and `BuildsOne` of `ListLemmas`, whose
induction (`PlaceInduction`) is over a set of places, by its least counterexample, so
that no operator is passed as a parameter. And what a walk along pointers reaches is
said by a closed set (`AllReached`).

Only model-checked: everything about liveness, and ENABLED, which are out of the
prover's reach; `Stride`, whose merge is a RECURSIVE operator over the heap, which
excludes theorems; `Mksfs`;
`Lib`, whose results over all inputs would take an induction over data; and `Shell`.

## 6. Findings

1. *Killed and asleep* (`proc_kill`). `do_wait` looks at `PF_EXITING` only after
   `schedule()` returns. A process killed while it is preempted returns to user
   mode, calls wait and sleeps with the flag set; a second kill answers
   `-E_KILLED` and wakes nobody. If its child never exits it never dies.
2. *The last page of memory* (`freelist_tail`). When a block that lies above all
   others is freed, the insertion loop runs on after `list_add`, finds the block
   itself at the end of the list and adds it after itself. Its `prev` points to
   itself, `list_del` no longer unlinks it, and it is handed out twice. The same
   loop is in the first-fit files of lab2 and lab3, in best fit, and in
   init_memmap.
3. *The buddy of page 4* (`buddy_merge`). The exclusive-or is of byte offsets, in an
   array of 40-byte structures: 160^40 is 136, inside the structure of page 3.
4. *A file called after its device* (`created`). `get_device` writes a zero over the
   colon of its path. When `vfs_open` does not find a file on another device and is
   asked to create it, it looks up the parent with the same path, of which only the
   name of the device is left: the file is made under that name in the current
   directory.
5. *A byte too many* (`kmalloc_short`). `find_order` drops the odd byte at each halving:
   8193 bytes get two pages. `RoomEnough` says that a block is never short by a
   byte for each of its pages or more.
6. *The file takes the rest of the line* (`redirect`). `gettoken` ends a word when it
   reads the next token, and `reopen` gets the name before that: `> a b` opens `a b`,
   and `> a ; b` opens `a ; b`.

Seen while modelling and not counted as findings, because nothing in the repository
says what should happen, or because one step shows it:

* When the console ring is full, a new character overwrites the oldest unread one, so
  the order is lost (`InOrder` says "until a character is typed into a full buffer"). A
  reader that is killed and woken may go back to sleep if a key comes first.
* `free_pages` of the buddy allocator looks at the flag of its buddy's first page only:
  with `max_order = 2`, where the offsets happen to be right, `BuddyIsOtherHalf` is
  violated as well, by a block that is merged with a buddy whose other half is in use.
* `do_pgfault` of lab3 gives the page of an area without `VM_WRITE` neither R nor W: the
  access faults again, the entry, now valid, is taken for a swap entry, and
  `swap_offset` panics (`FaultsAgain`; no property speaks of it).
* `ksize` of a small block counts the header in front of it: one unit more than there is
  behind the pointer that `kmalloc` returned. Nothing calls it.
* `kmalloc` hands sizes below a page less one unit to `slob_alloc`, whose assertion
  wants one unit more to spare: a size between the two stops the kernel.
* `vfs_open` leaks: a new file leaves a reference on its directory, and O_EXCL of a file
  that exists leaves one on the file (`OnlyCreateLeaks` says that these are all). The
  answer of `vop_create` is not looked at (`vfsfile.c:44`): if it fails, `node` holds
  whatever was on the stack.
* `mksfs`: `alloc_cache_block` files a new index block under inode 0 in its hash list,
  and `add_entry` writes 256 of the 260 bytes of an entry, which the zeroed block makes
  good. A symbolic link is stored once for each name.
* A redirection stays in force behind a `;`. Behind `|` the descriptors come from an
  array that nobody has set, `pipe` being commented out, and the right side is not
  waited for. `cd` changes the directory string of a child.
* `printfmt`: blanks pad between the sign and the digits, so `strtol` cannot read such a
  number; `-` pads on the left, with dashes, where the comment in the code says on the
  right.

## 7. Not modelled

* Boot code, lab1 (a tick counter) and the set-up of physical memory of lab2 and
  lab3: straight-line code that runs once.
* `swap_fifo.c` and `swap_lru`: `swap.c` installs the clock.
* `dev_disk0.c`: the semaphore that serialises its transfers and the driver under it
  are not in the repository; `dev_stdout.c` only prints.
* `sfs`, the process code, semaphores and wait queues of lab8 are not in the
  repository; they are external where they are used.
* The user programs other than the shell (they are the nondeterministic user steps of
  `Proc` and `Vfs`), the generators `vector.c`, `sign.c` and the grading scripts, and
  the routines of `string.c` that are one plain loop.
* The headers of register and instruction names (`riscv.h`) and the other copies of
  the same files in earlier labs: they hold nothing a model would add to.

## 8. Plan

1. `StridesClose` of `Stride` for every width, with the heap as an abstract set: the
   order by signs is total because strides stay within BIG_STRIDE.
2. `AddressSpace`: `do_pgfault` with `find_vma` of `Vma` before `Swap`, for more than
   one address space, with `dup_mmap` and `exit_mmap` of Lab5.
3. `Disk0`, should the semaphore and the driver be added to the repository.
