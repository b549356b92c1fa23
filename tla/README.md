# EchoOS in TLA+

EchoOS is a small kernel for the LoongArch 3A5000/7A1000 machine: it boots, makes a
heap, starts a timer and a keyboard, and runs a shell with a file system in memory and
an editor. This directory keeps TLA+ models of its parts, the TLC runs that check
them, and theorems about all of them that the TLAPS proof system checks. Paths below are
relative to `src/kernel/`; headers are under `src/include/`.

Run a check in this directory with `tlc -config <X>.cfg <Module>`, the proofs with
`tlapm <Module>Proofs.tla` (those about `Helpers` are in `FsProofs`). `PROJECT.json`
lists the components, the runs, for every definition the lines of C it stands for, the
hazards, a mutant of the code for every property (a definition whose comment begins
"Mutant of"), the findings and the theorems.

## 1. The system

| Part | State | Operations | Who calls it |
|---|---|---|---|
| Kernel heap: `mm/kmalloc.c`, `mm/sys_heap.c`, `mm/bitmap.c` | `sys_heap` (64 MB), one bit of `sys_heap_bitmap` per byte, the static `last` | `kmalloc`, `kfree`, `krealloc`, `kcalloc`, `kmemalign` | `fork`, the buddy tree |
| Scheduler: `sched/sched.c` | `task[NR_TASKS]`, `current`, `jiffies`, `time_n` | `do_schedule` (the tick), `schedule`, `switch_to`, the sleep queues | the timer |
| Fork: `sched/fork.c`, `entry.c` | `last_pid`, a slot of `task[]` | `find_empty_process`, `copy_process`, `fork` | `kernel_entry`, the shell's `test_sched` |
| Shell: `shell/shell.c` | the ring `shell_buf` and its two pointers, `handle_cmd_flag`, `enable_shell`, `cmd`, `cmd_content` | `shell_buf_update` (from the interrupt), `handle_cmd`, `entry_shell` | the keyboard; `kernel_entry` |
| Editor: `app/vim.c` | `file_copy[1000][80]`, cursor, `enable_vim`, `exit_flag`, `vim_file` | `vim_input_handle` (from the interrupt), `create_copy`, `save_file`, `vim_entry` | the keyboard; the shell |
| Keyboard: `drivers/kbd.c`, `drivers/kbdmap.c`, `trap/pckbd.c` | `kbd_status[128]`, the controller's register | `kbd_irq`, `kbd_has_data`, `kbd_read_byte` | the trap handler, the timer |
| Traps: `trap/trap.c`, `trap/extioi.c`, `trap/ls7a_intc.c` | saved registers, ERA and PRMD, the controllers' registers | `trap_entry`, `trap_handler`, `timer_interrupt`, the initialisations | hardware |
| File system: `fs/fs.c` | a tree of folders with 16 + 16 entries, two allocators that only grow | create, delete, move, path lookup | shell, editor |
| Buddy tree: `mm/buddy.c`, `mm/malloc.c`, `mm/mm.c` | a tree of nodes with a state | `buddy_alloc`, `buddy_free`, `malloc`, `free` | nobody but `mem_init` |
| Boot parameters: `boot/boot_param.c` | the firmware's lists | list search, checksum | its call is commented out |
| Helpers: `utils/string.c`, `utils/memory.c`, `sysio/io.c` | none | comparison, split, formatting | everywhere |

There is one CPU. After `entry_shell` enables interrupts, the shell's code is
interrupted by the timer and the keyboard; a handler runs with interrupts off. All
communication is through unprotected globals: the keyboard writes the shell's ring
and flags and the editor's copy of the file while shell and editor read them; the
timer reads the task table while `fork` fills a slot of it; keyboard and timer both
read the keyboard's controller; the heap's `last` is shared by all allocations.

As it is written, the kernel does not get that far: `kernel_entry` goes on to the shell
only if `fork()` returns 0 (`entry.c:40`), and `fork()` returns a slot, which is 1 or more,
or -1 (`fork.c:208-215`). It prints "init first process failed!" and returns, with interrupts
off. The run `sched_boot` reports this. `Sched` has both readings of the test; `Console`,
`Editor`, `Keyboard`, `Fs` and the ticks of `Trap` and `Sched` model the kernel from the shell
on, which is the kernel whose test is taken as it was meant.

What makes each part correct, and what makes that hard:

* **Heap.** No two blocks overlap, the bitmap is exactly what is held, a free releases
  exactly what was reserved, an allocation fails only without room. Hard because two
  searches with different granularity share `last` and may cross the end of the map,
  and because `free` recomputes from the client's address and size what `alloc` did.
* **Scheduler and fork.** The tick chooses the right task and ends, whatever half-made
  task it meets; a fork that fails gives everything back. Hard because the slot is
  published (`fork.c:92`) before it is filled and ticks come at every step.
* **Shell.** What the shell executes is what the user sees; every Enter is served; the
  line buffer is never overrun. Hard because the drain loop (`shell.c:82-87`) and the
  interrupt share two pointers, which the compiler may keep in registers.
* **Editor.** ESC leaves it and saves into the file being edited, whenever it comes.
  Hard because `vim_entry` sets its handshake flags and opens the file while the
  interrupt already acts on the flags.
* **Keyboard.** The key that is delivered is the key that was pressed, with the right
  shift state; no key sticks; the keyboard never goes deaf. Hard because a key is up to
  three bytes, several keys share a number, the second read after a break prefix is not
  guarded, the handler may find half a key or none, and the timer throws away bytes.
* **Traps.** An interrupted computation resumes where it was with its registers. Hard
  because interrupts are on again before the registers are restored.
* **File system.** The names form a tree and an entry refers to storage of its own.
  Hard because deletion and moving leave stale entries.
* **Buddy tree.** Blocks in use are disjoint. Hard because allocation and merging look
  at one level of the tree only.

## 2. The modules

| Module | Models | Runs | Theorems |
|---|---|---|---|
| `KernelHeap` | what a kernel heap promises: a request gets a run of cells nobody holds, or nothing | (abstract specification) | |
| `SysHeap` | kmalloc.c, sys_heap.c, bitmap.c; implements `KernelHeap` | `heap` through `MCSysHeap` | `SysHeapProofs` |
| `Sched` | the tick against fork and its two callers | `sched`, `sched_boot` | `SchedProofs` |
| `Trap` | trap_entry and trap_handler: registers, frames, ERA, PRMD, traps inside traps | `trap` | `TrapProofs` |
| `Console` | shell ring and command loop, opening and leaving the editor, against the keyboard interrupt | `console` | `ConsoleProofs` |
| `Editor` | file_copy, the cursor and scrolling, loading and saving | `editor` through `MCEditor` | `EditorProofs` |
| `Keyboard` | from keys going down to what kbd_irq delivers, with the timer's drain | `keyboard` through `MCKeyboard` | `KeyboardProofs` |
| `Fs` | fs.c, its allocators, and the editor's choice of a file | `fs` through `MCFs` | `FsProofs` |
| `Buddy` | malloc.c over buddy.c | `buddy`, `buddy_lowest` through `MCBuddy` | `BuddyProofs` |
| `Helpers` | string.c, memory.c, printf's numbers and arguments, the firmware's list | `helpers`, `helpers_map` | `FsProofs` |

An MC module adds what a `.cfg` cannot say: the symmetry of the clients, texts, a
relation of names, the keys that share a number. The other modules are their own model-checking modules.

The modules meet where the parts do. `Sched` and `Keyboard` are what `timer_interrupt` does
inside a trap, and `Trap` is the code around it. The key that `Keyboard` delivers is
`Console`'s `Key`; the editor's steps of `Console` (open, find, load, wait, ESC) are around
`Editor`'s cells and cursor and around `Fs`'s choice of the file. `SysHeap` implements
`KernelHeap`; `Sched`'s task structs (a kmalloc that may fail) and `Buddy`'s nodes
(`NodeRoom`) rely on that promise and no more.

### KernelHeap and SysHeap

`KernelHeap` is the promise: `Grant` gives a client any run of cells that nobody holds, with
less than a granule (8) beyond what was asked, `Return` takes it back, `Break` is the end of
the promise.

`SysHeap` is the code. `bitmap` is the set of bits that are set, `last` the static of
`sys_heap_alloc`, `block[h]` the client's pointer with the address and size a kfree
recomputes the run from. Below the threshold of 16, `alloc_bits` searches bit by bit, from
it on `alloc_aligned_bits` searches byte by byte of the map. `Kmalloc` (kcalloc too),
`Kmemalign`, `Kfree` and `Krealloc` are the calls. Where the code reads past the map, any
value is possible (`AnyPast`). kmemalign's mask is taken bit by bit (`Cleared`), so that an
alignment which is no power of two gives what `& ~(align - 1)` gives. Two things end the
model: `broken` (a run across the map's end is marked, or a kfree or krealloc gets an address
that kmemalign moved, which may clear other bits than were reserved) and `hung` (a search that
starts past the map and finds nothing goes round for ever, for a size that was asked for or
for kmemalign's size + align).

### Sched

The tick (`do_schedule`, `schedule`, `switch_to`) is atomic and comes between any two steps
of fork (`Find`, `Link`, `AllocFails`, `Copy`, `Hold`, `Fill`, `Ready`, `MemoryFails`) and
of its callers (`BootReturns`, `TestSched` and the writes that follow it). `current` is
never assigned, so that it is task 0. The loop of `schedule` is a recursive function over
the slots (`Scan`); `Settled` is the table after the recalculation, if one is needed, and a
loop that finds nothing then either is `Endless`. `overlap` is the build that gives
switch_to's outputs the registers of its inputs. `pc` is `"stuck"` in a loop of `schedule`
that never ends and `"fault"` after a write through `task[-1]` or NULL. `stale` is what
freed structs still contain, which is what the next fork's uncopied task looks like to a
tick. `Readings` has the readings of `kernel_entry`'s test of `fork()`: as it is written
(FALSE; `BootReturns` ends as `"halted"`, without ticks) and as it was meant (TRUE).

`FullSlices` is what becomes of test_sched's two stores with ticks between them: as only
task 0 is charged, every other task has a slice of exactly its priority from the last store
on, and a recalculation in between must leave it so. `BootFailsWithFork` is what entry.c says
of a fork's result, and is violated.

### Trap

`trap_entry`'s frame of 33 words is reduced to one word for each way a register can lie in
it; s8 is stored one word above the frame, as in the code. `Trap`, `Entry`, `Handler`,
`Return`, `Load`, `Pop` and `Ertn` are the way of a trap, `Work` and `Raise` the interrupted
code and the devices. Interrupts are on from the handler's return to `Ertn`, so another trap
may come at each load; `saved` remembers who was interrupted, with which registers and
stack, and in each entry `nested` says whether that trap was met by another one in its
window. What is resumed elsewhere or with other registers than it was interrupted with is
`Astray`: the model ends there.

### Console

The ring is `shell_buf` with `start` and `end`; `cached` chooses the build in which the
drain loop keeps both in registers (`first`, `limit`). `Key` is the whole interrupt,
`vim_input_handle` and then `shell_buf_update`, and may come between any two steps of the
shell (`Poll`, `Drain`, `Take` and the commands) and of the editor (`Store`, `FindFile`,
`ClearCopy`, `LoadCopy`, `Wait`, `BackToShell`, `ResetFlag`). `todo` holds `vim_entry`'s
first stores, which a compiler may reorder. A text stands for the file it came from. `echo`
is what the screen shows of the line; `mishap` says what has gone wrong: `"slip"` (a
backspace took what the drain loop had taken already), `"full"` (a character filled the
ring, which then looks empty), `"early"` (ESC while the editor opened), `"failed"` (a file
that could not be opened). `pc` is `"crashed"` after a save through NULL.

### Keyboard

`Push` and `Release` send one to three bytes; `ready` of them are offered by the controller.
Every read of the controller is a step: `Interrupt`, `ReadKey`, `ReadRelease`, `Deliver` and
`Complete` of `kbd_irq`, and the timer's drain, which throws bytes away. The machine is a
choice: whether the bytes of a key arrive together (`whole`) and whether the interrupt is
edge triggered (`edge`). `keymap` gives keys their numbers: kbdmap.c drops the E0 of an
extended key, so that both Ctrl keys, both Alt keys, both Enter keys and the arrows and the
pad's digits share theirs, and `kbd_status` has one entry for the two. `told` is the byte
read last and `lost` the numbers whose latest change was thrown away; `mishap` is a break
prefix that was read or thrown away without its key (`"stale"`, `"cut"`).

`KeyFaithful` speaks of every delivery, also those of an interrupt that found an E0 only or
nothing at all, which are key number 0 (vim.c:92-104 writes its character). Until a break
prefix lost its key, a delivery is right about the last byte read; of keys before that one it
says nothing, since kbd_irq gives them up. `StatusFaithful` says that no number sticks, and
that a held key is pushed if it shares its number with no other; of two that share one, the
release of either is that of both.

### Editor

`file_copy` is one row of `ROWS * COLS` cells, as in memory, so that writing column `COLS`
is writing the next row. `Open` is create_copy with its rows and line ends, `Esc` is
save_file onto a disk on which another file follows, `Up`, `Down`, `Left`, `Right` and
`Type` are the branches of vim_input_handle. `Low` and `High` are 22 and 3 of the code, the
rows at which the screen scrolls. `mishap` says where the code leaves its arrays:
`"outside"` and `"rows"` (a cell or text outside of `file_copy`; the model ends),
`"too long"` (the text runs into the next file), `"wrapped"` and `"lost"` (what was typed
behind the last column is typed over).

`CursorNearText` bounds how far the cursor strays, `offset` being negative for short
texts: above the copy by the scrolling margin, and in the other direction as long as nothing
was typed, for typing moves it down without a test. `RoundTrip` relates three things: loading and saving are inverse, a saved text is
read back by the next opening, and the file behind is not touched. `TypedStays` says
that a character is lost to the next one only in a line that is too long.

### Fs

A folder or a file is its offset in `fs_info_malloc`'s area; `folder[d]` has the two lists
of slots. The allocators only move forward, and a refused request is spent too. The
code looks at more memory than it owns: for each empty entry of `file_list` the loops
read a name at address 0, a failed creation writes there, and `split` leaves the last
piece without an end. So `null` is what address 0 would hold, and a lookup by the last
piece may read a name that continues it (`Longer`) or none (`Garbled`). `create_folder`,
`create_file`, `del_folder`, `del_file`, `move_file`, `move_folder` and `PathAls` follow the
C functions with their early returns; "/" is the root for a folder only, and a piece that was
never written otherwise, and the root may be moved. `vim_entry` and `save_file` are the
editor's use of a file. `Wild` is a `file_p` that was overwritten; what is read or written
through it is outside the model. `given_up` are the files that were deleted or moved, had no
room, or whose type (the last piece of the name, which `split` leaves without an end,
`string.c:100`) ran into `file_p` when they were made (`fs.c:73`).

`StorageApart` is the ownership of storage, and the tree of names until something
moves. `NoneLost` says that only a file in `given_up` is without contents that fs_malloc gave
it; the same name in another folder does not matter. `EditsContents` says the same of the
file the editor has in hand. The overrun of `file_p` is one of their exceptions: nothing in the
source promises that it does not happen.

### Buddy

`tree` maps the nodes that are reachable to their states, a node being its order and its
start; `taken` counts those held from the kernel's heap, `marked` is where the word
0xdeadbeef stands. `split_buddy`, `merge_buddy`, `alloc_buddy` and `free_buddy` are the C
functions on the tree, `Malloc`, `Realloc`, `Free` and `Fill` the clients' calls and writes.
`alloc_buddy` returns the first node of the order whatever its state, so every grant
starts at `USER_START_ADDR` and no two clients are apart. The properties say what remains
true nevertheless: how long a held block's node stays (`NodeStays`), that nodes are
accounted for (`NodesAccounted`) and where the mark survives (`MarkKept`). What a comment says,
that only the lowest nodes are granted (`OnlyLowestGranted`), is violated.
`Refuse` and `Ignore` are the calls that return without a change. A loop that does not end
and a write through NULL end the model.

### Helpers

A behaviour is one call: `Called` chooses the arguments and the memory they point into, one
action per function makes what the function leaves behind. A loop is a recursive function:
its i-th value is what there is after the i-th turn (`Copying`, `Splitting`, `Printing`,
`Walking`). A copy may leave the memory (`Ended`). The properties compare the result with
definitions that do not loop, over overlapping ranges and all numbers of `Nibbles` times
four bits. Called are the functions with strings that have an end and ranges that lie in
memory; split's delimiter is not empty, as it would never return.

`StringsExact` says when a copy is one, what it may touch and what strcmp and strncmp tell
apart: strncmp takes a string and its beginning for equal. `SplitKeepsText` gives the string
back from the pieces as they are written; at its end the beginning of a delimiter is enough.
What is left of them is another matter: `Laid` is the caller's array behind the writes, in
which the rows, 100 bytes each in the code, follow one another and a piece that is too long
runs into the next row, which the next piece overwrites. The property says that a row keeps
as much of its piece as fits, and all of it only if it fits with its 0; pieces behind the
array's last row are outside of the model. `PrintsRight` reads the digits again and counts
conversions by the row of `%` before each. `ListFind` is env_init's walk over the firmware's
list. `ScanAnswers` says what its result means and that it ends; `memcmp` returns 1 for equal
and `list_find` tests for 0, so that what it takes for the memory map has any signature but
that of one (`MapHasSignature`, violated).

## 3. What the runs show

| Run | Instance | Shows |
|---|---|---|
| `heap` | map of 4 bytes (32-byte heap), 3 clients, sizes 5, 12, 17, alignments 4 and 6 | the three ownership invariants, when searches fail and hang, the refinement |
| `sched` | 5 slots, priority 3, both readings | choice, termination, no leak, the slices of task 0 and of the others, until the table is full |
| `sched_boot` | the same, as written | *violated*: "init first process failed!" (`entry.c:40-50`) |
| `trap` | one device and the timer, 3 traps deep | what a trap resumes, with and without another in its window; the timer is served |
| `console` | ring of 3, 3 characters in flight, words vim, exit, test_sched; 2 files; both builds | lines, the bound of `cmd_content`; ESC against opening, failing and leaving the editor; every Enter is served |
| `editor` | 6 rows of 2 columns, screen of 3, 6 texts, 3 typed, a file of 5 bytes | cursor, round trip, typed text |
| `keyboard` | a shift key, the arrow up and the pad's 8, 3 bytes in flight; all four machines | deliveries, shift and status are faithful; no byte stays for ever |
| `fs` | lists of 2, room for 5 bytes of entries and 2 contents, 2 names, paths of 2 | storage, contents, the editor's file |
| `buddy` | orders up to 5, sizes of 8 bits, 10 nodes, 2 clients, 8 sizes | nodes and marks |
| `buddy_lowest` | the same | *violated*: "only the lowest nodes are granted" (`buddy.c:39-40`) |
| `helpers` | 5 bytes, 2 characters, 3 rows of 2, 8 bits, formats of 5, 2 headers of 2 bytes | every call against its definition |
| `helpers_map` | 2 headers of 2 bytes | *violated*: a memory map has the signature MEM (`boot_param.h:54`) |

**Bounds and why they are enough.** The heap has small sizes (below 16), large ones that are not
multiples of 8, and a `kmemalign` request that crosses the threshold (12 + 4); with
four map bytes a run can start in, end in, cross and straddle every kind of byte, and three clients leave a
hole between two others. The alignment 6 is no power of two, and the base of 64 is a multiple of 8
that is none of 6. Five slots let `test_sched` fill the table and
overrun it; a priority of 3 lets counters reach 0 within one fork. A ring of 3 wraps, fills and empties
while it is drained, and `MaxTyped` is its size, so that the full ring is reached. Two
files are what it takes to save one text into the other. Three bytes hold an extended key's
release, and a break prefix, its key and another key's code. Three traps are one in the
window of another that is itself in a window. Six rows are more than the screen and its
scrolling margin, two columns make a line too long with three characters, and texts
longer than a file of five bytes can be typed. Five bytes of entries are the
root (two of them), a folder and a file, or the root and three files; with two contents a file can lose
what another one keeps. Order 5 is enough for the marks of the three smallest
orders to overlap and those of larger ones not to; ten nodes are two per order, the
case `NodesAccounted` speaks of. In five bytes strings overlap from either side or
lack their end, and are cut into pieces that fill a row of two bytes, leave it or need more
than three rows; two headers make a cycle, and two bytes of 1 and 255 add up to 256.
The bounds are `MaxTyped` (Console, Editor), `MaxBytes` (Keyboard), `MaxDepth` (Trap, Fs),
`MaxFormat`, `MaxBytes` (Helpers), `Bounded` (Fs: no creation after the allocators have shown their
exhaustion) and the constants above; nothing else is cut off: there are no state
constraints.

**Stopping.** Deadlock is checked but in four modules. A call of `Helpers` has returned.
`Buddy` stops in a loop without end or after a write through NULL, `Editor` after a
write outside of `file_copy`. `Fs` stops when the shell asks for nothing more.

**Fairness.** `Console`'s `FairSpec` has weak fairness of `Shell`: between interrupts the
shell is all the CPU executes, and the model's ticks and keys do not disable its steps.
No fairness of the user is assumed: a shell that polls or an editor that waits for a key may wait for ever
(`Idle`). `Keyboard`'s has weak fairness of the handlers, with the periodic
timer among them: a handler runs to its end, and between two of them some interrupt
comes. Which of them is not assumed. `Trap`'s has weak fairness of `TrapCode`: an
interrupt that is pending and enabled is taken, and the CPU goes on. The devices and
the interrupted kernel have none.

**Findings.** The three violated runs disagree with a sentence of the source; each is
quoted in `PROJECT.json`. Four more disagreements are in the models, and no property asks for
what the source says: fork returns a slot also when copy_process failed, against `fork.c:90`
and `entry.c:63` (`Sched`'s `AllocFails` and `MemoryFails`, and the faults that follow); of two
keys with one number, the release of one makes the other, which is held, "up", against
`kbd.c:10` (`StatusFaithful` excepts them); of several keys that wait in the controller only
the last is delivered, against `kbd.c:55` (`KeyFaithful` is about that one); and `MAX_ORDER`
is 256KB in buddy.c, whose orders count bytes, and 2GB in `mm.h:23`. The passing runs' exceptions (`mishap`, `broken`, a stuck
schedule) are described above and are listed with their lines under "hazards".

## 4. What is proved

Every invariant below was checked by TLC before it was proved. The theorems hold for every
value of the constants that satisfies the module's named assumptions, and each is `Spec =>
[]P` unless it says otherwise. Each of the eight modules has the same shape: a lemma for the
initial states, lemmas for groups of steps, one case per action, and `Invariant`, from which
the others follow.

Several loops of the code are recursive functions in the models. What such a function
computes is proved in three steps: the function exists (`ScanDefined`, `SearchDefined`,
`ReadIs`, `LaidIs`, `WalkDefined`; `Loop` for all of the helpers'), a set of numbers that
holds 0 and with each number its successor holds all of them (`Upwards`, by the least number
it would lack), and that set is taken to be the numbers for which the loop's result is as
stated.

### The heap

`SysHeapProofs`, for every size of the map from two bytes up, every base address, every set
of clients and all sets of positive sizes and alignments:

| Theorem | Statement |
|---|---|
| `TypeCorrect` | `TypeOK` |
| `BlocksExclusive` | `Exclusive`: no two clients hold a common byte |
| `BitmapExact` | `MapExact`: the bitmap is the union of the held blocks |
| `FreeExact` | `Freeable`: a kfree names exactly what was reserved |
| `FailureHonest` | `FailsOnlyWhenFull`: a search that fails has missed only runs at one byte of the map |
| `HangHonest` | `HangsOnlyWhenFull`: an endless search starts only when no run is free |
| `HeapImplements` | `Spec => ImplementsKernelHeap` |

The assumptions: at least two map bytes, a heap that does not begin below its own size,
positive sizes and alignments, addresses of `AddrBits` bits, and that NoBlock is no block. None of the three ownership invariants is inductive alone: a free removes the
right bits only if blocks do not overlap (`Exclusive`) and the address and size denote the
block (`Freeable`, which needs that large blocks start on a map byte); a new block is
disjoint from the held ones only because the bits it found clear are all the bits nobody
holds (`MapExact`). So the invariant is their conjunction `IInv` with the type invariant.

1. `RunModulo`, `BytesOfSize`, `AlignUpMoves`: the arithmetic of positions, bits and bytes.
2. `AllocBitsResult`, `AllocAlignedBitsResult`, `AllocResult`: whatever the state, a search
   returns nothing, or marks exactly a run of the right length that was clear and lies in
   the map, on a byte boundary for a large size, or is `broken` (`SearchResult`).
3. `FreedIsExtent`: the free of a block that starts where `Freeable` says clears exactly its
   extent.
4. `Exchange`, `Granted`: giving a clear run to a client, in exchange for what it held,
   preserves exclusion and exactness.
5. `IInvStep`, one step per action; `Invariant`.
6. `FoundBitsSucceeds`, `FoundBytesSucceeds`: a run that was found is never taken for none.
   `BitsSearched`, `BytesSearched`, `WholeMapSearched`: the search passes over every run but
   those at one byte of the map, and over all of them when it starts past the map. The two
   `...OnlyWhenFull` follow.
7. `GrantMaps`, `StepMaps`: with `IInv`, each step is one of `KernelHeap`'s or a stutter.

### Scheduler and fork

`SchedProofs`, for every size of the table, every priority, both builds of switch_to and both
readings of kernel_entry's test;
assumed is that NULL is no task:

| Theorem | Statement |
|---|---|
| `TypeCorrect` | `TypeOK` |
| `ForkHoldsTable` | `NoLeak`: what is held from kmalloc is the slots in use |
| `Task0Goes` | `Task0HasSlice` |
| `SlicesStayFull` | `FullSlices`: a task but task 0 has a slice of exactly its priority, once it is made |
| `ScheduleReturns` | `ScheduleEnds`: only a task fork has not copied yet makes `schedule` loop for ever |
| `BestIsChosen` | `ChoosesBest`: the loop over the table finds the task it should |

`NoLeak` counts slots, so each step that fills or empties one must know what was there:
`SlotOK` says at which steps the slot is empty or filled. `Task0HasSlice` needs `Task0OK`,
that task 0 stays in its slot with a priority that renews its slice. The counting rests on
`FiniteSetTheorems`. For the last two, `Downwards` and `ScanFindsBest` say what the loop has
found when it has come down to slot i, and a second invariant `TasksOK` says what it relies
on: counters are not negative, not even in freed structs, and every task but a half-made one
has a priority, so that one recalculation gives it a slice (`RecalcCounts`). `TickSlices`, `AssignSlices` and `KernelSlices`
show the same of the slices: a tick recalculates only while the half-made task is the only one
besides task 0.

### Traps

`TrapProofs`, for every set of devices and any depth of traps in traps:

| Theorem | Statement |
|---|---|
| `TypeCorrect` | `TypeOK` |
| `TrapResumes` | `Resumes`: a trap goes back to what it interrupted, with all registers; one met by another trap has lost ERA and ra only |
| `StackLeft` | `OnlyLowestWordLost`: of the interrupted code's stack only the word for s8 changes |

The invariant is about every trap on the stack, not only the innermost: `NestingOK` (all but
the innermost were met in their window, and ERA is what its trap interrupted or in a
window), `StackOK` (each one's frames lie below those of the trap it interrupted),
`RegistersOK` (what it has restored), `FrameOK` (its frame holds what it still has to
restore, and nothing above the frame has changed). `StepInside` is the argument all steps
share: a step that writes only below the outer frames leaves what is said of the outer traps
alone (`Outer`, `Apart`). `FrameRead` is what a load finds.

### Console

`ConsoleProofs`, for every ring of two places or more, every set of words and of files, and
any keys at any step of the shell and the editor:

| Theorem | Statement |
|---|---|
| `TypeCorrect` | `TypeOK`: the pointers stay in the ring |
| `LineShown` | `LineFaithful`: taken and not yet taken characters are what the screen shows |
| `CommandFits` | `CmdFits`: in the build that reads the end pointer once, a drained line and its 0 fit into `cmd_content`; the other build has no such bound |
| `EditorHears` | `NeverDeaf` |
| `FilesKeepText` | `TextStays` |
| `SavesToFile` | `SaveHasFile` |
| `KeysHaveOneReader` | `OneReader` |

Assumed: Enter and Backspace are no characters, NoFile and Blank are no files. None of the
properties is inductive. ESC may come at any step, so the invariant says for every step of
`vim_entry` which of its stores have been made and what they leave for ESC to find: `OpenOK`
(the editor listens only while it is open and the shell is off; from the lookup on it has a
file), `EscOK` (ESC is remembered or was early), `TextOK` (at the wait the copy is the
file's text; where the editor is not open ESC saves into no file). `DrainOK` bounds the
command by the distance of the two pointers: what was taken and what will be taken are
together less than the ring. `PlusOne`, `DistanceFits` and `DistanceTaken` are that
arithmetic modulo the ring's size. `KeyStep` splits on whether ESC meets a listening editor.

`LineFaithful` needs more (`LineOK`): the screen's characters are those of `cmd` and then,
place by place, those of the ring (`Shows`), the registers never point past the ring's
characters, and outside of the drain loop `cmd` is empty. `ShowsTyped`, `ShowsErased`,
`ShowsTaken` and `ShowsExecuted` are the four ways in which screen, command and ring change.

### Keyboard

`KeyboardProofs`, for every set of keys and every keymap in which the shift keys have numbers
of their own, any number of bytes in flight, and on all four
machines:

| Theorem | Statement |
|---|---|
| `TypeCorrect` | `TypeOK`: every read has something to return |
| `KeysDelivered` | `KeyFaithful`: every delivery, key number 0 included, is the last byte read |
| `CharacterChosen` | `ShiftFaithful` |
| `NoKeySticks` | `StatusFaithful`: of keys that share a number, only that no number sticks |

The queue's bytes are whole keys (`Flow`), and there is a history of the numbers that were pushed
after each of them (`History`), which ends with those that are pushed now, which are those of
the keys that are held but for the ones released by another key of their number (`Pushed`,
`PushedFollows`), and begins with what `kbd_status` says of every number the timer did not
lose (`Tracked`). A key that is pushed
or released prolongs the history at its end (`HistoryGrows`), a read shortens it at its
beginning (`HistoryShrinks`). `Understood` is what kbd_irq has made of the last byte.

### Editor

`EditorProofs`, for every text, every shape of copy and screen (`ShapeAssumption`: more than
one cell, `High` above `Low`) and any number of keys (`TextAssumption`: there are other
characters than the line end, and texts fit their file):

| Theorem | Statement |
|---|---|
| `CursorStays` | `CursorNearText`: above the copy by the margin, and below it while nothing was typed |
| `TextRoundTrips` | `RoundTrip` |
| `TypingStays` | `TypedStays` |

`Laid` is the layout of a text by create_copy and `Read` the text save_file makes of a copy.
`LayoutIs` says that laying a text out and reading it gives the text, character by
character; `SavedIs` and `StringEnds` do the same for the bytes on the disk. The invariant
adds that nothing of an older text is behind the end of the file's (`DiskOK`), from where a
negative offset comes (`CursorOK`), and that typing goes on behind what was typed (`RunOK`).

### File system

`FsProofs`, for every set of names, size of the lists, of the structures and of the two
areas, and every path:

| Theorem | Statement |
|---|---|
| `StorageStaysApart` | `StorageApart`: contents, structures and, until a move, places in the tree are unshared |
| `NoFileLost` | `NoneLost`: only a file that was given up has no contents that fs_malloc gave |
| `EditorHasFile` | `EditsContents`: nor has the editor's |

The conjuncts support one another (`Stored`): a new structure is apart from the others
because all of them lie behind the allocators' positions (`Placed`), also when the
allocators are exhausted (`InfoMalloc`, `Malloc`); a lookup returns a folder that exists
(`FolderAls`, `ParentMade`) or address 0, whose name is one only after a failed creation
(`NullOK`). `Rearranged` and `Cleared` are the operations that only change the lists and
that give up an entry's contents.

### Buddy

`BuddyProofs`, for every order of the arena that an int can shift to, any room for nodes,
any clients and sizes:

| Theorem | Statement |
|---|---|
| `BlockStays` | `NodeStays` |
| `NodesBalance` | `NodesAccounted` |
| `MarkStays` | `MarkKept` |
| `BlocksShareStart` | every held block starts at the arena's first byte and ends within the arena |

The invariant is what makes this allocator what it is (`SpineOK`): since a search takes the
left half at every node, whatever its state, all grants are at the arena's start and the
tree is a spine with the other halves beside it, down to some order `low`. `SearchFinds`
says so of the search, `AllocEffect` and `FreeEffect` of a whole allocation and free,
`SpineSize` counts its nodes and `MarksApart` tells which marks overlap.

### Helpers

The second half of `FsProofs` (split cuts the paths of the file system and strcmp finds its
names), for every size of memory, every set of characters, every width of a number, every
length of a format and every finite set of headers:

| Theorem | Statement |
|---|---|
| `StringsAreExact` | `OneCall => StringsExact`, an action property |
| `PiecesKeepText` | `OneCall => []SplitKeepsText`, for every size of a row and number of rows |
| `NumbersPrinted` | `OneCall => []PrintsRight` |
| `ScanIsRight` | `OneCall => []ScanAnswers` |
| `EndlessList` | a list that has not ended after as many turns as there are headers never does |

A call that has not returned is as it was made (`CalledOnce`), so each theorem is a lemma
about what its functions compute. Those lemmas are invariants of loops:

* **Copies.** `CopiedSoFar`: after i turns the first i bytes are copied, if none of them was
  overwritten before it was read, and no other byte has changed. `NeverEnds`: if the
  destination begins within the source, no byte up to the last one written is 0, so only
  the bound ends the loop. `CopyTurnsIs` is how many turns the loop makes.
* **Comparisons.** `Differ`: where two strings differ, there is a first place where they do,
  and the loop comes to it; it comes to none behind an end (`AlikeWithin`).
* **Pieces.** `SplitAt` has the places in the string at which the pieces begin; each turn
  keeps it and reads on (`SplitAtStep`). `PieceFromIs` says that these are the places the
  property computes from the sizes of the pieces. `RowsFollow` and `LaidIs`: a row begins
  behind the one before it, and what a piece writes into its own row nothing later
  overwrites.
* **Numbers.** `DigitsRead`: the digits of a number read as the number, by induction over
  the number. `PrintptrRight`: after i turns the digits printed, times the values that are
  left to a word, and the word shifted are the pointer times 16 to the i-th. The value of
  a negative int is negated modulo the word, the least one too (`PrintintRight`).
* **Formats.** `FormatSoFar`: a `%` is open exactly if the row of `%` that ends here is
  odd; as many arguments are taken as conversions were met, and numbers are in order.
* **The list.** `WalkedSoFar`: the walk is where following `next` leads, until a sum is
  wrong; `ChecksumIs` is the sum modulo 256. `EndlessList` is the pigeonhole principle: a header that is met twice would be met
  again just before the end.

### Only model-checked

The liveness properties `EnterServed`, `NeverStuck` and `TimerServed` need fairness and
ENABLED, which are outside what the prover does. Every other property of the passing runs
is a theorem.

## 5. What is not modelled, and the plan

Not modelled because nothing runs it at this commit: signals (nothing sends one), the sleep
queues (`sched.c:151-208`, without callers; `interruptible_sleep_on` loses sleepers),
`slab.c`, `page.c`, `tlb.c`, `mem_block.c`, `game.c`, `draw.c`, the callback table of
`kbd.c`, `capslock_state`, which nothing reads, and krealloc's copy of the contents. Not
modelled because it is device output or constant: the serial port and the escape sequences,
`ansi.c`, `info.c`, the key tables, the initialisation of the controllers. The shell's
commands that only print or only call `fs.c` are one action (`RunOther`) of `Console`.

Left to do: the queues of the sleeping tasks, once something calls them. `Keyboard` in front of
`Console` would show nothing new as long as `Console` takes every key.
