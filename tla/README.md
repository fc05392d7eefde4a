# A TLA+ model of myos

The repository is a small teaching kernel for 64-bit x86: a boot loader, a page
allocator, processes with fork, exec and copy-on-write, interrupts and system
calls, a keyboard and a text screen, a file system of its own on an IDE disk, the
start of the other processors, and a small VMX hypervisor. This directory holds
TLA+ modules for it, TLC configurations that check them on small instances, and
proofs that TLAPS checks. Line numbers refer to files under `src/`; `mm.c`,
`proc.c` and the like are in `src/kernel/`, `trap.c`, `trapentry.S`, `entry.S`,
`trampoline_64.S` and `vmx.c` in `src/kernel/amd64/`, `mkxxx.c` in `src/scripts/`.

## 1. Inventory

| Component | State | Operations | Called by / calls | What is hard | What makes it correct |
|---|---|---|---|---|---|
| Page allocator, `mm.c` 56-140 | `pages[].count`, list from `phead` | `init_page`, `alloc_page`, `free_page`; `pp->count++` in fork | everything that needs memory | loop bounds, uncleared descriptors, counts over long sequences, preemption inside `alloc_page` | a frame is on the list iff nobody refers to it; reserved frames never leave |
| Memory detection, `mm.c` 32-44, 410-469 | `npages`, `kused_mem` | `init_mem` | boot | units of the CMOS registers, layout of tables behind the kernel | every descriptor stands for RAM |
| Page tables, `mm.c` 179-310 | four levels per process | `walk_page`, `insert_page`, `remove_page` | faults, fork, exec, exit | missing frames at any level | a table frame has one use |
| Processes, `proc.c` | `procs[]`: `status`, `link`, `pgdir`, `pregs`, `fdtable`; `proc_head`; `current` | create, fork, exit, waitpid, schedule | system calls, timer | failure paths of fork, scan order | slots neither lost nor doubled, no starvation |
| Copy-on-write, `proc.c` 464-482, `trap.c` 185-208 | read-only marks and counts | fork, page fault, exec, exit | MMU | order of faults of relatives, kernel stores, faults at kernel addresses | processes have private memory, and one that all share at kernel addresses |
| Traps, `trap.c`, `trapentry.S` | one kernel stack, `pregs` | entry, `do_trap`, `run_proc` | hardware | exception handlers run with interrupts on, one stack for all | a process keeps its registers |
| System calls, `syscall.c`, `lib/syscall.c` | none | dispatch by number | programs | answers through the frame or through `pregs` | the answer belongs to the caller |
| Keyboard, `console.c` 401-486 | ring `kbs` | interrupt adds, `cons_read` takes | keyboard interrupt, `sys_read` | full ring, wrap | a queue |
| Screen, `console.c` 27-290 | cursor, video memory | `myputchar`, `print`, `cons_write`, the echo | all; keyboard interrupt | echoes and other processes in the middle of a character of the page-fault handler; scrolling at the last line; flags and widths of `print` | the cursor comes back to the screen; the last lines written are shown |
| Files, `file.c` | `filetable[]`, `fdtable` entries | open, read, write, lseek, fork, exit | system calls | descriptors that are overwritten, numbers nobody checks, references, positions shared by fork | an entry in use is not given out; relatives share, others do not |
| File system, `fs.c`, `cache.c`, `ide.c` | bitmap, inode table, indirect blocks | look-up, walk, allocate, read and write blocks | files, exec | which updates reach the disk, block boundaries, full disk, reboot | what is written can be read; no block has two uses |
| Interrupt controllers, clock, `pic.c`, `pit.c`, `lapic.c` | device registers | init, masks | boot | - | a periodic timer |
| Other processors, `lapic.c`, `trampoline_64.S`, `entry.S` 52-83 | configuration table, one trampoline, `bspdone`, `aprunning` | INIT and STARTUP commands, the trampoline, the gate | boot | table index taken for the id; addresses in the shared trampoline changed without lock | one other processor is started; nobody passes the gate early or waits for ever |
| Hypervisor, `vmx.c`, `user/vmexec.c` | VMCS, EPT, `allregs` | create, provide, load, run; exits, handlers, resume | system calls | interrupts on inside a handler, a second run in that window, registers over exits, injection, pages replaced | the guest sees a machine of its own; a frame has one use |
| Boot loader, `boot/`, `entry.S`, `head.S`, `init.c` | - | load the kernel, enter 64-bit mode | firmware | - | - |
| Disk image builder, `scripts/mkxxx.c` | image, bitmaps | make the image with one file | the build | agreement with `fs.c` in blocks, indirect words and sizes; a full image | `fs.c` finds what was put in |
| Programs, `user/`, `lib/` | - | shell, hypervisor front end | - | - | - |
| 32-bit port, `kernel/x86/` | not built by default | - | - | - | - |

How they interact: programs enter the kernel by `int $20` (system calls), by
exceptions, and by the timer and keyboard interrupts. System calls and
interrupts run with interrupts off (gates 0xEE and 0x8E, `trap.c` 82-91);
exceptions run with interrupts on (0xEF). All start on the one kernel stack, and
`schedule` never returns to a running caller: `run_proc` leaves by `iretq`. So
system calls and interrupts are atomic towards each other, and the interesting
interleavings are those of programs, of page faults of related processes, and
of interrupts inside exception handlers. Two more places turn interrupts on or run
beside the rest: `handle_intr` of the hypervisor (`vmx.c` 367), and the other
processors.

## 2. Modules

| Module | Stands for | Kind |
|---|---|---|
| `FramePool` | what users of the allocator may expect | abstract |
| `PageAlloc` | `mm.c` 56-140 | detailed |
| `PageAlloc_proof` | theorems on `PageAlloc` | proofs |
| `ProcessTable` | what the scheduler promises: the processor goes from live process to live process | abstract |
| `Scheduler` | slots, free list, `current`, `schedule` | detailed |
| `Scheduler_proof` | theorems on `Scheduler` | proofs |
| `PrivateMemory` | each process has memory of its own, fork copies it | abstract |
| `AddressSpace` | frames, counts, page tables and all that changes them | detailed |
| `AddressSpace_proof` | theorems on `AddressSpace` | proofs |
| `Registers` | a process keeps its registers | abstract |
| `TrapContext` | frames, `pregs`, traps | detailed |
| `TrapContext_proof` | theorems on `TrapContext` | proofs |
| `CharQueue` | what readers of the console may expect | abstract |
| `KeyBuffer` | the ring `kbs`, the interrupt, `cons_read` | detailed |
| `OpenFiles` | what programs may expect of descriptors | abstract |
| `FileTable` | `file.c` 6-34, 134-286, `proc.c` 375-382, 490-496 | detailed |
| `FileTable_proof` | theorems on `FileTable` and `KeyBuffer` | proofs |
| `DiskImage` | `mkxxx.c`: what the image looks like | operators |
| `FileBlocks` | `fs.c` 20-184, `file.c` 36-127, on an image of `DiskImage` | detailed |
| `FileBlocks_proof` | theorems on `FileBlocks` and `DiskImage` | proofs |
| `Terminal` | what a writer to the screen may expect | abstract |
| `FormattedPrint` | `print`, `console.c` 112-282, and what its conversions are for | operators, reference |
| `Screen` | `myputchar`, `cons_write`, the echo; uses `FormattedPrint` | detailed |
| `SmpBoot` | `lapic.c`, `trampoline_64.S`, `entry.S` 52-83 | detailed |
| `SmpBoot_proof` | theorems on `SmpBoot` | proofs |
| `GuestMachine` | what a virtual machine is owed | abstract |
| `Vmx` | `vmx.c` | detailed |
| `Vmx_proof` | theorems on `Vmx` | proofs |
| `MCPageAlloc`, `MCAddressSpace`, `MCFileBlocks`, `MCFileTable`, `MCScreen`, `MCVmx` | values for TLC | model checking |

Definitions named `Slip...` state a plausible slip of the programmer. No
specification uses them; each replaces the definition below it to see that a
property notices.

### PageAlloc
`freelist` is the list from `phead`, `count` the reference counts, `got` the last answer
of `alloc_page`. `InitialFreeList` is the list the three loops of `init_page` leave;
`Init` adds the `count++` over whatever the descriptors held. The actions are
`alloc_page` (with its NULL), `free_page`, and the count++ of fork (`SharePage`). Only
holders share or free: the guard is `count[f] > 0`, which stands for the callers, and
`AddressSpace` checks that they keep to it.

### Scheduler
One action per trap that moves processes: `Timer`, `Yield`, `Fork` with its three
ends (no slot, no directory, success), `Waitpid`, `Exit`. `Scan(c)` is the order
in which `schedule` looks at slots: `nextind` starts at `c + 1` and is reduced
modulo MAXPROC only from the second round on, so from the last slot the scan
looks at the zeroed entry behind the table, then at slot 1, and never at slot 0.
`waitpid` leads to `schedule`, which does not come back: the caller resumes in
user mode when it is next dispatched, so `waitpid` acts as a yield.

### AddressSpace
`free` and `count` are the allocator's, `map`/`writable` the leaves of the page tables,
`table` the table pages (one frame per region instead of three levels), `pgdir` the
directory, `mem` the contents. Actions: stores of programs, stores of the kernel into
program buffers (`sys_read`), page faults for missing pages and for copy-on-write, fork
with each of its failures, exec, exit, and calls that only read the disk (`FileCall`). A
handler is one step. Where the kernel uses a frame it did not get, the behaviour ends
(`Halt`): in a system call the processor really stops, as `panic` halts with interrupts
off; in a fault handler interrupts are on and the timer may take the processor
elsewhere, and what happens then on wild mappings is left out. The content of a free
frame is kept at `Zero`: nobody may look at it. `KernelStores` says where system calls
store: "any" page, as the code does, or only pages of the caller's own (or none, which
is a panic), as it is when programs have stored into their buffer before. `LeftBehind`
are the frames an exiting process had beyond [UTEXT, USTACKTOP): the fault handler maps
any address (`trap.c` 197-200), `destroy_vm` walks one range (`proc.c` 353), and nobody
gives them back; nor does anybody give back the frames `bread` takes, one for each block
that exec, open, read or write looks at (`fs.c` 60-67). Both are in `lost`. `Batches`
says which frames such a call may take.

The fault handler does not look at the address, so kernel addresses matter too, in two
ways. The page tables have an `Owner`: a process, or `Kernel`, since all directories share
the entry of the kernel half (`alloc_vm` copies it, `mm.c` 423). `Common` are the pages
there that `head.S` maps nothing at: the first fault maps one writable for everybody, for
good. A store to an address that `head.S` does map is taken for copy-on-write
(`KernelOverwritten`): `walk_dir` takes what the 2MB entry leads to for a page table, so
that a word at the start of a 2MB page (`Huge` are the frames there) is overwritten and
the frame it seems to name given back, whoever has it (`Damage`). From then on `wild`
holds and the behaviour ends: nothing is promised about a kernel that has been
overwritten. A system call that stores to such an address overwrites it directly.

### TrapContext
`regs` is what the processor runs with, `frame` the `pt_regs` at the top of the
stack, `pregs` the saved contexts. Each is a record of `rax` and of everything
else (`data`). A fault handler has two stages, before and after `do_trap` copied
the frame into `pregs` (`trap.c` 164-168). The timer inside a handler saves the
handler's own context there. Which live process is dispatched is left open
(`Scheduler` decides). A handler that resumes after others have trapped finds
their frame in the place of its own and ends with their registers; its effects
on memory are left out.

### KeyBuffer
`kbs` is the ring. One action drains the controller (`kbd_handler`'s loop over
all codes it finds), one is `cons_read`; both repeat the single-character step of
the code, in a recursive function of the codes (`Handled`) and of the rounds of the
loop (`Taken`). `cons_read` is in `file.c`, so that the proofs are with those of
`FileTable`; hence the names `RingInit`, `RingNext`, `RingTypeOK`.

### FileTable
`filetable` and `fdtable` are the code's. `FdOf` is what `fd = allocfd() < 0` comes to:
0 as long as a descriptor is unused, so every open answers with descriptor 0 and
overwrites what is there (`LostBy`), and an open without one answers 1. Actions: the
three ends of open (installed, no such name, no entry), opencons, read and write as far
as they move the position (`Moved`: any number of rounds may have succeeded), lseek,
fork's copy and exit's release. Nobody checks the number a program gives to read, write
and lseek (`file.c` 217, 235, 273), and the slots of `procs` lie one behind the other.
So a `Number` stands for a descriptor of any slot, the caller's or not, free slots
included, where exit leaves the entries that are still in use (`proc.c` 378-380); a
number that falls on some other word is `Wild`, and the behaviour ends. A read of an
unused descriptor and an lseek on the console follow NULL (`Halt`). close is in `file.c`
but has no case in `do_syscall`. `OpenFiles` knows no entries and no counts: a
descriptor names a file at a position and shares it with a set of descriptors. It leaves
open whose position a call moves, and says that it moves one, for all that share it.

### DiskImage and FileBlocks
`DiskImage` is a function from the size of the disk and the content of a file to
the image that `mkxxx` makes: bitmap, inodes, blocks, with a block for the root
directory and for each block of the file, the indirect block among them; and what
happens when the disk is full half-way. A block is a few words.

`FileBlocks` starts from such an image. `inode` and `bitmap` are the copies
`read_superblock` makes at boot, `disk` the blocks. `Write` and `Read` are the loops of
`file_write` and `file_read`: a function of the number of rounds, whose values are
records that hold the state of the call, among it where `diskno` points: a slot of the
inode, or a word in a page that `bread` filled, whose change nobody sees later.
`walk_block` appears twice, with `alloc` set and clear. A round that gets no block ends
the call and keeps what was done before. `LookUp` is `walk_path`, `Open` finds the file
by its name in the directory block on the disk. `probe` is one position of the file, or
the name in the directory, chosen at the start and the same for the whole behaviour;
`written` remembers the word last asked for there (at first what `mkxxx` was given), and
`spilled` whether a call has written there since without being asked to: behind its
count, or through a block number that is not the file's (`Astray`). As every position is
a probe of some behaviour, a property of the probe is one of all positions. `lost` are
the blocks whose number went into a copy of an indirect block. `Reboot` reads the
image's inodes and bitmap again and keeps the disk; `written` then forgets the blocks
the image does not know.

### Screen and FormattedPrint
`screen` is cursor and video memory, one row longer than what is shown: where a cell
past the last row would be. System calls and interrupts write whole texts and
characters (`Say`, `Echo`: folds of `Putchar`). The page-fault handler prints with
interrupts on: its `myputchar` is `Begin` and a `Step` for each access to the cursor
or the video memory. Between any two an echo may come, and the timer may switch to
another process, which writes texts, or prints in a fault handler of its own and is
preempted there as well: each process has a `handler`. What the switch does to the
handler's frames on the one kernel stack is the subject of `TrapContext`; here the handler
either goes on as if nothing had happened, or is lost (`Derail`) and the behaviour ends.
`before` is the screen at the last moment no character was half-written, `torn` what has
hit one: an echo, or another process. `Terminal` (lines of text) promises nothing after
that. Once a process has been hit by another, the cursor can wander a row at a time (two
`ypos++` count as one, or a scroll takes one back too many); it is followed as far as
`MaxDrift`, and the video memory no longer.

`FormattedPrint` has the code's loop over a format (`PrintChar`, with the two flags,
the argument slots, the negation in the width of the argument) next to a reference:
a list of items and what each should come to. `Regular` names the two cases where
they differ: `lflags` is never cleared, so an int after a long is read as a long, and
`-val` of the least int does not fit.

### SmpBoot
`entries` is any table the BIOS may leave; `lapic_ids` and `numcores` are what
`init_mp_config` makes of it (disabled processors too, `lapic.c` 36 and 108). The boot
processor's steps are the commands of `startup_smp`: INIT and two STARTUPs to the
*index* `i` of the loop, then `bspdone`. A processor that is started goes through
`Path`: three unlocked additions (a load and a store each) to the addresses in the one
trampoline, the uses of these addresses, the gate, `aprunning`. An address is the
number of times the base was added to it; a use of one that is not 1 leads `astray`.
INIT to the boot processor's own number ends it (`reset`).

### Vmx
`free`, `control`, `ept` say who has which frame; `gpr`, `allregs`, `vmcs` where the
guest's registers are; `host` where the host is. The four system calls are actions;
a run is `sys_run_vm`, then guest steps, `VmExit` with a reason, a handler, and again.
The handlers other than `handle_intr` run to `vmresume` in one step; `handle_intr`
asks for the interrupt again and opens a window (`sti`) in which other processes may
call anything and the rest of the kernel takes and gives frames. `sys_run_vm` is
three cases. A cpu that was not launched starts (`RunFirst`). In the window `vmlaunch`
fails, as the cpu has been launched, and the code goes on at `Vmx_exit`, which saves the
caller's registers over the guest's; the exit reason is still the interrupt, so the caller
ends in the same window with the same vector asked for again (`RunAgain`, `vmx.c`
436-457). Before any cpu it is an invalid instruction (`RunNothing`). `Saved` and
`Restored` follow the order in which registers go through rcx, which is saved from the
stack and loaded last (`Reload`). `GuestMachine` is
the promise: pages, registers, mode and instruction pointer change by the guest's own
steps, by provision and loading, by the instruction passed over or the interrupt
delivered, and by nothing else, but that its registers are anybody's after a second run
in the window. What ends it: `hlt`, an EPT violation or another
reason, a load past the end of its page, an interrupt for a guest whose interrupts
are off (the entry fails). A second cpu created in the window is a new machine.

### Composition
The modules are split where the code's state is: `AddressSpace` uses the frame
pool by its contract and lets any live process move; `Scheduler` decides who
moves and leaves memory as a choice in `Fork`; `TrapContext` leaves both. What one
module assumes of another is a property checked there: holders free what they
hold (`NoDangling`, `NoLeak`), the running process is live (`CurrentRunnable`).

## 3. Runs

| Run | Module | Instance | Shows |
|---|---|---|---|
| `page_alloc` | `MCPageAlloc` | 9 frames, trampoline at 2, hole at 4, kernel data up to 6, two references each | the free list is exact whatever the descriptors held; reserved frames stay; refines `FramePool` |
| `scheduler` | `Scheduler` | 4 slots, 6 forks | slots, dispatching, refinement of `ProcessTable`, and liveness |
| `address_space` | `MCAddressSpace` | 3 processes, 10 frames, one image page and the stack | shared frames stay read-only, table frames private, with kernel stores anywhere |
| `private_memory` | `MCAddressSpace` | 3 processes, 8 frames, two contents, one page beyond the range, one at a kernel address, kernel stores into pages of their own | memory is private but for the page at the kernel address, faults are invisible, counts are exact, so that frames in use are not free and unused ones are, but for what exit loses beyond the range and what `bread` takes |
| `trap_context` | `TrapContext` | 2 processes, two values of `data` | registers belong to their process unless its handler was preempted |
| `key_buffer` | `KeyBuffer` | ring of 4, up to 2 codes and 3 characters at a time | the ring is a queue with room for size - 1 |
| `file_table` | `MCFileTable` | 3 processes, 2 entries, 2 descriptors, up to 3 references | counts are exact, sharing is by fork only, whatever numbers calls use; refines `OpenFiles` |
| `file_blocks` | `MCFileBlocks` | disks of 3 and 4 blocks of 2 words with a file of 0, 1 or 3 words, one direct and one indirect slot | no block given twice or lost; name and words are found |
| `screen` | `MCScreen` | 2 by 2, two processes, two characters, texts of 2; ints of 3 bits, longs of 5 | the cursor returns, text is shown as a terminal does, `print` prints what is meant; refines `Terminal` |
| `smp_boot` | `SmpBoot` | tables of up to 3 entries, ids 0 to 3 | see below |
| `vmx` | `MCVmx` | 4 frames, guest of low page, hole, screen, high page; 2 cells to a page, rcx and another register | every frame has one use; refines `GuestMachine` |
| `kernel_store` | `MCAddressSpace` | 2 processes, 9 frames | **violated**: a read by one process changes the memory of its relative |

Bounds, and why they do:
- *Frames.* Nine descriptors give each of the three runs of `init_page` at least
  one frame and each reserved area one. In `AddressSpace` a process takes four
  frames to start and three per fork, so 10 frames let three processes exist
  (two images then share a frame); with 8, two processes that own all their
  pages leave none, so that a third fork fails for its directory, and faults, forks
  and exec run out; the
  allocator picks the lowest frame (`Lowest`), as no property depends on which. A call
  that reads the disk takes one frame (`LowestBatch`); repeated, calls take any number.
  One frame begins a 2MB page (`Huge`).
- *Processes.* Two are enough for one process to disturb another; three let a
  page be shared by three and released in any order. Slots other than the first
  are interchangeable in the runs of `AddressSpace` (symmetry; no liveness there). Four
  slots are the least with a first, a last and two in between, so that the
  irregular scan differs from a regular one.
- *MaxForks.* Exit restarts the scan at slot 1, so an endless chain of forks and
  exits in low slots can keep a high slot waiting for ever. Liveness is
  therefore stated for behaviours with finitely many forks; 6 refill the table
  twice.
- *Ring.* Four positions with two codes and three characters at a time cover every
  distance of the two positions and every wrap.
- *Blocks.* Two words to a block and counts up to 3 give calls within a block, up
  to its end and over it, from every place in it. Three blocks hold the directory, a
  direct block and an indirect one, so that they run out before the data behind the
  indirect block has one; four hold that too, and with the file of three words nothing
  is left. `MaxWord` keeps positions within the blocks an inode can name (offsets come
  from `lseek`, which checks nothing).
- *Entries and descriptors.* Two entries run out; as every open uses descriptor 0, two
  descriptors give one that is used and one that is not. Three processes let an entry
  be shared by three and be left by them in any order.
- *Screen.* Two rows and columns have a first and a last of each; scrolling comes after
  two texts. Two processes are a handler and another writer, or two handlers cut in each
  other's middle; `MaxDrift` lets the cursor go two rows or columns off the screen before
  it is not followed, so that rows above, below and next to the screen occur. The numbers
  printed are those at the ends of each width and of each
  number of digits, the bits above an int all clear or all set.
- *Processors.* Three entries give a table with the boot processor at any place, two
  others in the trampoline at once, an I/O APIC in between, ids that are the indices
  and ids that are not, an id no entry has.
- *Guest.* A low page, a hole, the screen and a high page are the kinds of pages there
  are; four frames are two for the cpu and one for each page, and any frame the rest of
  the kernel takes makes a provision come short or a load fail to find a page. Two
  vectors tell one interrupt from another; frames and vectors are interchangeable. Of
  the registers rcx is the one the others are moved through; one other tells whether it
  is moved before it or after.
- *MaxRefs.* 2 distinguishes the last reference from others.

`CHECK_DEADLOCK FALSE` stands where the kernel may halt (`scheduler`, `file_table`,
the runs of `AddressSpace`, `file_blocks`, `vmx`), is followed no further (`screen`), or is done (`smp_boot`).

Fairness: `Scheduler` has `WF_vars(Timer)` only: user mode runs with interrupts enabled
(`proc.c` 254) and the PIT is periodic (`pit.c` 17-26). No fairness is assumed of
programs. `SmpBoot` has weak fairness of the boot processor and of each processor that
was started: they execute instructions of their own accord, with nothing to schedule
them and interrupts off.

Properties worth a word:
- `EveryRunnableRuns` leaves out slot 0, and `ShellRuns` says what holds for it:
  the shell runs again and again unless the last slot is in use. A process in
  slot MAXPROC - 1 that only gets preempted hands the processor to slot 1 or
  keeps it itself.
- `CurrentRunnable` is why the idle branch of `schedule` (`proc.c` 424) is never
  taken: slot 0 always holds a live program (`user/init.c` 36 never leaves its
  loop).
- `FreeListExact` of `Scheduler` has the term `leaked`: a fork that finds no frame
  for its directory keeps the slot (`proc.c` 458-462).
- `NoLeak`: a frame is free as soon as nobody refers to it, but for those that an
  exiting process had mapped beyond its range and those `bread` took. A frame at a kernel
  address stays in tables that all processes have, so it is referred to. `NoLeak`,
  `NoDangling`, `SharedReadOnly` and `TablesPrivate` hold until a program stores to an
  address of the kernel that is mapped, and say nothing after it (`wild`).
- `PrivateSpec` has one memory for each process and one for all at the kernel addresses
  where nothing was mapped: that a program can have such pages, and that everybody can
  write them, is what the fault handler does (`trap.c` 197-200).
- `ContextSpec` holds with interrupts in handlers; a process whose handler lost
  the processor to another process is the only one nothing is promised about.
- `ReadBack` is about mkxxx and the kernel together and all orders of calls that share
  the bitmap. It says what direct blocks and blocks made with the image do: they give
  back the last word asked for unless a later call wrote there without being asked to,
  in one of three ways: a count that is used again in each round (`file.c` 99);
  `walk_block` without a block for the indirect block, whose failure nobody looks at, so
  that the words go where `diskno` still points, to the block of the round before
  (`fs.c` 125, `file.c` 93); an indirect block that was not cleared, whose old words are
  taken for block numbers (`fs.c` 138, after a reboot).
- `BlocksExclusive` holds with both kinds of blocks and over reboots, since no inode
  is ever written to the disk: what the image does not know is forgotten as a whole.
- `RefcountsExact` has the term `lost`: references of descriptors that an open
  overwrote (`file.c` 206). `FilesSpec` says that entries are nevertheless never given
  out while a descriptor leads to them, and that a call with a number that is not the
  caller's own moves one position, for all that share it, and changes nothing else.
- `CursorReturns` allows one row below the screen: an echo between `ypos++` and the
  scrolling writes there (`console.c` 72-74), into video memory that is not shown. It
  says that scrolling is neither lost nor done twice in any such meeting. When another
  process writes into the middle of a character that no longer holds: two `ypos++` or two
  `ypos--` may count as one, so the cursor may end a row above or below the screen. What
  is left is that it comes back to the columns, and that is what the property then says.
- `AloneNeverAstray` is as much as the trampoline promises. Two processors in it at
  once can go astray (TLC reaches that), so `OneOtherStarts` is about one, with ids in
  the order of the table; `Settles` says that whatever happens in the trampoline, nobody
  is left at the gate.
- `GuestSpec` holds with the window: what other processes do in it to `vmcs` is to create
  a new machine, and to `allregs`, to run the guest a second time, which costs it its
  registers and nothing else.

Finding: `sys_read` writes through copy-on-write mappings, since the kernel runs with
CR0.WP clear (`kernel_store`).

Other places where the code does less than one might expect, which the models have and
the properties make room for: frames beyond [UTEXT, USTACKTOP) are never freed (`lost`
of `AddressSpace`), nor are the pages `bread` takes (the same `lost`); pages at kernel
addresses are mapped for all (`Common`), and stores to mapped ones overwrite the kernel
(`KernelOverwritten`); descriptor numbers are not checked (`Number`, `Wild`); a
character of the fault handler can be cut by other processes (`torn` of `Screen`);
run_vm in the window takes the guest's registers (`RunAgain`); a character that meets a
full ring empties it, in spite of the comment "overwrite if full" (`console.c` 430;
`CharQueue` promises nothing after that); `file_write` and `file_read` move up to the
whole count in each round (`spilled`); the number of a block beyond the direct ones is
never stored (`lost` of `FileBlocks`); every open answers descriptor 0 (`lost` of
`FileTable`); commands to processors go to the index in the table (`Destination`);
`lflags` of `print` is never cleared (`Regular`).

## 4. Proofs

Each proof module extends the module it is about, so that what is proved is the
specification TLC checks; `Spec` is its initial predicate and `[][Next]_vars`, and
fairness is not used. Of the 40 properties of the passing runs 32 are proved, for every
value of the constants that satisfies the assumptions of the module.

| Theorem | Says |
|---|---|
| `FreeListIsExact`, `ReservedFramesAreKept` | `TypeOK`, `FreeListExact`, `ReservedNeverIssued` of `PageAlloc` |
| `AllocatorImplementsPool` | `PageAlloc` implements `FramePool` |
| `ProcessTableIsSound` | `TypeOK`, `CurrentRunnable`, `FreeListExact` of `Scheduler` |
| `SchedulerImplementsTable` | `Scheduler` implements `ProcessTable` |
| `MemoryWellFormed`, `FramesNeverDangle`, `FramesNeverLeak`, `SharedFramesReadOnly`, `TableFramesPrivate` | `TypeOK`, `NoDangling`, `NoLeak`, `SharedReadOnly`, `TablesPrivate` of `AddressSpace` |
| `PageFaultsInvisible` | the action property `FaultsInvisible` of `AddressSpace` |
| `MemoryIsPrivate` | `AddressSpace` implements `PrivateMemory`, if `KernelStores = "own"` |
| `ContextsWellFormed` | `TypeOK` of `TrapContext` |
| `RegistersAreKept` | `TrapContext` implements `Registers` |
| `DescriptorsLeadSomewhere`, `ReferencesAreCounted` | `TypeOK`, `RefcountsExact` of `FileTable` |
| `FileTableImplementsOpenFiles` | `FileTable` implements `OpenFiles` |
| `RingWellFormed` | `RingTypeOK` of `KeyBuffer` |
| `RingIsQueue` | `KeyBuffer` implements `CharQueue` |
| `AdditionsBounded`, `LoneProcessorArrives`, `GateHolds` | `TypeOK`, `AloneNeverAstray`, `HeldAtGate` of `SmpBoot` |
| `HypervisorWellFormed`, `FramesStayApart` | `TypeOK`, `FramesApart` of `Vmx` |
| `VmxImplementsGuestMachine` | `Vmx` implements `GuestMachine` |
| `BlocksWellFormed`, `BlocksHeldOnce`, `BlocksAccountedFor`, `WordsReadBack` | `TypeOK`, `BlocksExclusive`, `BlocksExact`, `ReadBack` of `FileBlocks` |

All follow one pattern. `Inv` is the inductive invariant; `InvInit` and `InvNext` show
that it holds at first and after each step, one lemma or case per action; the invariants
follow from it, and a refinement from it and a lemma that maps each action to an action
of the abstract module or to a stutter.

**Assumptions.** They are the ASSUMEs of the modules, which TLC evaluates for each
instance, and say what the code's constants are. Layout: 0 < trampoline < hole <= end of
kernel data <= number of frames. Scheduler: two slots or more. `AddressSpace`: processes
and pages are finitely many, since counts are numbers; the number of frames is left
open. `FileBlocks`: a block and an inode have some words and slots, the disk has a block
at least, and the file given to `mkxxx` and the positions of calls stay within the
blocks an inode can name; beyond them `walk_block` (`mkxxx.c` 74, `fs.c` 122) leaves
`diskno` unset. That a disk may be too small for its file is not excluded. The marks for
"nothing" (`None`, `Null`, `Dead`, `Lost`) are none of the values they stand beside.
`MemoryIsPrivate` alone has a hypothesis beyond these: `KernelStores = "own"`, that
system calls store into pages their caller has to itself. The code does not see to that,
and `kernel_store` refutes the conclusion without it. What remains of sharing is in the
conclusion: the memory at kernel addresses that all have, and the store that overwrites
the kernel, after which nothing is said.

Facts about sequences, natural numbers and finite sets stand at the head of the module
that uses them.

**PageAlloc, Scheduler.** The free list is a sequence; `PopLemma`, `PushLemma` and
`ConcatLemma` say what popping, pushing and concatenating do to its range and its lack
of repetition. `FreeListExact` is not inductive for the allocator without the counts:
that a frame pushed by `free_page` was not already listed follows from its count having
been positive. `CurrentRunnable` is not inductive either: after exit the scan must find
somebody. `Inv` adds that slot 0 is runnable and that leaked slots are not live, and
`NextProcRunnable` shows that the scan, which ends at the slot it started from, finds a
runnable process if that one is runnable; the first place that qualifies exists as the
natural numbers are well-founded.

**AddressSpace.** Page-table entries, table frames and directories are all the same to
the counts: places (`Holder`) that lead to a frame. The first part of the proof is about
places and counts alone: `Exact` says that a count is the number of places that lead to
the frame, plus one if exit left it behind or `bread` took it, and that the free frames
are those with count 0; each kind of change (a place gets a new frame, one more place
gets an old one, places let go, a buffer is taken) has a lemma that it keeps `Exact`.
The places have owners, and the tables of the kernel half are one owner's, so that what
is mapped there is one place, however many processes reach it. `Shared` is the other
half: two places that lead to one frame are the same page of two processes, an image
page that neither may write through. Neither is inductive alone, as a frame taken from
the free list is nobody's only because its count says so. The second part writes each
action, with each way it can fail, as a sequence of these changes. `Inv` adds that slots
without a process lead nowhere (`Blank`) and that only pages that are mapped are
writable (`WritableMapped`). A step is either kept by `Inv` or is the store that
overwrites the kernel (`Broken`), after which no step is taken (`HaltedStays`), so that
`Inv` or `Broken` holds always (`InvAlways`). For `PrivateSpec` the content of a page
changes only when the frame does, or by a store through a writable mapping, which by
`Shared` nobody else has.

**TrapContext.** `ContextSpec` needs two facts that are in no property: in a handler the
frame is still that of the process (`Handling`), and everyone who waits, but for those
preempted in a handler, resumes in user mode (`Resumable`). `Resumed` and `SwitchKeeps`
then say once, for all five steps that dispatch, that whoever is resumed finds the
registers it had.

**FileTable.** `RefcountsExact` counts descriptors, so `Inv` adds that the processes
there are at a time are finitely many. How far a read or write can move the position is
a recursive function of its rounds; that it has values is `Repetition`,
which gets by on the least element of a set of natural numbers in place of induction.

**KeyBuffer.** The invariant is `RingTypeOK`; the work is in the steps, which are loops
over any number of characters. `LoopFound`, `LoopStays` and `UpTo` give a loop its
values and carry a fact from round to round. In place of the code's `%` the proof
counts: `Dist` is how many characters lie between two positions, `Behind` where the
character is that was written so many before the last. `Holds` is what each character of
an interrupt keeps: the ring has the end of everything that was unread or came, and all
of it while there is room. So what is lost is always the oldest part, though that may be
everything, as when a character meets a full ring (`UnreadEnds`). `TakenSo` is what each
round of `cons_read` keeps: as many of the oldest as there were rounds have been copied
and are gone, or all of them (`ReadLeaves`).

**SmpBoot.** `TypeOK` bounds how often the base is in an address, and is not inductive:
a processor that has loaded an address long ago stores its own idea of it later. `Inv`
bounds both, what is in an address and what an addl has loaded, by the number of
processors that are past their store (`Additions`), and says that it is there at least
once if somebody is past. A lone processor then finds it exactly once. `InTurn` adds that
commands reach each processor once, in order, and start no one that runs: the ids are a
set of numbers, and those at the loop's index or before are the ones that may have left
`halted`. `Gate` ties `bspdone` to the end of the loop.

**Vmx.** Frames are in exactly one of five places (`Somewhere`, `Nowhere2`), and no two
guest pages are the same frame; that a page which takes the place of another leaves that
frame in `lost` is what keeps it. For the guest's registers `Inv` adds when the VMCS asks
for an interrupt, that an exit's vector belongs to an interrupt, and that a guest that
runs was launched.

**FileBlocks.** The longest proof, since one step of the model is a whole call. Every
number of a block has an owner: a slot of an inode, or a word of the file's indirect
block (`Owner`, `Numbers`). `Apart` is the heart of the invariant: no two owners hold the
same block, and what nobody holds is free or lost. A call is followed round by round:
`RoundsKeep` says that what each round keeps the call keeps (least elements again), and
`Going` is what a round of `file_write` keeps: `Apart` for the copies the call works on;
the image's own slots and indirect block as they were; `diskno` not in the indirect block,
nor naming it; and the word that the probe expects at this point of the call in its
place. A round may fetch an indirect block and a data block (`WalkKeeps`, `AttachKeeps`:
a free block comes to one owner, or is lost in a copy), then stores into one block
(`StoreKeeps`). Since positions of different blocks have different owners, it changes the
word at the probe exactly when it was asked to, when it went on past the count of the
call, or when the block was not that of the position; the last two are `spilled`
(`StoreHolds`). The properties alone are not inductive. A restart sets the inode table
back to the image's: that this is safe is because the image's blocks stayed where they
were (`DiskApart`), which no property says, and that nothing is stored into the indirect
block is because it has an owner. `mkxxx` gets the same treatment: `Sound` (apart, and
free blocks still zero) and `ImageHolds` are kept from chunk to chunk, also when the disk
is full and the rest of the file is dropped (`ImageMade`). `BlocksInv` is the whole
invariant.

**Only model-checked.** The liveness properties `EveryRunnableRuns`, `ShellRuns`,
`OneOtherStarts` and `Settles`: fairness is beyond the provers here. The four properties of
`Screen`, and with them `FormattedPrint`: their actions are folds over
sequences of any length (a text, a format), and what a fold
computes is induction over data. For `PrintsAsMeant` that is the whole property: that the
digits of a number, joined one by one, are those of the reference.

## 5. Abstractions and what is left out

- Handlers are atomic except in `TrapContext`, `Screen` (the characters they print) and
  `Vmx` (the window of `handle_intr`). The timer can preempt a page-fault
  handler anywhere, also inside `alloc_page`; see the plan.
- Images have one page; the segment loop of exec and the tail of the last page
  (`exec.c` 61-72) are planned.
- `alloc_proc` without a slot reads address 0, which faults unless a program has
  mapped page 0; the model lets it fault.
- A disk transfer is one step and succeeds: `ide.c` polls with interrupts off. Each
  step of a file call stores whole blocks, so a crash within a call leaves what a
  shorter call leaves.
- In `FileBlocks` the behaviour ends where `diskno` is used uninitialised
  (`file.c` 101 after a failed `walk_block` in the first round) or is NULL
  (`file.c` 71; a program that has page 0 mapped would read a 0 there and
  get -1). The pages `bread` takes and never gives back are counted in `AddressSpace`.
- `DiskImage` leaves out the super block and the blocks of bitmaps and inodes, the
  mapping of the image file and names; `mkxxx` is given one file, so the search of
  `alloc_file` and `walk_path` in a directory that has blocks does not happen, and
  neither does a directory of two blocks, where `walk_path` of the kernel would not
  look at the second (`fs.c` 169, `j` is not reset).
- exec opens its file without an entry of the table and does not look at the answer
  (`exec.c` 33): a name that does not exist is read through a pointer from the stack, which
  is not followed (`ExecPanic`). Segments of an image outside [UTEXT, USTACKTOP) are left
  out.
- Frames in `AddressSpace` are in the memory `head.S` maps (10 MB); the kernel has no
  mapping for frames beyond it. `enable_lapic` (`lapic.c` 155-200), in the host build,
  adds a page of device registers to the kernel half; a program that uses it is left
  out. A program that reads a mapped kernel address faults for ever and changes nothing.
- What follows a store into the kernel's own memory, and a fault handler that goes wild.
- `init_smp` and `init_vmx` are compiled in only with `host` defined (`init.c`
  22-29).
- `SmpBoot`: the scan for the signature of the table; more than eight processors
  (`lapic_ids` has eight places); `enable_lapic`; the waits that STARTUP would need; the
  stacks of `entry.S` 72-76; what `ap_startup` prints beside the boot processor.
- `Vmx`: the control fields and segment state; the tables of the EPT; `HOST_CR3` and
  `HOST_RSP`, noted once by `sys_create_vcpu`, so that every exit that returns from
  `vmexit` counts as astray; provision and loading
  before the first `sys_create_vcpu`, and `sys_create_vcpu` and `sys_mmap_mem` with too
  few frames, which write through a null page.
- Port programming and the timing of devices; the boot loader; the page cache, which
  nothing uses; the 32-bit port.

## 6. Plan

Done, in this order: `PageAlloc` with `FramePool` and proofs; `Scheduler` with
`ProcessTable` and proofs; `AddressSpace` with `PrivateMemory`; `TrapContext` with
`Registers`; `KeyBuffer` with `CharQueue`; `FileBlocks`; `FileTable` with `OpenFiles`;
`DiskImage` below `FileBlocks`; `Screen` with `Terminal` and `FormattedPrint`;
`SmpBoot`; `Vmx` with `GuestMachine`.

Proofs, in this order: `PageAlloc`, `Scheduler`, `FileTable`, `Vmx`, `AddressSpace`,
`SmpBoot`, `TrapContext`, `FileBlocks` with `DiskImage`, `KeyBuffer`.

To come:
1. `TypeOK` and `CursorReturns` of `Screen`: `Say` and `Echo` as recursive functions
   instead of folds, so that the loops can be reasoned about as in `KeyBuffer`.
2. `FaultPreempted`: `alloc_page` in steps under `TrapContext`.
3. `PageTables`: the levels of `walk_page` and `free_pgtable` that `AddressSpace`
   collapses, shown to implement them.
4. `MemInit`: memory detection and the layout `PageAlloc` assumes; `ElfLoad`: the
   segment loop of exec.
