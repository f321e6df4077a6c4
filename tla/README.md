# skyOS in TLA+

skyOS is a small RISC-V kernel: a buddy page allocator, Sv39 page tables, a
FAT12/16/32 file system on a ramdisk, user processes with `fork`, `getpid` and
`write`, a timer-driven scheduler. One hart runs everything. This directory
holds models of its parts, TLC runs that check them on small instances, and
proofs about them for instances of every size.

## Inventory

| Part | Code | State | Operations | What must be right |
|---|---|---|---|---|
| Page allocator | `kernel/mm/buddy.c`, `pmm.c`, `include/list.h` | `pages[]` (order, free, flag, link), `buddy_lists[]` (list, `nr`) | `kalloc`, `kfree`, `buddy_statistics` | blocks tile memory; lists, counters and flags agree; calls end; blocks are as large as asked |
| Spin lock | `kernel/sync/lock.c` | `locked` | `acquire`, `release`, `holding` | exclusion; panics only on misuse |
| Traps, system calls, scheduler | `kernel/arch/entry.S`, `kernel/proc/*.c` | `task[]`, `pidmap[]`, `current_task`, `jiffies`, `sscratch_stack`, satp, sscratch, sstatus.SPP | trap entry and return, `do_timer`, `schedule`, `switch_to`, `sys_*`, `execve` | processes do not see each other; ticks are accounted for; everybody runs |
| Virtual memory | `kernel/mm/vms.c`; `umap`, `vma_insert`, `copy_mem_from` of `sched.c` | page tables, `mem_map[]` | `map`, `trans`, `k_pgtable_init` | a user page is mapped to a frame that is its own; fork copies what `mem_map` lists |
| FAT: volume and files | `kernel/fs/fat_core.c`, `write.c`, `bpb.h`, `mbr.c` | sector cache, FAT, file handles | `fat_vol_init`, `fat_read`, `fat_write`, `fat_lseek`, `fat_unlink`, cluster allocation | chains do not share clusters; cache and disk agree; what was written is read |
| FAT: directories | `kernel/fs/direntry.c`, `write.c` | directory entries, `vol->cwd` | `fat_open`, `fat_chdir`, `fat_create`, `fat_mkdir`, `fat_unlink`, `fat_readdir` | a name stands for one thing; a call that fails changes nothing; a listing misses nothing |
| Console and log | `kernel/common/printf.c`, `log.c`, `drivers/console.c`, `user/printf.c` | `LOG_L.lock`, level; a program's `buffer` and `ccount` | `printf`, `log_log`, `write`, `_putchar` | numbers print as in C; a trap handler that logs does not meet its own lock; lines of processes do not mix |
| Ramdisk | `kernel/drivers/ramdisk.c`, `block_dev.c` | sectors | read, write | does not overlap memory the allocator gives away |
| Boot | `kernel/main.c` | - | `pmm_init`, `vms_init`, `trap_init`, ... | the timer is on from `trap_init` on, the first process comes later |
| The rest | `isa.c`, `sbi.h`, `virt.c`, `strings.c`, `logo.c`, `simple_allocator.c`, `unixlike.c`, the programs in `user/` | none that matters | | |

How they interact. `execve` and `fork` call the allocator for page tables and
process memory and never give any of it back; `execve` reads the program from
the file system; the file system reaches the ramdisk, which is plain memory.
Every part logs, and `log_log` takes a lock that interrupt handlers take as
well. The `printf` of a user program collects a line in a buffer of its own and
hands it to `write`, whose handler prints it with the kernel's `printf`. User code reaches the kernel through `trap_entry` only, which saves the
registers to one static frame, `sscratch_stack`; the kernel runs the handler
with interrupts off and leaves through `trap_return`, for the same process or
another one.

What is hard. Interrupts between any two user instructions, and during boot in
the kernel as well; one frame and one kernel stack for all processes; the same
fact kept in several places by hand (three records of "this block is free", the
page table in satp and `current_task`, the sector cache and its tag); counters
that wrap; operations that fail half way and can only panic. `PROJECT.json`
lists the hazards line by line.

## Modules

| Module | Models | |
|---|---|---|
| `PageAllocator` | abstract | What callers of kalloc and kfree are promised: disjoint blocks inside memory, large enough, or the kernel stops. |
| `Buddy` | `buddy.c`, `pmm.c`, `list.h` | The allocator, loop iteration by loop iteration. |
| `MCBuddy` | | Instances of `Buddy`. |
| `FoldFacts`, `SumFacts` | | What folds and sums compute, and the inductions that the proofs use. |
| `BuddyProofs` | | Proofs about `Buddy`. |
| `SpinLock`, `MCSpinLock` | `lock.c` | The lock with its proofs, its instance. |
| `ByteFiles` | abstract | What programs that use files are promised: a file is the sequence of what was written to it. |
| `FatVolume` | `fat_core.c`, `fat_core.h`, `write.c`, `bpb.h`, parts of `direntry.c` | Files on a FAT volume, over the sector buffer and a ramdisk. |
| `MCFatVolume` | | Instances of `FatVolume`. |
| `FatVolumeProofs` | | Proofs about `FatVolume`: the entries of the table and the loops over it; the invariants of all calls. |
| `FatFilesProofs` | | Proofs that its calls come to an end, and that it implements `ByteFiles`. |
| `NamedDirectories` | abstract | What programs are promised of names: a tree of directories in which a name stands for one thing. |
| `FatDirectory` | `direntry.c`, `direntry.h`, the directory half of `write.c`, `print_tree` of `fstest.c` | Slots of directories, long and short names, and the calls that look for, make and remove entries. |
| `MCFatDirectory` | | An instance of `FatDirectory`. |
| `PrivateMemory` | abstract | What programs are promised of their memory: what a program asks for is loaded, copied by fork, and written by its owner only. |
| `AddressSpace` | `vms.c`, memory in `sched.c` | Page tables that live in the memory they map; `execve` and `fork`. |
| `MCAddressSpace` | | Instances of `AddressSpace`. |
| `Processes` | abstract | What user programs are promised: each process is a machine of its own. |
| `Kernel` | `entry.S`, `trap.c`, `syscall.c`, `sched.c` | Traps, system calls, scheduling. |
| `MCKernel` | | Instances of `Kernel`. |
| `KernelProofs` | | Proofs about `Kernel`. |
| `Printf` | `kernel/common/printf.c` (and `user/printf.c`, which differs in `_putchar` only) | What a directive puts out, as the code computes it and as C has it. |
| `Lines` | abstract | What a terminal promises: whole lines, in each writer's order. |
| `Console` | `log.c`, `console.c`, `_putchar` of `user/printf.c`, the printing half of `syscall.c` and `sched.c` | The way of a text to the screen. |
| `MCConsole` | | An instance of `Console`. |
| `ConsoleProofs` | | Proofs about `Console`: the lock, the buffers, the refinement of `Lines`. |

In every model an operator whose name continues that of another after an
underscore (`CopyRegion_Shared`, `Kalloc_HalfTooFar`) is that operator with a
slip a programmer could have made. It is used nowhere; it stands in for `X` to show that a
property would notice.

### Buddy

State: `order`, `free`, `flag` are the fields of `struct Page` for every page
index; `lists[k]` is the list linked from `buddy_lists[k].head`; `nr[k]` is the
counter beside it. `pc`, `size`, `want`, `tmp` and `page` are the locals of the
call under way; `live` is a ghost, the pages handed out. Actions: `Kalloc`
(with `size2order`), then `AllocateTooLarge`, `AllocateExact`,
`AllocateSearch` or `AllocateOverrun`, then one `SplitStep` per iteration of
`buddy_split` and `SplitDone`; `Kfree` or `KfreeRejected`, then one `MergeStep`
per iteration of the merge loop and `MergeDone`.

Two kinds of caller: `Next` frees what it holds (as the kernel's comments ask),
`CarelessNext` frees any page that ever headed a block, twice or through a
pointer kept too long. Freeing a page that never headed a block is left out:
its flag is 0, not `PG_TAIL`, so the test of `buddy.c:190` does not stop it, and
nothing can be said of the allocator afterwards. Two facts about
the build are used: the memory after `pages[]` reads as 0 (the neighbour of
the last block is looked at), and the word after `buddy_lists[]` can be
anything: with no block large enough the search reads `nr` there, at order
`BUDDY_MAX_ORDER`, before it gives up (`buddy.c:180`), although orders end at
`BUDDY_MAX_ORDER - 1` (`buddy.c:11`). `AllocateOverrun` goes either way.

When a call returns its locals are reset (`Return`), so that two states that
differ only in what a finished call left on the stack are one.

Bounds: two chunks, as in the code, three orders instead of 14 (eight pages),
so that there is a smallest order, a largest and one between, that is both
split and merged, and memory runs out within a few calls; sizes below a page,
between two powers of two, of the largest block and one byte beyond it. More
orders only repeat what the middle one does, and the proofs remove the bound.
Sizes are counted in pages modulo 2^32, as in the code; the runs stay below it.

### SpinLock

`acquire()` looks at the lock, panics if it is taken, and then spins on an
atomic swap; `release()` looks, panics if it is free, and stores 0. Look and
swap are separate steps. `holding()`
looks at the word only, not at who took the lock, so a second CPU that finds
the lock taken panics instead of waiting (place `relock`); that is how the code
is, and only the swap makes anybody wait. Four CPUs are enough for one that holds, one that
releases and two that race; the proofs hold for any number.

### Kernel

`at` says what the hart does: `boot` (after `trap_init`), `ready` (`execve` has
set `current_task`), `user`, `entry` (registers saved, `trap_start` next),
`return` (`trap_return`), `panic`, and `wild`, where the hart runs on data that are
not what the code takes them for and nothing more is said. The registers are a record of
`sepc`, counted in instructions, and `a0`, for all the others. `hart` holds
them in U-mode, `frame` is `sscratch_stack`, `context[p]` is
`task[p].context`. `satp` is the owner of the page table installed, `mem[p]`
one cell of p's memory, `alive` the set bits of `pidmap[]` (and with it
`pgtable != NULL`: `alloc_process` sets both). Actions: one instruction of the
user program (`Compute`, `StoreMem`), a trap (`Ecall`, `TimerInterrupt`,
`Fault`, all through `TrapEntry`), the handler as one step, because interrupts
are off (`DoTimer`, `SysGetpid`, `SysWrite`, `SysFork`, `SysForkFails`,
`Unexpected`), and `TrapReturn`.

Three ways lead to `wild`. An allocator with nothing large enough may go on with a
word behind its lists (`buddy.c:180`): `ExecveFails` and `SysForkFails` have that
beside the panic. `syscall` reads `syscall_names[]` for a message before it looks at
the number (`syscall.c:48`); with a number far enough from the array that is a page
fault in the handler, while `sscratch` still holds a program's a0 (`Unexpected`). And
a tick during boot finds no current task (`NoCurrentTask`, in `BootSpec` only).

Left out: what a page table contains and the separate regions of a process
(the cell stands for one region that is mapped; `AddressSpace` has the rest), `write` with
illegal arguments, whose result is not modelled either because the code does
not deliver it, exceptions inside the kernel other than these, other interrupts than the timer
(they panic, as `Fault` does), and `task_struct` fields nobody reads. Programs
do not end: there is no `exit`.

`BootSpec` adds the timer during boot, where interrupts are on. It is separate
because after the first such tick nothing else can be said; the other runs
start from a boot without one. The window in `trap_return` of the very first
switch is not modelled.

`schedule` takes the first other task with more ticks than the current one
(`sched.c:107`), although `sched.c:101` announces the task with the most. The
model does what the code does; no property asks for the maximum.

Bounds: three tasks (so that the task chosen need not be the one with most
ticks, and one can be passed over), one program of one or two
instructions that loops, one value to store. `CounterMod` is the width of counters
and `jiffies`, 2^64 in the code; here it is small enough for both to wrap.

### AddressSpace

`m.ram` is the allocator's memory word by word, and page tables are words in it:
`MapPage` reads and writes them there, and `Leaf` is the hart walking them. A
table that overlaps a program's page, or that is made of memory that is not
clear, therefore does what it would do on the machine. `m.free` are the free
blocks, `m.panic` that a panic has happened in the call. `kroot` is `k_pgtable`,
`root[p]` and `vma[p]` are `pgtable` and `mem_map` of `task[p]`. `trans` of `vms.c`
does in software what `Leaf` does, and is not called. `Leaf` follows
entries of any permission, as the hart follows those that the code writes.

Actions: `KernelTable` and `MapKernel` are `vms_init`, one page of `kmap` for each
step; `FilesystemInit` takes the page of the block device; `Execve` is the whole
of `execve` after the file is open: table, buffer for the file, one `LoadSegment`
for each header, `AddStack`. `Fork` is `alloc_process` and `copy_mem_from`;
`NoFreePid` is its panic at a full `pidmap`. `Store` is any program writing to a
page it may write to, `SwitchTo` a change of process. A call that runs into a
panic has no other effect: nobody looks at memory afterwards. (With nothing large
enough the allocator may go on instead, `buddy.c:180`; that is in `Buddy` and
`Kernel`.)

A segment has `p_memsz` bytes, which `vma_insert` notes as `mem_range`, and `umap`
maps whole pages: a program can use the page that holds a segment's end up to the
page's own end. `copy_mem_from` copies `mem_range` bytes, so what is stored behind
the segment's end is not in the child, which finds zeros there, as `FreeIsClear` has
it. Everything is therefore said word by word. `RegionsKnown`: what `mem_map` lists
is mapped, and what is mapped and not listed lies between a region's end and the end
of that page. `PrivateMemory` has `spare` for these words: loaded as 0, stored to like
any other, and 0 in the child. That is less than `sched.c:146` says ("copy current's
physical memory and map on p"), and what the code does.

Abstracted: the allocator is `Buddy`'s for callers that never free, which is what
the kernel is: one free block of each order below the largest, and the left half
goes out first. A word is as large as a table entry, so that a page has as many
words as a table has entries (512 in the code). Flags are `V`, `RWX` together and
`U`. Memory holds zeros at the start, which is true of the machine but for the
pages the ramdisk image is in.

The file exists and is an ELF file (`execve` panics otherwise, before it has
mapped anything; `Kernel` has that as `ExecveFails`). Further assumed of program
files (`AddressSpaceAssumption`): segments begin at page
boundaries, in pages of their own, below the stack (`vms.c:35`: "I am not sure
behaviour when va & size not aligned"), and there are fewer than `MAX_VMA_NUM`,
so that the stack has a slot. With more, `vma_insert` forgets the stack silently
and a fork has none. The stack and the kernel are in different entries of the top
table, as they are in the code: `alloc_pgtable` shares everything below the
entries of the kernel. (The stack is below the kernel here and above it in the
code, which makes no difference to either.)

`execve` maps the stack to the four pages *before* those it has allocated
(`sched.c:230`). Which pages these are depends on the size of the program. The
images of `address_space` have files of eight pages, as large as the block that
comes before the stack's: the stack lies in the end of the buffer that held the
file, which nobody uses again, and everything is right. `space_stack` has a
program of two pages, and the pages before the stack's are those that the tables
of the process have just been put into. So `address_space` shows that the rest of
the design is sound when the stack happens to be.

Bounds: 64 frames, pages of six words, three levels, so that user pages have
tables of their own at each level and the kernel has several; three processes,
the third by a fork of either of the first two, and a fourth fork that panics.
Two images that can run, with a segment that ends inside a page and with two
segments, so that `mem_map` (three slots) is filled to the last; one file
that is larger than any block. Programs store one value, which would be a valid
entry if it were found in a table, in three places: the last word of a program, the word
behind it, which is the last of its page (both programs end at the same word), and the end of the
stack. No fairness: nothing waits.

### FatVolume

`vol` is the medium sector by sector (`disk`), the one-sector buffer with its
number and dirty mark (`_fat_sector_buf`, `_fat_cache`), and
`last_cluster_alloc`. A sector of the table is a function from offsets in the table
to its cells, a sector of data one from offsets in the sector to bytes, so that reading
one as the other cannot go unnoticed. With `Fat12`, as on the image of the repository, a
cell is a byte: entry c lies in the bytes `Offset(c)` and the next, of which it shares
one with its neighbour, and when `OverBoundary(c)` the second is in the next sector, so
that `GetNext` and `SetCopy` go through the buffer twice, as the code does. Otherwise a cell is an
entry. `handle[f]` is the `fat_file_handle` of file f;
`pc` and `call` are the call under way with its locals; `got` is what the last
`fat_read` delivered. `Flush`, `Get` and `Put` are the three macros, each an
operator from volume to volume, and `GetNext`, `SetNext`, `FindFree`, `AllocNext`
and `FileSync` compose them in the order of the code: what is in the buffer, and
what has reached the disk, is right after each of them, including the buffer that
`fat_alloc_next_cluster` zeroes without renumbering it.

Calls: `Create`, `Open`, `Sync`, `Seek` and `SeekNowhere` (a `whence` that `fat_lseek`
does not know) are one step each. `WriteStart`, then
one `WriteSector` or `WriteAcross` for each iteration of the loop in `fat_write`,
then `WriteDone`; `ReadStart`, `ReadSector`, `ReadDone`; `UnlinkStart`, one
`UnlinkStep` for each cluster, `UnlinkDone`. `Lose` is a call that touches sectors
or entries that are not where it believes them to be; nothing is said after it.

Abstracted: an entry of a FAT16 or FAT32 is one value, without the four bits that
FAT32 keeps for others; a directory is one entry for each name, each in a sector of its own, and
`fat_open` reads the sectors up to the one it looks for. No call is interrupted.
The ramdisk does not fail, so the `-EIO` paths cannot be taken.

`AnyNext` lets programs make any call. `Next` is for careful programs, and each
thing it excludes is a place where the code does not keep the promise:

* reading an empty file, or seeking in one (`fat_core.c:192` and `:150` take size
  0 for "no limit");
* writing on after the volume was full at the end of a cluster (`write.c:240`
  leaves the handle in the cluster it filled);
* writing to, or unlinking, a file that the host put on the image, because of its
  end mark (`fat_host_chain`);
* `fat_lseek` with a `whence` that is none of the three: it returns -1 when it has already set
  `cur_cluster` back, and the position stays (`fat_core.c:138`, `:147`);
* opening or unlinking a file with a size that has not been written back
  (`O_ASYNC` without `fat_file_sync`).

And one file has one handle: with two, each of them would give an empty file a
first cluster (`write.c:197` looks at the handle), and sizes of one go over those
of the other. The code has no table of open files that could tell.

Bounds: 22 sectors, of which 12 are data: six clusters of two sectors of two
bytes. One is the host's and the search never looks at the last two, so three
are there to be allocated; a write of five bytes needs two, and two files fill
the volume. Three files, so that one can be between two. Each copy of the table is
three sectors of four bytes (`CellsPerSector`): the entries of cluster 2, which is
even, and of cluster 5, which is odd, lie in two sectors each, and both are
allocated, linked and freed. The size of a table's sector is apart from that of a sector
of data, since the code never relates the two. There are fewer clusters than the type of
the table allows (`fat_type`, `bpb.h:118`), which is what keeps the number of a cluster from being an end
mark; `FatVolumeAssumption` has that for FAT12 and FAT16. Two copies, as
mkfs.fat makes; with one, the buffer zeroed by `Clear` claims to be the table that
the next call reads, and `TableNotStale` does not hold. Seven calls (`MaxCalls`):
to create two files, fill the volume, remove one, create a third and write it
into what was freed takes seven. The data begin at sector 10, a multiple of the cluster size;
`fat_misaligned` has them at an odd sector, and entries of 16 bits.

No fairness is assumed: `CallsEnd` says that every step of a call brings it nearer
to its end, by a measure of what is left to do, and TLC finds no state in which a
call is stuck. Together they are that every call returns if it goes on.

### FatDirectory

A directory is a sequence of slots of 32 bytes: `Empty` (which ends it), `Deleted`,
a volume label, a long entry with its part of the name and the checksum of the
short one, or a short entry. `dirs` are the directories in the order they were
made, `free` the clusters nobody has, `cwd` is `vol->cwd` with its position,
`reader` a program that lists a directory one `fat_readdir` at a time while other
calls change it. A name is a sequence of ASCII codes, since short names are made
from letters and checksums from bytes; `BuildShort`, `Checksum`, `Display`,
`Canonical` and `strrchr` compute what the code does.

`Rows` and `NameOf` are `fat_readdir`: the entries that a search comes to, each
with the long ones before it that count as its own. `Hits` is `fat_open`'s test. A
call is one step (nothing interrupts the file system): `CreateFile`,
`MakeDirectory`, `CreateRefused`, `CreateFails` (with what was written before it
failed), `Open`, `Chdir`, `ChdirFails`, `Unlink`, `UnlinkFails`; `OpenDot` and
`ReadNext` are the steps of a listing. `SeekEmpty` finds the place for new entries, and
`WriteSlot` writes one, with the root that does not grow and the directories that
take a cluster when their last slot is written.

What careful programs avoid, each a place where the code does not keep the promise:

* names with "~": a short name made by `build_short_name` can hide behind, or in front
  of, such a name;
* names that are not ASCII, which can be created and then not found
  (`ascii_from_utf16`), and names that begin with a dot and are longer than eleven
  characters, which run over `canonname` (`direntry.c:173`);
* `fat_chdir` to a file, which is not refused;
* listing a directory after a search that failed in the last slot of its last cluster:
  the search has left the end mark in `vol->cwd.cur_cluster` (`fat_core.c:213`),
  `fat_open` of "." copies it, and `fat_readdir` reads the sector of that cluster
  (`OpenDot` asks for a slot to go on from);
* creating in a subdirectory that is full on a volume that is full: the slot after
  the last one is written over the beginning of the last cluster (`w.full`, from
  `write.c:240`);
* unlinking in a directory from which the volume's `cwd` has moved away is not
  possible at all: every call works on `cwd`.

Bounds: a root of twelve slots in which the host has left a label, a short name
alone, a run of two deleted entries, a long name of two entries and one that is
not ASCII; subdirectories of four slots in a cluster and two free clusters; three
new names, two of which have the same short name but for the number, and one that takes
two long entries; long entries of six characters instead of 13, two short names
tried instead of nine. Four calls: to fill a directory, remove an entry and create
another over it, or to fail for want of a slot, of a cluster and of a short name.

### Printf and Console

A directive is a record; `FormatOf` is its text, `Parse` reads that as the loop of
`_vsnprintf` does, and `Text` is what comes out of `_ntoa_long`, `_ntoa_format` and
`_out_rev` with the buffer of `NtoaSize` characters. `Meaning` is what C asks for.
A width or a precision may come from an argument, negative ones included (a negative
width is "-" and its value, a negative precision is 0 in the code and none in C:
`printf.c:671`). The two agree but for the formats that `Lossy` describes, and disagree for
all of those: `AsInC` has both directions.

`Console` puts that on its way. `kernel` is what a handler has still to do: steps
that take or give back `LOG_L.lock`, print, copy the user's line or choose a process.
The kernel runs with interrupts off, so no tick falls between two of them; in user
mode a tick can come between any two steps of `Printf`, `PutChars` (characters up to
the end of a line, into `buffer`), `write` and `ResetCount` (`ccount = 0`).
`Copied` is `memcpy` to the buffer on the kernel's stack, over what an earlier call left
there. `BootLog` are the messages before the first process; `Execve` and `Fork` show
the memory map, after a message nobody sees, `Unseen`, which stands for those of
`alloc_pid`, `alloc_pgtable` and `map` in a row, as each takes the lock and gives it
back; `Tick` logs which process is next (`Schedule` may take any: `Kernel`
has the rule).

Two locks are one step or nothing here: `console.c` has a lock of its own around
each character, which is free again before anything else can happen. Left out: a tick
during boot (`Kernel`'s `BootSpec` has the tick; one inside `log_log` would find
`LOG_L.lock` taken, panic, log that, and panic again without end), a program that forks
with a call of `printf` half done, and lines longer than the buffers: `sys_write`
copies `len` bytes to 256 on the kernel's stack, and `_putchar` looks at no limit of
its 1024. `MaxHeld` keeps programs within both.

Bounds: three processes (one prints, one forks, one is forked), two calls that
programs make: a character that leaves the line open, and one that ends a line
twice around a number. About 4000 directives, each logged once in the boot: all
flags, widths and precisions (also negative, from an argument) about a few values at the ends of their types, on types
of 3, 4, 5 and 8 bits and a buffer of six digits, so that numbers fill it.

### Fairness

The hart keeps executing the kernel (`WF` of `KernelStep` in `Kernel` and `Console`: it runs
with interrupts off and has no loop that waits), and the timer keeps ticking.
The latter is strong fairness: `do_timer` sets the timer again before it
returns, and a timer that expires in the kernel is pending and taken on the
return to U-mode, so a program that does nothing but system calls cannot avoid
it. User programs owe nothing. `Buddy`: a call under way goes on. `SpinLock`: a
CPU inside `acquire` or `release`, or holding the lock, goes on; nobody has to
ask for it.

## Runs

| Run | Shows |
|---|---|
| `buddy` | `TypeOK`; `Tiling`: blocks cut memory up at every step; `ListsAgree`: flags, lists, counters and holders agree; `FreeAccounting`: `buddy_statistics` plus what is held is all of memory; `CallsSound`: the panics inside `buddy_split` are unreachable; `OrderStable`; `CallReturns`; `KeepsPromise`: `Buddy` implements `PageAllocator` |
| `spin_lock` | `MutualExclusion`, `WordMatchesHolder`, `SomebodyGetsIn` |
| `fat_volume` | `FatSound`: no cluster is shared, lost or without an end; `CopiesAgree`: so do the copies of the table, at every step; `SizeFitsChain`; `TableNotStale`: a clean buffer with the number of a table sector has its contents; `EntryUpToDate`; `CallsEnd`; `KeepsFiles`: `FatVolume` implements `ByteFiles` |
| `address_space` | `KernelMapped`: every process's table maps all of the kernel and lets no process touch it; `FreeIsClear`: memory that may become a page table holds zeros; `Apart`: no frame of a process is free, a table, or another's; `RegionsKnown`: what `mem_map` lists is mapped, and what is mapped besides lies behind a region's end in the same page; `KeepsMemory`: `AddressSpace` implements `PrivateMemory` |
| `fat_directory` | `ListedOpens`: short names differ, and a name that was listed opens the entry that was listed; `EndMarked`: nothing lies behind the end; `ReadsEach`: a listing sees each entry that stays, once; `KeepsTree`: `FatDirectory` implements `NamedDirectories` |
| `kernel` | `UserReady`: every trap finds sscratch and satp in order, and only an empty allocator or a system call without a name leads to `wild`; `TicksAccounted`: jiffies + counters = ticks given out, modulo the width; `Isolation`: `Kernel` implements `Processes`; `FreshGetsTick`: a new process gets its first tick |
| `console` | `FormatsAsC`: `printf` prints what C asks for, but for the formats listed below; `UserModeUnlocked`: no handler leaves the log's lock taken or meets it; `TrapReturns`: the kernel comes to the end of what it prints; `KeepsLines`: `Console` implements `Lines` |

Runs that end in a counterexample, each against a statement of the repository:

| Run | The repository says | The code does |
|---|---|---|
| `fat_misaligned` | a cluster ends relative to the data region (`fat_core.c:208`) | `fat_write` takes the sector's number on the volume (`write.c:236`) |
| `fat_host_chain` | what is returned is allocated (`write.c:147`) | an end mark of the host's is returned as a cluster (`write.c:150`) |
| `kernel_boot_tick` | a tick from S-mode just returns (`sched.c:140`) | stores registers through `current_task` first (`trap.c:115`) |
| `space_stack` | the stack is separate, and four pages are allocated for it (`sched.c:220`, `:224`) | it is mapped to the four pages before them (`sched.c:230`) |
| `kernel_starvation` | scheduling is stable (`README.md:19`), tasks wait for running (`sched.h:9`) | with all counters at 0 the current task keeps the hart (`sched.c:105`) |

The counter of `sched.h:73`, "ticks remain for running", goes from 0 to the
largest value in `kernel_starvation`. `FreshGetsTick` and `kernel_starvation` belong together: the first tick of a
process is certain, the ones after all counters are used up are not.

## Proofs

All theorems are about the safety part of the specifications and hold for all
values of the constants that the `ASSUME` of the module allows.

* `FoldFacts` and `SumFacts`: induction, for the rest. The library's induction
  theorems have an operator for a parameter, which the provers cannot instantiate.
  What they can do: a set of naturals has a least element (`NatLeast`, from
  `WFMin` of the library), and so does what fails in a finite set (`SetInduction`). From
  these come `FoldOne`, the equation of `MapThenFoldSet`, and `LoopRun`, that a
  fold over a sequence is the last of a row of values each made from the one before. The
  operator that is folded is a constant of the module, and each fold has an
  instance of its own: `SumFold` for sums, and five for the loops of the file system.
* `BuddyProofs`, from `BuddyAssumption` (Span is the powers of two, at least one
  order and one chunk). The inductive invariant is `TypeOK /\ Tiling /\
  ListsAgree /\ CallsSound`. None of the four is inductive alone: a split keeps
  the tiling because the head of the list is a free head of exactly that order
  (`ListsAgree`), the lists stay right because blocks do not overlap
  (`Tiling`), and both need the block that is being split or merged to be what
  the locals say (`CallsSound`). It is proved of `CarelessNext`, of which
  `Next` is a part, so `TypesCorrect`, `BlocksTile`, `ListsCorrect` and
  `SplitNeverPanics`, which the run checks with careful callers, hold with callers
  that free twice or late as well. So does `NothingLeaks` (`FreeAccounting`): what
  `buddy_statistics` counts and what is held are all of memory, because the blocks
  tile it and each is in a list, in a caller's hands or in those of the call under way.
  `OrdersStable` is the action property, and `Implements` the refinement: under the further
  assumption `SizesFit` (no size reaches 2^32 pages: beyond, `size2order` loses
  the high bits of the page count, `buddy.c:77`, and a small block is returned) `Buddy`
  implements the safety part of `PageAllocator`.
* `SpinLock`: `LockExcludes` and `WordIsRight`, for any set of CPUs. They
  carry each other: exclusion holds because the word says whether there is a
  holder, the word is right because there is at most one. `TypeOK` is the third part
  of the invariant (`LockInductive`), and is proved rather than run.
* `KernelProofs`, from `KernelAssumption`: `TypesHold` and `AlwaysReady`. The
  invariant adds to `TypeOK` and `UserReady` (with the causes that lead to `wild`) that before `execve` there is no
  process and memory is clear, and that after it the current one is alive.
  `TicksAddUp` (`TicksAccounted`) is by the sum over tasks: a tick takes one from a
  counter and gives it to `jiffies`, a fork gives out `INITIAL_COUNTER` more, each
  modulo the width. `KeepsApart` is that `Kernel` implements `Processes`. Trap
  entry, return and switches only move registers between the hart, the frame
  and the contexts, which the mapping `Machine` does not show; each system call
  is one step of the process that made it; `fork` is one step of two.
* `FatVolumeProofs`, from `FatVolumeAssumption`, about the table: `EntrySet`, what `SetNext` leaves in
  every copy of the table and what `GetNext` finds there, wherever an entry lies and
  whatever the buffer holds. Going through the buffer does not
  change what one sees of the table (`GetCells`, `PutCell`), the two halves of
  `SetCopy` change two cells (`Writes`), and of the byte that two entries share each
  changes its own half (`RoundTrip`, `Neighbours`, `Shared`). The other lemmas are on the loops:
  what `FindFree` finds, where the walk along a chain ends, which
  sectors `fat_open` has looked at.
* `FatVolumeProofs`, about the calls: `VolumeTyped`, `CopiesStayEqual`, `ZerosNotRead`,
  `ChainsStaySound`, `EntriesToldInTime` and `SizesFitChains`. With `CallsComeToEnd` and
  `FilesKept` of `FatFilesProofs` they are all properties of the run,
  for every geometry, number of files and sequence of calls that `Next` allows.
  The hypothesis `Mirrored` is that there are two copies of the table or more:
  with one, the buffer that `fat_alloc_next_cluster` has zeroed goes on as a sector of the
  table that is read, and the theorem would be false (see the bounds of the run).
  The inductive invariant `Inv` is
  - `Typed`: in particular the medium and the buffer, and that a buffer that does not agree
    with the disk is dirty or a sector of the last copy, which nobody reads;
  - `Agree`: the copies say the same cell by cell, buffer included;
  - `HandleInv`, `EntryInv`: an open handle has an entry, a file without a first cluster is
    empty in both, and an entry is what the handle says or will be told by the
    call under way (`Untold`);
  - `CallInv`: the locals of a call point into the volume;
  - `Linked`: there are an owner and a rank for each cluster such that (`ChainsOf`) a cluster
    is taken if and only if it is owned; the next cluster has the same owner and the next rank;
    who is not his owner's first comes after another.
  `Linked` is a local statement, which each change of an entry can be seen to keep
  (`FirstLinked`, `NextLinked` and those after them). That a chain goes through all its owner
  has and ends (`FatSound` follows the links by a recursive function) comes out of it at the
  end, as ranks grow along the chain and clusters are finitely many. During
  `fat_unlink` the file begins at the cluster the call has come to (`Start`),
  since the entry of the directory names the old first cluster until the end.

  `SizesFitChains` and `CallsComeToEnd` have a second hypothesis, `Aligned`: the data begin at
  a multiple of the cluster size. The code takes a sector number's remainder for the place
  in the cluster (`write.c:236`), and on the volume of `fat_misaligned` TLC finds
  `SizeFitsChain` violated, and `KeepsFiles` (`CallsEnd` it does not; the
  proof of it needs the sizes). Under
  `Aligned`, `Linked` says in addition (`Measured`) that the rank of a
  cluster is the number of clusters that the bytes before it fill: a handle is in
  the cluster of its position (`InPlace`), `fat_write` in the sector, and what the directory
  and the handles say is reached by the chain (`Covers`). For `CallsComeToEnd` that is what
  rules out the end of the chain in the middle of a call; that a call's position stays within the
  file while it reads or writes is the one thing to add (`Bounded`), and that the
  clusters `fat_unlink` has not freed yet become fewer follows from `Linked`.
* `FatFilesProofs`: `CallsComeToEnd`, of which above, and `FilesKept`, that `FatVolume` implements
  `ByteFiles` (`KeepsFiles`). To `Mirrored` and `Aligned` it adds `WritesBounded`: there is a largest
  write, as there is for a `size` of 32 bits. It is what gives `MaxWrite`, and so the texts that
  `ByteFiles` is given, a meaning. Each call is stutters and one step
  of `ByteFiles`, `fat_write` one for each sector: `fat_create`, `fat_open`, `fat_lseek` when they are called, `fat_write`
  each time it has put bytes into a sector, `fat_read` when it returns, `fat_unlink` when it
  starts. The argument is
  - `BytePlace`: owner and rank of the clusters (`Linked`) say where byte p of a
    file is, and that no other byte is there (`Lies`);
  - `TextStands`: so a step that leaves alone the clusters that a file owns leaves its text. Every
    call leaves those of the other files (`OthersStay`), and `SetNext`, `Clear` and the
    buffer do nothing to sectors that are not theirs (`WriteReaches`);
  - `WriteText`: what `fat_write` puts into the sector is what `Overwritten` asks for, also
    at the end of a cluster, where the chain has grown by one that was free (`WriteChain`), and
    at the end of the file, where the text gets longer while the size still is the old one;
  - `Track`, the one invariant that is new: a handle that is not at the end of its file stands in the
    cluster of its position (`Standing`), and what `fat_read` has put out so far is what lies between
    where it began and where it is, and does not end early (`Heard`); a call of `fat_write` still has
    the value and the size it was given (`Said`).
* `ConsoleProofs`: `LogLockFree`, `TypeCorrect` and `LinesKept`, for any number of processes
  and any texts. For the lock (`UserModeUnlocked`) the invariant `LockInv` says of what is left
  of a handler that its steps can be taken one after the other from the lock as it is now, that
  none is a panic and that the lock is free at the end; it is kept because each
  handler is put together from texts of that kind (`Balanced`) and a schedule happens
  with the lock free. For `TypeOK` and the refinement of `Lines` (`KeepsLines`), `TextInv` adds
  - `Buffers`: what a program's buffer holds has not ended a line (`Open`) until `write` is
    called, is exactly one line (`Ended`) from then until `ccount` is reset, and leaves room
    for the zero that `sys_write` puts behind it: so the copy on the stack prints as the line
    it is, whatever the stack held (`CopyPrinted`);
  - `Writing`: `write` is among the steps that are left if and only if the current process
    has called it, so the line that is printed is the one of the process that waits for it;
  - `Cursor`: the steps of a handler make whole lines of what the cursor's line holds and
    what they print (`Orderly`), and a `write` or a schedule comes last, with the cursor at the
    beginning of a line. It is what keeps the kernel's lines and the programs' from mixing.

  Three assumptions of `Console` are about the texts, which the proofs take as they come: what can be
  printed is a set `Character` with the letters of the kernel's own messages in it, a process's number
  is not the end of a line (`CharacterAssumption`), a call of `printf` puts out no zero
  (`_out_char` keeps it back) and a message of the log ends at most one line, at its end
  (`TextAssumption`; of the messages in code that runs, `fstest.c:45` has a newline, the last
  character of its format). What `TextOf` computes for a format is `Printf`'s and
  model-checked; TLC evaluates the assumptions for the calls of the run.

Only model-checked:

* `CallReturns`, `SomebodyGetsIn`, `FreshGetsTick`, `TrapReturns` (liveness), and the
  violations, each of which is about one instance;
* `AddressSpace`: `Map` folds over pages, levels and words of a memory that holds its own
  tables. The induction for it is there (`LoopRun`), the lemmas on walks through
  memory that changes are not;
* `FatDirectory`, `Printf`: they compute with sequences of characters and declare
  recursive operators or use those of the community modules, which the prover cannot load.

## Observed

What the code does that the models reproduce, or that was met on the way, and that no
run states as a violation because nothing in the repository says otherwise:

* `strrchr` returns the place after the character it looks for (`strings.c:64`). So
  `build_short_name` leaves out the first character of an extension, and finds nearly every
  name in need of a number: "ab.txt" is "AB~1.XT".
* `fat_readdir` leaves out a character as well when it shows a short name without a
  long one: the loop over the spaces and the `i++` of the outer loop both step
  (`direntry.c:117`). "AB.TXT" is listed as "ab.xt". A name without an extension is right.
* `fat_unlink` leaves the long entries where they are (`write.c:283` says so), so only
  single slots become free, and `_fat_dir_seek_empty`, which looks for two at least, uses
  them when neighbours are deleted by the host or end up beside each other.
* A `fat_mkdir` that fails when it writes its entry has already taken a cluster, which
  nobody gives back (`write.c:351`).
* `fat_open` of "." copies `vol->cwd` with its position, so a listing starts where the
  last search in that directory ended (`direntry.c:197`).
* `printf`: "-" with a precision ignores the precision; "%#2x" of 26 loses a digit to the
  mark when the number fills its width, "%#03x" when it leaves one; "%#b" filled with
  zeros is one too wide; "%#.3o" has one zero too many and "%#.0o" of 0 prints
  nothing; a negative precision from an argument ("%.*d", "%.*s") counts as 0, so that a 0 has
  no digits, "0" fills no width and a string is empty, where C takes it as not given
  (`printf.c:671`); more than 32 characters of a number are cut off; "%hhd" of a negative
  value prints it unsigned, because `char` has no sign on RISC-V.
* A fork loses what a program has stored behind a segment's end, in the page that holds
  the end: `copy_mem_from` copies `mem_range` bytes, `umap` maps whole pages (`sched.c:153`;
  see `AddressSpace`).
* `syscall` reads `syscall_names[]` at the number it was given, and then tests the number
  (`syscall.c:48`).
* A message that is data is used as a format (`log_info(tmppath)` in `fstest.c`).
* A fork while a line is half printed makes both processes print that half, which
  `Lines` allows.

## Not modelled

* Floating-point conversions of `printf`, `sprintf` and `snprintf` (the same formatting
  into a buffer), `log_set_quiet`, reading from the console.
* `unixlike.c`, `simple_allocator.c`, `virt.c`, `logo.c`: nothing calls them, or nothing
  depends on what they do.
* CSR accesses and SBI calls, but for what they do to `satp`, `sscratch`, `sstatus.SPP`
  and the timer.
* That the ramdisk's sectors lie in memory that the page allocator may hand out
  (`ramdisk.c:12`): the address is that of the board's image, which is beyond what the models
  of memory know.
* The upper four bits of a FAT32 entry, which are kept as they are (`write.c:59`).

## Plan

In this order, each with its theorems where named:

1. `List`: the pointers of `list.h`, refining the sequences of `Buddy`. Theorem:
   the refinement.
2. `Kernel` over `AddressSpace`: fork and execve with real regions, and an
   abstract view of `AddressSpace`, processes to sets of frames, whose steps can be
   proved to keep them apart for every number of frames.
3. `FatDirectory` over `FatVolume`: slots written through the sector buffer.
4. The order in which fresh processes run, in `Kernel`.
