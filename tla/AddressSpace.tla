---------------------------- MODULE AddressSpace ----------------------------
(***************************************************************************)
(* Page tables and process memory: vms.c, and the part of sched.c that     *)
(* gives a process its memory (execve, fork).                              *)
(*                                                                         *)
(* Memory is counted in words of the size of a page table entry, so that a *)
(* page has as many words as a table has entries. The kernel is mapped one *)
(* to one, so physical and virtual pages have the same numbers. A call     *)
(* runs from its beginning to its end: system calls do so with interrupts  *)
(* off (what a tick during boot does is in Kernel). Memory is never given  *)
(* back.                                                                   *)
(***************************************************************************)
EXTENDS Integers, Sequences, FiniteSets, SequencesExt

CONSTANTS
  Fanout,          (* entries of a table, words of a page: 512             *)
  Levels,          (* levels of a page table: 3                            *)
  KernelStart,     (* page of kernel_start                                 *)
  MemStart,        (* page of pmm_start, which is kernel_end               *)
  MaxOrder,        (* BUDDY_MAX_ORDER; memory is two of the largest blocks *)
  StackTop,        (* SV39_USER_SP_ADDR                                    *)
  StackPages,      (* 4                                                    *)
  NR_TASK,
  MAX_VMA_NUM,
  Images,          (* program files                                        *)
  StoreAddresses,  (* where programs store                                 *)
  Values           (* what they store                                      *)

PGSIZE == Fanout
NrPages == Fanout ^ Levels
Frames == MemStart .. MemStart + 2 ^ MaxOrder - 1
KernelPages == KernelStart .. MemStart + 2 ^ MaxOrder - 1
UserPages == 0 .. KernelStart - 1
Pids == 0 .. NR_TASK - 1
StackSize == StackPages * PGSIZE

(* An image is a file of words, and the segments that its program headers   *)
(* describe. They begin at page boundaries, each in pages of its own, and   *)
(* with the stack there are no more than mem_map has room for.              *)
LastPage(s) == (s.vaddr + s.memsz - 1) \div PGSIZE

ASSUME AddressSpaceAssumption ==
  /\ {Fanout, Levels, MaxOrder, StackPages, NR_TASK, MAX_VMA_NUM} \subseteq Nat \ {0}
  /\ 0 < KernelStart /\ KernelStart <= MemStart /\ MemStart + 2 ^ MaxOrder <= NrPages
  /\ StackTop % PGSIZE = 0 /\ StackTop \in StackSize .. KernelStart * PGSIZE
  /\ \A image \in Images :
       /\ Len(image.segments) < MAX_VMA_NUM
       /\ \A i \in DOMAIN image.segments :
            LET s == image.segments[i]
            IN  /\ s.vaddr % PGSIZE = 0 /\ s.memsz > 0 /\ s.filesz \in 0 .. s.memsz
                /\ s.off + s.filesz <= Len(image.words)
                /\ s.vaddr + s.memsz <= StackTop - StackSize
                /\ \A j \in 1 .. i - 1 :
                     LET t == image.segments[j]
                     IN  LastPage(t) < s.vaddr \div PGSIZE \/ LastPage(s) < t.vaddr \div PGSIZE

VARIABLES
  m,         (* the memory: words, free blocks, and whether there was a panic *)
  mapped,    (* how far kmap has come                                        *)
  kroot,     (* k_pgtable, a page                                          *)
  root,      (* pgtable of each process, 0 if it has none                  *)
  vma,       (* mem_map of each process: the slots in use                  *)
  current,   (* current_task, and with it the page table in satp           *)
  at         (* how far the kernel has come: "boot", "vms", "execve", "user", "panic" *)

vars == <<m, mapped, kroot, root, vma, current, at>>

Alive == {p \in Pids : root[p] # 0}
Least(S) == CHOOSE x \in S : \A y \in S : x <= y

-----------------------------------------------------------------------------
(* The page allocator. With nothing ever given back it has at most one free *)
(* block of each order but the largest, and the left half of a split goes   *)
(* out first (Buddy models it in full). With no block large enough it stops *)
(* here; that it may go on with a word behind its lists (buddy.c:180) is in *)
(* Buddy's AllocateOverrun and Kernel's SysForkFails: nothing can be said   *)
(* of memory then.                                                          *)

Size2Order(size) ==
  LET n == size \div PGSIZE
      k == CHOOSE k \in 0 .. n : 2 ^ k <= n /\ n < 2 ^ (k + 1)
  IN  IF size > 2 ^ k * PGSIZE THEN k + 1 ELSE k

Kalloc_HalfTooFar(mm, size) ==
  LET want == Size2Order(IF size < PGSIZE THEN PGSIZE ELSE size)
      fit == {k \in want .. MaxOrder - 1 : mm.free[k] # {}}
      k == Least(fit)
      b == Least(mm.free[k])
      Split(j) == CASE j = k -> mm.free[j] \ {b}
                    [] j \in want .. k - 1 -> {b + 2 ^ (j + 1)}
                    [] OTHER -> mm.free[j]
  IN  IF fit = {} THEN [m |-> [mm EXCEPT !.panic = TRUE], page |-> MemStart]
      ELSE [m |-> [mm EXCEPT !.free = [j \in DOMAIN @ |-> Split(j)]], page |-> b]

Kalloc(mm, size) ==
  LET want == Size2Order(IF size < PGSIZE THEN PGSIZE ELSE size)
      fit == {k \in want .. MaxOrder - 1 : mm.free[k] # {}}
      k == Least(fit)
      b == Least(mm.free[k])
      Split(j) == CASE j = k -> mm.free[j] \ {b}
                    [] j \in want .. k - 1 -> {b + 2 ^ j}
                    [] OTHER -> mm.free[j]
  IN  IF fit = {} THEN [m |-> [mm EXCEPT !.panic = TRUE], page |-> MemStart]
      ELSE [m |-> [mm EXCEPT !.free = [j \in DOMAIN @ |-> Split(j)]], page |-> b]

FreeFrames == UNION {UNION {b .. b + 2 ^ k - 1 : b \in m.free[k]} : k \in 0 .. MaxOrder - 1}

(* memcpy of a sequence of words to address pa on. *)
Memcpy(mm, pa, words) ==
  [mm EXCEPT !.ram =
     [f \in Frames |->
        IF f \in pa \div PGSIZE .. (pa + Len(words) - 1) \div PGSIZE
        THEN [i \in 0 .. PGSIZE - 1 |->
                LET k == f * PGSIZE + i - pa + 1
                IN  IF k \in DOMAIN words THEN words[k] ELSE @[f][i]]
        ELSE @[f]]]

-----------------------------------------------------------------------------
(* Page table entries: ten bits of flags in the code, five here. *)

PTE_V == 1
PTE_RWX == 2 + 4 + 8
PTE_U == 16

Pte(page, flags) == page * 32 + flags
pte2ppn(e) == e \div 32
valid(e) == e % 2 = 1
user(e) == valid(e) /\ (e \div PTE_U) % 2 = 1

PX(level, va) == (va \div (PGSIZE * Fanout ^ level)) % Fanout

(* map(), of one page: go down, making the tables that are not there. A     *)
(* table made is whatever kalloc returns, cleared or not. An entry that     *)
(* leads out of memory is an exception in the kernel, which panics as a     *)
(* second mapping does.                                                     *)
MapPage(mm, table, va, pa, perm) ==
  LET Descend(w, level) ==
        LET e == w.m.ram[w.a][PX(level, va)]
            new == Kalloc(w.m, PGSIZE)
            Put(mem, entry) == [mem EXCEPT !.ram[w.a][PX(level, va)] = entry]
        IN  CASE w.m.panic -> w
              [] ~w.m.panic /\ valid(e) /\ (level = 0 \/ pte2ppn(e) \notin Frames) ->
                   [w EXCEPT !.m.panic = TRUE]
              [] ~w.m.panic /\ valid(e) /\ level > 0 /\ pte2ppn(e) \in Frames ->
                   [w EXCEPT !.a = pte2ppn(e)]
              [] ~w.m.panic /\ ~valid(e) /\ level > 0 ->
                   [m |-> Put(new.m, Pte(new.page, PTE_V + perm)), a |-> new.page]
              [] ~w.m.panic /\ ~valid(e) /\ level = 0 ->
                   [w EXCEPT !.m = Put(w.m, Pte(pa \div PGSIZE, PTE_RWX + PTE_V + perm))]
  IN  FoldLeft(Descend, [m |-> mm, a |-> table], [k \in 1 .. Levels |-> Levels - k]).m

Map(mm, table, va, pa, size, perm) ==
  FoldLeft(LAMBDA mem, k : MapPage(mem, table, va + (k - 1) * PGSIZE, pa + (k - 1) * PGSIZE, perm),
           mm, [k \in 1 .. (size + PGSIZE - 1) \div PGSIZE |-> k])

(* The hart's translation: the entry of va at level 0, or 0.                *)
Leaf(mm, table, va) ==
  LET walk[level \in -1 .. Levels - 1, e \in Nat] ==
        CASE level = -1 -> e
          [] level >= 0 /\ valid(e) /\ pte2ppn(e) \in Frames ->
               walk[level - 1, mm.ram[pte2ppn(e)][PX(level, va)]]
          [] OTHER -> 0
  IN  walk[Levels - 1, Pte(table, PTE_V)]

Read(mm, table, va) == mm.ram[pte2ppn(Leaf(mm, table, va))][va % PGSIZE]

-----------------------------------------------------------------------------
(* The memory of a process under construction: x.m, x.root, x.vma. *)

(* alloc_pgtable *)
AllocPgtable_Cleared(mm) ==
  LET t == Kalloc(mm, PGSIZE)
  IN  [m |-> [t.m EXCEPT !.ram[t.page] = [i \in 0 .. Fanout - 1 |-> 0]],
       root |-> t.page, vma |-> <<>>]

AllocPgtable(mm) ==
  LET t == Kalloc(mm, PGSIZE)
  IN  [m |-> [t.m EXCEPT !.ram[t.page] = mm.ram[kroot]], root |-> t.page, vma |-> <<>>]

(* A region that finds no slot is forgotten. *)
VmaInsert_LastSlotKept(regions, va, size) ==
  IF Len(regions) < MAX_VMA_NUM - 1 THEN Append(regions, [start |-> va, range |-> size])
                                    ELSE regions

VmaInsert(regions, va, size) ==
  IF Len(regions) < MAX_VMA_NUM THEN Append(regions, [start |-> va, range |-> size])
                                ELSE regions

Umap(x, va, pa, size) ==
  [x EXCEPT !.vma = VmaInsert(@, va, size), !.m = Map(@, x.root, va, pa, size, PTE_U)]

(* One PT_LOAD header in execve. *)
LoadSegment(x, image, s) ==
  LET tmp == Kalloc(x.m, s.memsz)
      pa == tmp.page * PGSIZE
      copied == Memcpy(tmp.m, pa, SubSeq(image.words, s.off + 1, s.off + s.filesz))
  IN  Umap([x EXCEPT !.m = copied], s.vaddr, pa, s.memsz)

(* The four pages that execve allocates for the stack, and those it maps.   *)
AddStack_Above(x) ==
  LET stack == Kalloc(x.m, StackSize)
  IN  Umap([x EXCEPT !.m = stack.m], StackTop - StackSize,
           stack.page * PGSIZE + StackSize, StackSize)

AddStack(x) ==
  LET stack == Kalloc(x.m, StackSize)
  IN  Umap([x EXCEPT !.m = stack.m], StackTop - StackSize,
           stack.page * PGSIZE - StackSize, StackSize)

(* One region in copy_mem_from, read through the page table of the parent.  *)
CopyRegion_Shared(x, from, region) ==
  Umap(x, region.start, pte2ppn(Leaf(x.m, from, region.start)) * PGSIZE, region.range)

CopyRegion_WholePages(x, from, region) ==
  LET copy == Kalloc(x.m, region.range)
      pa == copy.page * PGSIZE
      words == [k \in 1 .. (region.range \div PGSIZE) * PGSIZE |->
                  Read(x.m, from, region.start + k - 1)]
  IN  Umap([x EXCEPT !.m = Memcpy(copy.m, pa, words)], region.start, pa, region.range)

CopyRegion(x, from, region) ==
  LET copy == Kalloc(x.m, region.range)
      pa == copy.page * PGSIZE
      words == [k \in 1 .. region.range |-> Read(x.m, from, region.start + k - 1)]
  IN  Umap([x EXCEPT !.m = Memcpy(copy.m, pa, words)], region.start, pa, region.range)

-----------------------------------------------------------------------------
Init ==
  /\ m = [ram |-> [f \in Frames |-> [i \in 0 .. PGSIZE - 1 |-> 0]],
          free |-> [k \in 0 .. MaxOrder - 1 |->
                      IF k = MaxOrder - 1 THEN {MemStart, MemStart + 2 ^ k} ELSE {}],
          panic |-> FALSE]
  /\ mapped = KernelStart
  /\ kroot = 0
  /\ root = [p \in Pids |-> 0]
  /\ vma = [p \in Pids |-> <<>>]
  /\ current = 0
  /\ at = "boot"

(* vms_init maps the kernel and the allocator's memory to themselves, page  *)
(* by page.                                                                 *)
KernelTable ==
  /\ at = "boot"
  /\ LET table == Kalloc(m, PGSIZE) IN kroot' = table.page /\ m' = table.m
  /\ at' = "vms"
  /\ UNCHANGED <<mapped, root, vma, current>>

MapKernel ==
  /\ at = "vms"
  /\ mapped \in KernelPages
  /\ m' = MapPage(m, kroot, mapped * PGSIZE, mapped * PGSIZE, 0)
  /\ mapped' = mapped + 1
  /\ UNCHANGED <<kroot, root, vma, current, at>>

(* filesystem_init takes a page for the block device. *)
FilesystemInit ==
  /\ at = "vms"
  /\ mapped \notin KernelPages
  /\ m' = Kalloc(m, 1).m
  /\ at' = "execve"
  /\ UNCHANGED <<mapped, kroot, root, vma, current>>

(* What becomes of a process that execve or fork has built. Nobody sees the *)
(* memory after a panic.                                                    *)
Install(p, x) ==
  /\ \/ /\ ~x.m.panic
        /\ m' = x.m
        /\ root' = [root EXCEPT ![p] = x.root]
        /\ vma' = [vma EXCEPT ![p] = x.vma]
        /\ at' = "user"
     \/ /\ x.m.panic
        /\ at' = "panic"
        /\ UNCHANGED <<m, root, vma>>
  /\ UNCHANGED <<mapped, kroot>>

Execve(image) ==
  /\ at = "execve"
  /\ LET new == AllocPgtable(m)
         elf == Kalloc(new.m, Len(image.words))
         file == [new EXCEPT !.m = Memcpy(elf.m, elf.page * PGSIZE, image.words)]
         loaded == FoldLeft(LAMBDA x, s : LoadSegment(x, image, s), file, image.segments)
     IN  Install(0, AddStack(loaded))
  /\ current' = 0

Fork ==
  /\ at = "user"
  /\ Alive # Pids
  /\ Install(Least(Pids \ Alive),
             FoldLeft(LAMBDA x, region : CopyRegion(x, root[current], region),
                      AllocPgtable(m), vma[current]))
  /\ UNCHANGED current

NoFreePid ==
  /\ at = "user"
  /\ Alive = Pids
  /\ at' = "panic"
  /\ UNCHANGED <<m, mapped, kroot, root, vma, current>>

(* A program stores to a page that it is allowed to. *)
Store(va, v) ==
  /\ at = "user"
  /\ LET e == Leaf(m, root[current], va)
     IN  /\ user(e) /\ pte2ppn(e) \in Frames
         /\ m' = [m EXCEPT !.ram[pte2ppn(e)][va % PGSIZE] = v]
  /\ UNCHANGED <<mapped, kroot, root, vma, current, at>>

SwitchTo(p) ==
  /\ at = "user"
  /\ p \in Alive \ {current}
  /\ current' = p
  /\ UNCHANGED <<m, mapped, kroot, root, vma, at>>

Halted == at = "panic" /\ UNCHANGED vars

Next ==
  \/ KernelTable \/ MapKernel \/ FilesystemInit
  \/ \E image \in Images : Execve(image)
  \/ Fork \/ NoFreePid
  \/ \E va \in StoreAddresses, v \in Values : Store(va, v)
  \/ \E p \in Pids : SwitchTo(p)
  \/ Halted

Spec == Init /\ [][Next]_vars

-----------------------------------------------------------------------------
(* Properties. *)

TypeOK ==
  /\ \A k \in 0 .. MaxOrder - 1 : \A b \in m.free[k] : b .. b + 2 ^ k - 1 \subseteq Frames
  /\ \A f \in Frames : \A i \in 0 .. PGSIZE - 1 : m.ram[f][i] \in Nat
  /\ kroot \in Frames \cup {0} /\ mapped \in Nat
  /\ \A p \in Pids : root[p] \in Frames \cup {0} /\ Len(vma[p]) <= MAX_VMA_NUM
  /\ current \in Pids
  /\ at \in {"boot", "vms", "execve", "user", "panic"}

Running == at = "user"

(* "map: [kernel_start, pmm_end] -> [kernel_start, pmm_end] (without PTE_U)  *)
(* useful when privilege changed from u to s" (sched.c:31): whatever         *)
(* programs and forks have done since, the kernel finds itself in the page   *)
(* table of every process, and no process may touch it.                      *)
KernelMapped ==
  Running => \A p \in Alive, page \in KernelPages :
               Leaf(m, root[p], page * PGSIZE) = Pte(page, PTE_RWX + PTE_V)

(* map() uses a page for a table without clearing it, so memory nobody has  *)
(* asked for yet must hold zeros.                                           *)
FreeIsClear ==
  Running => \A f \in FreeFrames : \A i \in 0 .. PGSIZE - 1 : m.ram[f][i] = 0

(* The frames a process can touch, and those its tables are in. *)
Mine(p) ==
  {page \in UserPages : user(Leaf(m, root[p], page * PGSIZE))}

FramesOf(p) == {pte2ppn(Leaf(m, root[p], page * PGSIZE)) : page \in Mine(p)}

Tables(table) ==
  LET below[k \in 0 .. Levels - 1] ==
        IF k = 0 THEN {table}
        ELSE LET up == below[k - 1]
             IN  {pte2ppn(e) : e \in {w \in UNION {{m.ram[t][i] : i \in 0 .. Fanout - 1} : t \in up} :
                                        valid(w) /\ pte2ppn(w) \in Frames}}
  IN  UNION {below[k] : k \in 0 .. Levels - 1}

(* "set seperate stack for user process", "allocate 4 pages for user stack" *)
(* (sched.c:220, 224), and every other page of a process: the frames behind *)
(* it are not free, are no page table, and are nobody else's.               *)
Apart ==
  Running =>
    LET tables == UNION {Tables(root[q]) : q \in Alive}
    IN  \A p \in Alive :
          LET frames == FramesOf(p)
          IN  /\ Cardinality(frames) = Cardinality(Mine(p))
              /\ frames \cap (FreeFrames \cup tables) = {}
              /\ \A q \in Alive \ {p} : frames \cap FramesOf(q) = {}

(* The words a process can touch, and those that mem_map lists.             *)
Touchable(p) == UNION {page * PGSIZE .. (page + 1) * PGSIZE - 1 : page \in Mine(p)}

Listed(p) ==
  UNION {r.start .. r.start + r.range - 1 : r \in {vma[p][i] : i \in DOMAIN vma[p]}}

(* fork copies what mem_map lists, word by word, and umap maps whole pages: *)
(* a process can touch all that is listed, and besides it only what lies    *)
(* behind the end of a region in the region's last page.                    *)
RegionsKnown ==
  Running =>
    \A p \in Alive :
      /\ Listed(p) \subseteq Touchable(p)
      /\ \A a \in Touchable(p) \ Listed(p) :
           \E i \in DOMAIN vma[p] :
             LET end == vma[p][i].start + vma[p][i].range
             IN  a >= end /\ a \div PGSIZE = (end - 1) \div PGSIZE

(* AddressSpace implements PrivateMemory: what a program asks for is copied *)
(* by fork and stored to by its owner only; what is behind it in the last   *)
(* page of a segment the child does not have ("copy current's physical      *)
(* memory and map on p", sched.c:146, copies mem_range bytes).              *)
View ==
  UNION {{<<p, a, Read(m, root[p], a)>> : a \in Touchable(p)} : p \in Alive}

Segments(image) == {image.segments[i] : i \in DOMAIN image.segments}

LoadedWords(image) ==
  LET Holds(s, a) == a \in s.vaddr .. s.vaddr + s.memsz - 1
      Word(s, a) == IF a < s.vaddr + s.filesz THEN image.words[s.off + a - s.vaddr + 1] ELSE 0
  IN  [a \in {b \in 0 .. StackTop - 1 : \E s \in Segments(image) : Holds(s, b)} |->
         Word(CHOOSE s \in Segments(image) : Holds(s, a), a)]

SpareWords(image) ==
  UNION {s.vaddr + s.memsz .. (LastPage(s) + 1) * PGSIZE - 1 : s \in Segments(image)}

Promise ==
  INSTANCE PrivateMemory
    WITH memory <- View, spare <- IF Alive = {} THEN {} ELSE Touchable(0) \ Listed(0),
         Processes <- Pids, Programs <- Images, Loaded <- LoadedWords, Spare <- SpareWords,
         StackAddresses <- StackTop - StackSize .. StackTop - 1

KeepsMemory == Promise!Spec
=============================================================================
