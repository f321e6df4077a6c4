----------------------------- MODULE FatVolume -----------------------------
(***************************************************************************)
(* Files on a FAT volume: fat_core.c and write.c over the one-sector cache *)
(* of fat_core.h and a ramdisk that never fails.                           *)
(*                                                                         *)
(* A sector of data is a few bytes. An entry of the table is one value, as *)
(* in FAT16 and FAT32, or lies in two bytes of which it shares one with    *)
(* its neighbour and which may be in two sectors, as in FAT12. Directories *)
(* are reduced to what a file handle refers to: one directory entry for    *)
(* each file name, alone in a sector of the root directory. Nothing        *)
(* interrupts a call of the file system, and the loops of the long ones    *)
(* are modelled iteration by iteration.                                    *)
(***************************************************************************)
EXTENDS Integers, Sequences, FiniteSets, SequencesExt

CONSTANTS
  TotalSectors, ReservedSectors, NumFats, FatSize,    (* the BPB            *)
  SectorsPerCluster, BytesPerSector,
  Fat12,             (* FAT_TYPE_FAT12, or one of the others                *)
  CellsPerSector,    (* of the table: bytes of FAT12, entries of the others *)
  NrFiles,           (* names in the root directory                         *)
  HostFile,          (* the file the host put on the image, 0 for none      *)
  HostCluster, HostSize,    (* where it is, and its size                    *)
  Values,            (* what programs write, 0 is not among them            *)
  WriteSizes, ReadSizes, SeekOffsets,
  Word,              (* 2^32, the modulus of uint32                         *)
  MaxCalls           (* how many calls programs make (bound)                *)

Files == 1 .. NrFiles

RootSectors == NrFiles
FirstRootSector == ReservedSectors + NumFats * FatSize
FirstDataSector == FirstRootSector + RootSectors
ClusterCount == (TotalSectors - FirstDataSector) \div SectorsPerCluster
ClusterSize == SectorsPerCluster * BytesPerSector

Clusters == 2 .. ClusterCount + 1
FatIndex == 0 .. ClusterCount + 1
DataSectors == FirstDataSector .. FirstDataSector + ClusterCount * SectorsPerCluster - 1

FirstSector(c) == (c - 2) * SectorsPerCluster + FirstDataSector
(* The first cell of an entry, counted from the beginning of the table, the *)
(* sector it is in, and whether the rest of the entry is in the next one.   *)
Offset(c) == IF Fat12 THEN c + c \div 2 ELSE c
FatSector(copy, c) == ReservedSectors + copy * FatSize + Offset(c) \div CellsPerSector
OverBoundary(c) == Fat12 /\ Offset(c) % CellsPerSector = CellsPerSector - 1
DirentSector(f) == FirstRootSector + f - 1

(* The end of a chain as this code writes and tests it, and as the tools of *)
(* the host (mkfs, Linux) write it.                                         *)
Eoc == IF Fat12 THEN 4088 ELSE 65528
HostEoc == IF Fat12 THEN 4095 ELSE 65535

ASSUME FatVolumeAssumption ==
  /\ {TotalSectors, NumFats, FatSize, SectorsPerCluster, BytesPerSector} \subseteq Nat \ {0}
  /\ {ReservedSectors, CellsPerSector, NrFiles} \subseteq Nat \ {0}
  /\ Fat12 \in BOOLEAN
  /\ ClusterCount > 2 /\ ClusterCount < (IF Fat12 THEN 4085 ELSE 65525)    (* fat_type *)
  /\ Offset(ClusterCount + 1) + (IF Fat12 THEN 1 ELSE 0) < FatSize * CellsPerSector
  /\ HostFile \in 0 .. NrFiles /\ HostCluster \in Clusters /\ HostSize \in 1 .. ClusterSize
  /\ Values \subseteq Nat \ {0}
  /\ WriteSizes \subseteq Nat \ {0} /\ ReadSizes \subseteq Nat \ {0}
  /\ SeekOffsets \subseteq Int /\ Word \in Nat \ {0}

VARIABLES
  vol,        (* the medium, the sector buffer and last_cluster_alloc       *)
  handle,     (* the handle of each file                                    *)
  pc,         (* the call under way, "idle" or "lost"                       *)
  call,       (* its locals                                                 *)
  got,        (* what the last fat_read returned                            *)
  calls       (* how many calls have been made                              *)

vars == <<vol, handle, pc, call, got, calls>>

-----------------------------------------------------------------------------
(* The sector buffer: _fat_cache and _fat_sector_buf. *)

(* FAT_FLUSH_SECTOR *)
Flush(v) ==
  IF v.dirty THEN [v EXCEPT !.disk = [@ EXCEPT ![v.sector] = v.buf], !.dirty = FALSE]
             ELSE v

(* FAT_GET_SECTOR *)
Get_NoFlush(v, n) ==
  IF v.sector = n THEN v ELSE [v EXCEPT !.sector = n, !.buf = v.disk[n], !.dirty = FALSE]

Get(v, n) ==
  IF v.sector = n THEN v
  ELSE LET flushed == Flush(v)
       IN  [flushed EXCEPT !.sector = n, !.buf = flushed.disk[n]]

(* The buffer now holds buf, and FAT_PUT_SECTOR says that it is sector n. *)
Put_NumberKept(v, n, buf) ==
  LET changed == [v EXCEPT !.buf = buf]
      clean == IF v.sector = n THEN changed ELSE Flush(changed)
  IN  [clean EXCEPT !.dirty = TRUE]

Put(v, n, buf) ==
  LET changed == [v EXCEPT !.buf = buf]
      clean == IF v.sector = n THEN changed ELSE Flush(changed)
  IN  [clean EXCEPT !.sector = n, !.dirty = TRUE]

(* What a FAT_GET_SECTOR would find in sector n. *)
Sees(n) == IF vol.sector = n THEN vol.buf ELSE vol.disk[n]

-----------------------------------------------------------------------------
(* The file allocation table. *)

(* The two bytes of entry c of a FAT12, and what they say.                  *)
Decoded(c, low, high) ==
  IF c % 2 = 1 THEN (low + 256 * high) \div 16 ELSE (low + 256 * high) % 4096

LowByte(c, next, old) == IF c % 2 = 1 THEN ((16 * next) % 256) + (old % 16) ELSE next % 256

HighByte_NibbleLost(c, next, old) ==
  IF c % 2 = 1 THEN (next \div 16) % 256 ELSE (next \div 256) % 16

HighByte(c, next, old) ==
  IF c % 2 = 1 THEN (next \div 16) % 256 ELSE (16 * (old \div 16)) + ((next \div 256) % 16)

(* _fat_get_next_cluster: what entry c says, and the volume after the look. *)
GetNext(v, c) ==
  LET read == Get(v, FatSector(0, c))
      rest == IF OverBoundary(c) THEN Get(read, read.sector + 1) ELSE read
  IN  IF Fat12
      THEN [vol |-> rest, at |-> Decoded(c, read.buf[Offset(c)], rest.buf[Offset(c) + 1])]
      ELSE [vol |-> read, at |-> read.buf[c]]

(* fat12_set_next_cluster, fat16_set_next_cluster: one copy of the table.   *)
SetCopy(v, copy, c, next) ==
  LET o == Offset(c)
      read == Get(v, FatSector(copy, c))
      low == IF Fat12 THEN LowByte(c, next, read.buf[o]) ELSE next
      first == Put(read, read.sector, [read.buf EXCEPT ![o] = low])
      rest == IF OverBoundary(c) THEN Get(first, first.sector + 1) ELSE first
  IN  IF Fat12
      THEN Put(rest, rest.sector, [rest.buf EXCEPT ![o + 1] = HighByte(c, next, @)])
      ELSE first

(* fat_set_next_cluster: every copy of the table, one after the other. *)
SetNext_OneCopy(v, c, next) == SetCopy(v, 0, c, next)

SetNext_LastCopyFirst(v, c, next) ==
  FoldLeft(LAMBDA u, copy : SetCopy(u, copy, c, next), v, [i \in 1 .. NumFats |-> NumFats - i])

SetNext(v, c, next) ==
  FoldLeft(LAMBDA u, copy : SetCopy(u, copy, c, next), v, [i \in 1 .. NumFats |-> i - 1])

(* fat_find_free_cluster: from the last one found to the end, then the rest. *)
Candidates(last) ==
  [i \in 1 .. ClusterCount - 2 |-> 2 + ((last + i - 3) % (ClusterCount - 2))]

FindFree(v) ==
  LET Look(found, c) ==
        IF found.at # 0 THEN found
        ELSE LET next == GetNext(found.vol, c)
             IN  IF next.at # 0 THEN [next EXCEPT !.at = 0]
                 ELSE [next EXCEPT !.at = c, !.vol.last = c]
  IN  FoldLeft(Look, [vol |-> v, at |-> 0], Candidates(v.last))

(* The zeros of a new cluster are made in the buffer, and written past it. *)
Clear(v, c) ==
  LET flushed == Flush(v)
      sectors == FirstSector(c) .. FirstSector(c) + SectorsPerCluster - 1
      zeros == [k \in 0 .. BytesPerSector - 1 |-> 0]
  IN  [flushed EXCEPT
         !.buf = [k \in DOMAIN @ |-> 0],
         !.disk = [n \in DOMAIN @ |-> IF n \in sectors THEN zeros ELSE @[n]]]

(* fat_alloc_next_cluster: at is 0 when there is no room. *)
AllocNext(v, c, clear) ==
  LET next == GetNext(v, c)
      free == FindFree(next.vol)
      linked == SetNext(SetNext(free.vol, free.at, Eoc), c, free.at)
  IN  IF next.at # Eoc THEN next
      ELSE IF free.at = 0 THEN free
      ELSE [vol |-> IF clear THEN Clear(linked, free.at) ELSE linked, at |-> free.at]

(* n steps along a chain, or Stray if it leads out of the table. *)
Stray == -1

Walk(v, c, n) ==
  LET Step(place, i) ==
        IF place.at \in FatIndex THEN GetNext(place.vol, place.at)
                                 ELSE [place EXCEPT !.at = Stray]
  IN  FoldLeft(Step, [vol |-> v, at |-> c], [i \in 1 .. n |-> i])

-----------------------------------------------------------------------------
(* File handles and directory entries. *)

NoHandle == [open |-> FALSE, size |-> 0, first |-> 0, pos |-> 0, cur |-> 0, async |-> FALSE]

(* _fat_file_init *)
HandleOf(dirent, async) ==
  [open |-> TRUE, size |-> dirent.size, first |-> dirent.first, pos |-> 0,
   cur |-> dirent.first, async |-> async]

NoCall == [f |-> 0, v |-> 0, size |-> 0, i |-> 0, sector |-> 0, start |-> 0,
           out |-> <<>>, cluster |-> 0]

(* _fat_file_sector_offset *)
SectorOf(x) == FirstSector(x.cur) + ((x.pos \div BytesPerSector) % SectorsPerCluster)
OffsetOf(x) == x.pos % BytesPerSector

(* fat_file_sync *)
FileSync_SizeOnly(v, f, x) ==
  LET read == Get(v, DirentSector(f))
  IN  Flush(Put(read, read.sector, [read.buf EXCEPT !.size = x.size]))

FileSync(v, f, x) ==
  LET read == Get(v, DirentSector(f))
  IN  Flush(Put(read, read.sector,
                [read.buf EXCEPT !.size = x.size, !.first = x.first]))

Idle == pc = "idle"
Dirent(f) == Sees(DirentSector(f))

(* fat_open reads the directory from its beginning to the entry of f. *)
Search(v, f) == FoldLeft(Get, v, [i \in 1 .. f |-> DirentSector(i)])

(* fat_create, of a name that is not there: find a place, write the entry, *)
(* and open it.                                                            *)
Create(f, async) ==
  /\ Idle
  /\ Dirent(f).name # "used"
  /\ LET new == [name |-> "used", size |-> 0, first |-> 0]
     IN  /\ vol' = Search(Put(Search(vol, f), DirentSector(f), new), f)
         /\ handle' = [handle EXCEPT ![f] = HandleOf(new, async)]
  /\ UNCHANGED <<pc, call, got>>

(* fat_open, of one that is. *)
Open(f, async) ==
  /\ Idle
  /\ Dirent(f).name = "used"
  /\ vol' = Search(vol, f)
  /\ handle' = [handle EXCEPT ![f] = HandleOf(Dirent(f), async)]
  /\ UNCHANGED <<pc, call, got>>

Sync(f) ==
  /\ Idle
  /\ handle[f].open
  /\ vol' = FileSync(vol, f, handle[f])
  /\ UNCHANGED <<handle, pc, call, got>>

(* fat_lseek *)
Target(x, offset, whence) ==
  LET to == CASE whence = "SET" -> offset % Word
              [] whence = "CUR" -> (offset + x.pos) % Word
              [] whence = "END" -> (offset + x.size) % Word
  IN  IF x.size # 0 /\ to > x.size THEN x.size ELSE to

Seek(f, offset, whence) ==
  /\ Idle
  /\ handle[f].open
  /\ LET x == handle[f]
         to == Target(x, offset, whence)
         place == Walk(vol, x.first, to \div ClusterSize)
     IN  /\ vol' = place.vol
         /\ handle' = [handle EXCEPT ![f].pos = to, ![f].cur = place.at]
         /\ pc' = IF place.at = Stray THEN "lost" ELSE "idle"
  /\ UNCHANGED <<call, got>>

(* A whence that fat_lseek does not know is refused after cur_cluster has gone *)
(* back to the first cluster, and the position stays.                          *)
SeekNowhere(f) ==
  /\ Idle
  /\ handle[f].open
  /\ handle' = [handle EXCEPT ![f].cur = handle[f].first]
  /\ UNCHANGED <<vol, pc, call, got>>

-----------------------------------------------------------------------------
(* fat_write. The bytes of a call are v, v + 1, ... *)

(* An empty file gets its first cluster. *)
WriteStart(f, v, n) ==
  /\ Idle
  /\ handle[f].open
  /\ LET x == handle[f]
         free == FindFree(vol)
         started == [NoCall EXCEPT !.f = f, !.v = v, !.size = n]
     IN  \/ /\ x.cur # 0
            /\ pc' = "write"
            /\ call' = [started EXCEPT !.sector = SectorOf(x)]
            /\ UNCHANGED <<vol, handle>>
         \/ /\ x.cur = 0 /\ free.at # 0
            /\ vol' = SetNext(free.vol, free.at, Eoc)
            /\ handle' = [handle EXCEPT ![f].first = free.at, ![f].cur = free.at]
            /\ pc' = "write"
            /\ call' = [started EXCEPT !.sector = SectorOf(handle'[f])]
         \/ /\ x.cur = 0 /\ free.at = 0
            /\ vol' = free.vol
            /\ UNCHANGED <<handle, pc, call>>
  /\ UNCHANGED got

(* What fits in the sector, and the volume once it is there. *)
Chunk ==
  LET room == BytesPerSector - OffsetOf(handle[call.f])
      left == call.size - call.i
  IN  IF room < left THEN room ELSE left

Written ==
  LET offset == OffsetOf(handle[call.f])
      read == IF Chunk < BytesPerSector THEN Get(vol, call.sector) ELSE Flush(vol)
  IN  Put(read, call.sector,
          [k \in 0 .. BytesPerSector - 1 |->
             IF k \in offset .. offset + Chunk - 1 THEN call.v + call.i + k - offset
                                                  ELSE read.buf[k]])

SectorEnds == OffsetOf(handle[call.f]) + Chunk = BytesPerSector

(* The test of write.c:236, of the number of the next sector. *)
ClusterEnds_Early == SectorEnds /\ call.sector % SectorsPerCluster = 0

ClusterEnds == SectorEnds /\ (call.sector + 1) % SectorsPerCluster = 0

Writing == pc = "write" /\ call.i < call.size /\ call.sector \in DataSectors

WriteSector ==
  /\ Writing
  /\ ~ClusterEnds
  /\ vol' = Written
  /\ handle' = [handle EXCEPT ![call.f].pos = @ + Chunk]
  /\ call' = [call EXCEPT !.i = @ + Chunk, !.sector = IF SectorEnds THEN @ + 1 ELSE @]
  /\ UNCHANGED <<pc, got>>

(* The last sector of a cluster: go to the next one, or make one. *)
WriteAcross ==
  /\ Writing
  /\ ClusterEnds
  /\ LET x == handle[call.f]
         next == AllocNext(Written, x.cur, x.size = 0)
     IN  /\ vol' = next.vol
         /\ IF next.at # 0
            THEN /\ handle' = [handle EXCEPT ![call.f].pos = @ + Chunk, ![call.f].cur = next.at]
                 /\ call' = [call EXCEPT !.i = @ + Chunk, !.sector = FirstSector(next.at)]
                 /\ pc' = "write"
            ELSE /\ handle' = [handle EXCEPT ![call.f].pos = @ + Chunk]
                 /\ call' = [call EXCEPT !.i = @ + Chunk]
                 /\ pc' = "written"
  /\ UNCHANGED got

WriteDone ==
  /\ pc = "written" \/ (pc = "write" /\ call.i >= call.size)
  /\ LET f == call.f
         x == [handle[f] EXCEPT !.size = IF @ < handle[f].pos THEN handle[f].pos ELSE @]
     IN  /\ handle' = [handle EXCEPT ![f] = x]
         /\ vol' = IF x.size # handle[f].size /\ ~x.async THEN FileSync(vol, f, x) ELSE vol
  /\ pc' = "idle"
  /\ call' = NoCall
  /\ UNCHANGED got

-----------------------------------------------------------------------------
(* fat_read *)

(* Nothing beyond the end, unless the size is 0. *)
ReadStart(f, n) ==
  /\ Idle
  /\ handle[f].open
  /\ LET x == handle[f]
         size == IF x.size # 0 /\ x.pos + n > x.size THEN x.size - x.pos ELSE n
     IN  call' = [NoCall EXCEPT !.f = f, !.size = size, !.start = x.pos, !.sector = SectorOf(x)]
  /\ pc' = "read"
  /\ UNCHANGED <<vol, handle, got>>

ReadSector ==
  /\ pc = "read"
  /\ call.i < call.size
  /\ call.sector \in DataSectors
  /\ LET x == handle[call.f]
         read == Get(vol, call.sector)
         moved == [x EXCEPT !.pos = @ + Chunk]
         locals == [call EXCEPT !.i = @ + Chunk,
                      !.out = @ \o [k \in 1 .. Chunk |-> read.buf[OffsetOf(x) + k - 1]]]
         crosses == (call.sector + 1) % SectorsPerCluster = FirstDataSector % SectorsPerCluster
         next == GetNext(read, x.cur)
     IN  IF SectorEnds /\ crosses
         THEN /\ vol' = next.vol
              /\ handle' = [handle EXCEPT ![call.f] = [moved EXCEPT !.cur = next.at]]
              /\ call' = [locals EXCEPT !.sector = FirstSector(next.at)]
              /\ pc' = IF next.at = Eoc THEN "readend" ELSE "read"
         ELSE /\ vol' = read
              /\ handle' = [handle EXCEPT ![call.f] = moved]
              /\ call' = [locals EXCEPT !.sector = IF SectorEnds THEN @ + 1 ELSE @]
              /\ UNCHANGED pc
  /\ UNCHANGED got

ReadDone ==
  /\ pc = "readend" \/ (pc = "read" /\ call.i >= call.size)
  /\ got' = call.out
  /\ pc' = "idle"
  /\ call' = NoCall
  /\ UNCHANGED <<vol, handle>>

-----------------------------------------------------------------------------
(* fat_unlink: the chain first, then the directory entry. The program does  *)
(* not use the handle it may have had of the file any more.                 *)

UnlinkStart(f) ==
  /\ Idle
  /\ Dirent(f).name = "used"
  /\ vol' = Search(vol, f)
  /\ call' = [NoCall EXCEPT !.f = f, !.cluster = Dirent(f).first]
  /\ pc' = "unlink"
  /\ UNCHANGED <<handle, got>>

UnlinkStep_NextOnly ==
  /\ pc = "unlink"
  /\ call.cluster \in FatIndex \ {0}
  /\ LET next == GetNext(vol, call.cluster)
     IN  /\ vol' = next.vol
         /\ call' = [call EXCEPT !.cluster = next.at]
  /\ UNCHANGED <<handle, pc, got>>

UnlinkStep ==
  /\ pc = "unlink"
  /\ call.cluster \in FatIndex \ {0}
  /\ LET next == GetNext(vol, call.cluster)
     IN  /\ vol' = SetNext(next.vol, call.cluster, 0)
         /\ call' = [call EXCEPT !.cluster = next.at]
  /\ UNCHANGED <<handle, pc, got>>

UnlinkDone ==
  /\ pc = "unlink"
  /\ call.cluster \in {0, Eoc}
  /\ LET read == Get(vol, DirentSector(call.f))
     IN  vol' = Put(read, read.sector, [read.buf EXCEPT !.name = "deleted"])
  /\ handle' = [handle EXCEPT ![call.f] = NoHandle]
  /\ pc' = "idle"
  /\ call' = NoCall
  /\ UNCHANGED got

-----------------------------------------------------------------------------
(* A sector or an entry that is not where data or entries are is touched:   *)
(* the file system has lost its way, and what follows is arbitrary.         *)
Lose ==
  /\ \/ pc \in {"write", "read"} /\ call.i < call.size /\ call.sector \notin DataSectors
     \/ pc = "unlink" /\ call.cluster \notin FatIndex \cup {Eoc}
  /\ pc' = "lost"
  /\ UNCHANGED <<vol, handle, call, got, calls>>

(* Programs may stop calling, and nothing follows a volume that is lost. *)
Rest == pc \in {"idle", "lost"} /\ UNCHANGED vars

-----------------------------------------------------------------------------
(* fat_vol_init on the image that mkfs and the host left: an empty volume,  *)
(* but for a file of one cluster.                                           *)
HostText == [i \in 1 .. HostSize |-> i]

InitEntry(c) ==
  IF c < 2 \/ (HostFile # 0 /\ c = HostCluster) THEN HostEoc ELSE 0

(* Three bytes are two entries. *)
InitCell(o) ==
  LET c == 2 * (o \div 3)
  IN  IF ~Fat12 THEN InitEntry(o)
      ELSE CASE o % 3 = 0 -> InitEntry(c) % 256
             [] o % 3 = 1 -> InitEntry(c) \div 256 + 16 * (InitEntry(c + 1) % 16)
             [] o % 3 = 2 -> InitEntry(c + 1) \div 16

InitSector(n) ==
  CASE n < ReservedSectors -> <<>>
    [] n \in ReservedSectors .. FirstRootSector - 1 ->
         LET part == (n - ReservedSectors) % FatSize
         IN  [o \in part * CellsPerSector .. (part + 1) * CellsPerSector - 1 |-> InitCell(o)]
    [] n \in FirstRootSector .. FirstDataSector - 1 ->
         IF n = DirentSector(HostFile) THEN [name |-> "used", size |-> HostSize, first |-> HostCluster]
                                       ELSE [name |-> "none", size |-> 0, first |-> 0]
    [] OTHER ->
         [k \in 0 .. BytesPerSector - 1 |->
            LET i == (n - FirstSector(HostCluster)) * BytesPerSector + k + 1
            IN  IF HostFile # 0 /\ i \in 1 .. HostSize THEN HostText[i] ELSE 0]

Init ==
  /\ LET image == [n \in 0 .. TotalSectors - 1 |-> InitSector(n)]
     IN  vol = [disk |-> image, sector |-> 0, buf |-> image[0], dirty |-> FALSE, last |-> 2]
  /\ handle = [f \in Files |-> NoHandle]
  /\ pc = "idle"
  /\ call = NoCall
  /\ got = <<>>
  /\ calls = 0

-----------------------------------------------------------------------------
(* Callers. *)

Call(f) ==
  \/ \E async \in BOOLEAN : Create(f, async) \/ Open(f, async)
  \/ Sync(f)
  \/ \E offset \in SeekOffsets, whence \in {"SET", "CUR", "END"} : Seek(f, offset, whence)
  \/ SeekNowhere(f)
  \/ \E v \in Values, n \in WriteSizes : WriteStart(f, v, n)
  \/ \E n \in ReadSizes : ReadStart(f, n)
  \/ UnlinkStart(f)

Internal ==
  /\ UNCHANGED calls
  /\ \/ WriteSector \/ WriteAcross \/ WriteDone
     \/ ReadSector \/ ReadDone
     \/ UnlinkStep \/ UnlinkDone

Counted == calls < MaxCalls /\ calls' = calls + 1

(* Any caller with one handle for each file. *)
AnyNext == (Counted /\ \E f \in Files : Call(f)) \/ Internal \/ Lose \/ Rest

AnySpec == Init /\ [][AnyNext]_vars

(* The clusters of a file in their order, what ends them and zeros. *)
Entry(c) ==
  LET n == FatSector(0, c)
      o == Offset(c)
  IN  IF Fat12
      THEN Decoded(c, Sees(n)[o], Sees(IF OverBoundary(c) THEN n + 1 ELSE n)[o + 1])
      ELSE Sees(n)[c]

FirstOf(f) == IF handle[f].open THEN handle[f].first ELSE Dirent(f).first

Chain(f) ==
  LET next == [c \in Clusters |-> Entry(c)]
      at[k \in 1 .. ClusterCount + 1] ==
        IF k = 1 THEN FirstOf(f)
        ELSE LET before == at[k - 1]
             IN  IF before \in Clusters THEN next[before] ELSE 0
  IN  at

Synced(f) ==
  handle[f].open => /\ Dirent(f).size = handle[f].size
                    /\ Dirent(f).first = handle[f].first

(* The handle stands in a cluster of its file, or its file is empty. After a *)
(* write that was cut short because the volume is full it does not.          *)
HasRoom(f) ==
  LET x == handle[f]
  IN  IF x.first = 0 THEN x.pos = 0
                     ELSE /\ x.cur \in Clusters
                          /\ \E k \in 1 .. ClusterCount + 1 :
                               k = 1 + x.pos \div ClusterSize /\ x.cur = Chain(f)[k]

(* A careful caller syncs what it wrote through an O_ASYNC handle before it *)
(* opens or unlinks the file again, does not read an empty file or seek in  *)
(* one, gives fat_lseek a whence it knows, only reads the files of the      *)
(* host, and does not write on where the volume was full.                   *)
Careful(f) ==
  \/ \E async \in BOOLEAN : Create(f, async) \/ (Synced(f) /\ Open(f, async))
  \/ Sync(f)
  \/ /\ handle[f].size > 0
     /\ \E offset \in SeekOffsets, whence \in {"SET", "CUR", "END"} : Seek(f, offset, whence)
  \/ /\ f # HostFile /\ HasRoom(f)
     /\ \E v \in Values, n \in WriteSizes : WriteStart(f, v, n)
  \/ handle[f].size > 0 /\ \E n \in ReadSizes : ReadStart(f, n)
  \/ f # HostFile /\ Synced(f) /\ UnlinkStart(f)

Next == (Counted /\ \E f \in Files : Careful(f)) \/ Internal \/ Rest

Spec == Init /\ [][Next]_vars

-----------------------------------------------------------------------------
(* Properties. *)

(* What is where it should be: sectors hold what their region holds, the    *)
(* handles are of their types, and a call that is under way has its locals. *)
Sectors == 0 .. TotalSectors - 1
Layout == [n \in Sectors |-> DOMAIN InitSector(n)]

TypeOK ==
  /\ DOMAIN vol.disk = Sectors /\ vol.sector \in Sectors /\ vol.dirty \in BOOLEAN
  /\ \A n \in Sectors : DOMAIN vol.disk[n] = Layout[n]
  /\ DOMAIN vol.buf = Layout[vol.sector]
  /\ vol.last \in Clusters
  /\ \A f \in Files : /\ handle[f].size \in Nat /\ handle[f].pos \in Nat
                      /\ handle[f].open \in BOOLEAN /\ handle[f].async \in BOOLEAN
                      /\ handle[f].first \in {0} \cup Clusters
  /\ pc \in {"idle", "write", "written", "read", "readend", "unlink", "lost"}
  /\ pc = "idle" => call = NoCall

Used == {f \in Files : Dirent(f).name = "used"}

Owned(f) == Range(Chain(f)) \cap Clusters

(* Every chain leads, within the volume, to an end mark.                    *)
ChainEnds(f) ==
  FirstOf(f) # 0 => Range(Chain(f)) \cap {Eoc, HostEoc} # {}

(* Between calls, no cluster is in two files, every chain comes to its end, *)
(* and a cluster is marked taken if and only if a file has it: nothing that *)
(* fat_write, fat_unlink or a full volume leaves half done loses or shares  *)
(* a cluster.                                                               *)
FatSound ==
  Idle =>
    /\ \A f, g \in Used : f # g => Owned(f) \cap Owned(g) = {}
    /\ \A f \in Used : ChainEnds(f)
    /\ {c \in Clusters : Entry(c) # 0} = UNION {Owned(f) : f \in Used}

(* The copies of the table agree, whatever fat_set_next_cluster was called  *)
(* for and wherever its sectors were cached.                                *)
TableSectors == ReservedSectors .. ReservedSectors + FatSize - 1
Kept(n) == IF vol.sector = n /\ vol.dirty THEN vol.buf ELSE vol.disk[n]

CopiesAgree ==
  \A copy \in 1 .. NumFats - 1, n \in TableSectors : Kept(n + copy * FatSize) = Kept(n)

(* A file has as many clusters as its bytes need, and at most one more,     *)
(* which fat_write makes as soon as it fills the one before.                *)
SizeFitsChain ==
  Idle => \A f \in Used :
            LET size == IF handle[f].open THEN handle[f].size ELSE Dirent(f).size
            IN  Cardinality(Owned(f)) * ClusterSize \in size .. size + ClusterSize

(* A buffer that claims to be a sector of the first copy of the table, and  *)
(* to be clean, is: the buffer that fat_alloc_next_cluster zeroes is not    *)
(* taken for the table that the next call reads.                            *)
TableNotStale ==
  (vol.sector \in TableSectors /\ ~vol.dirty)
    => vol.buf = vol.disk[vol.sector]

(* fat_write without O_ASYNC leaves the directory entry up to date.         *)
EntryUpToDate ==
  Idle => \A f \in Used : handle[f].open /\ ~handle[f].async => Synced(f)

(* What a program sees of the volume. *)
SizeOf(f) ==
  IF ~handle[f].open THEN Dirent(f).size
  ELSE IF handle[f].pos > handle[f].size THEN handle[f].pos ELSE handle[f].size

Text(f) ==
  LET chain == Chain(f)
      Sector(p) == FirstSector(chain[1 + p \div ClusterSize])
                     + ((p % ClusterSize) \div BytesPerSector)
  IN  [i \in 1 .. SizeOf(f) |-> Sees(Sector(i - 1))[(i - 1) % BytesPerSector]]

Contents ==
  [f \in Used \ (IF pc = "unlink" THEN {call.f} ELSE {}) |-> Text(f)]

Positions ==
  [f \in Files |->
     IF (pc = "unlink" /\ f = call.f) \/ ~handle[f].open THEN -1
     ELSE IF pc \in {"read", "readend"} /\ f = call.f THEN call.start ELSE handle[f].pos]

MaxWrite == CHOOSE n \in WriteSizes : \A m \in WriteSizes : m <= n

Promise ==
  INSTANCE ByteFiles
    WITH content <- Contents, pos <- Positions,
         Texts <- {[k \in 1 .. n |-> v + i + k - 1] :
                     v \in Values, i \in 0 .. MaxWrite, n \in 1 .. BytesPerSector}

(* FatVolume implements ByteFiles: for careful callers a file holds what    *)
(* was written to it, wherever its bytes are and whatever else is done.     *)
KeepsFiles == Promise!Spec

(* Every step of a call brings it nearer to its return, and none leads out  *)
(* of the volume: no loop over a chain or over sectors goes on for ever.    *)
(* A step is always possible: Next has none for a call that would touch     *)
(* what is not its own (Lose), and TLC finds no deadlock.                   *)
StepsLeft ==
  CASE pc \in {"write", "read"} -> 1 + call.size - call.i
    [] pc \in {"written", "readend"} -> 1
    [] pc = "unlink" -> 1 + Cardinality({c \in Clusters : Entry(c) # 0})
    [] OTHER -> 0

CallsEnd == [][(~Idle => StepsLeft' < StepsLeft) /\ pc' # "lost"]_vars

(* "sector is a number among data region, so take first_data_sector %       *)
(* sectors_per_cluster into account!" (fat_core.c:208): a call reads and    *)
(* writes in the cluster its handle has come to.                            *)
StaysInCluster ==
  (pc \in {"read", "write"} /\ call.i < call.size) =>
    call.sector \in LET first == FirstSector(handle[call.f].cur)
                    IN  first .. first + SectorsPerCluster - 1

(* "Return next if already allocated" (write.c:147): where a write goes on  *)
(* is a cluster of the volume.                                              *)
NextIsAllocated == pc = "write" => handle[call.f].cur \in Clusters
=============================================================================
