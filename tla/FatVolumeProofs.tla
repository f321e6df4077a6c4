--------------------------- MODULE FatVolumeProofs ---------------------------
(***************************************************************************)
(* Theorems about FatVolume: for every volume with two copies of the table  *)
(* or more, whatever its geometry, its files and the order of the calls.    *)
(*                                                                         *)
(* First the medium as the code sees it through its one sector buffer: what *)
(* every operation of the buffer and of the file allocation table does to   *)
(* what the sectors hold. What fat_set_next_cluster writes is what          *)
(* _fat_get_next_cluster reads, in every copy of the table, no other entry  *)
(* changes, and the loops of fat_core.c and write.c keep what the sectors   *)
(* hold wherever the buffer has gone.                                       *)
(*                                                                         *)
(* Then the chains of the table, by who owns each cluster and how far it is *)
(* from the beginning: ownership is what fat_write and fat_unlink keep, and *)
(* that the links lead from the first cluster of a file through all it owns *)
(* to an end mark follows from it. How far a cluster is from there is also  *)
(* how many bytes come before it, on a volume whose data begin at a         *)
(* multiple of the cluster size (Aligned): so no file outgrows its chain.   *)
(***************************************************************************)
EXTENDS FatVolume, SumFacts, TLAPS

Byte == {x \in Nat : x < 256}
Twelve == {x \in Nat : x < 4096}
Sixteen == {x \in Nat : x < 65536}
CellValues == IF Fat12 THEN Byte ELSE Sixteen
EntryValues == IF Fat12 THEN Twelve ELSE Sixteen

(* The cells of the table, its copies, and the sector a cell of a copy is in.  *)
Cells == 0 .. FatSize * CellsPerSector - 1
Copies == 0 .. NumFats - 1
TableSector(copy, o) == ReservedSectors + copy * FatSize + o \div CellsPerSector

AllTables == ReservedSectors .. FirstRootSector - 1
LastCopy == ReservedSectors + (NumFats - 1) * FatSize .. FirstRootSector - 1

Part(n) == (n - ReservedSectors) % FatSize
CellsOf(n) == Part(n) * CellsPerSector .. (Part(n) + 1) * CellsPerSector - 1

(* What a sector of each region can hold.                                      *)
Dirents == [name : {"none", "used", "deleted"}, size : Nat, first : {0} \cup Clusters]

Fits(n) ==
  IF n < ReservedSectors THEN {<<>>}
  ELSE IF n < FirstRootSector THEN [CellsOf(n) -> CellValues]
  ELSE IF n < FirstDataSector THEN Dirents
  ELSE [0 .. BytesPerSector - 1 -> Int]

AnySector == UNION {Fits(n) : n \in Sectors}

(* The buffer is what it claims to be.                                         *)
Fresh(v) == v.dirty \/ v.buf = v.disk[v.sector]

(* A medium with its buffer. After the zeros of a new cluster the buffer is a  *)
(* lie, and claims to be a sector of the last copy of the table, where         *)
(* fat_set_next_cluster has left it.                                           *)
Media ==
  {v \in [disk : [Sectors -> AnySector], sector : Sectors, buf : AnySector,
          dirty : BOOLEAN, last : Clusters] :
     /\ \A n \in Sectors : v.disk[n] \in Fits(n)
     /\ v.buf \in Fits(v.sector)
     /\ v.sector \in LastCopy \/ Fresh(v)}

(* What sector n holds once the buffer is written, and a cell of the table.    *)
Content(v, n) == IF v.sector = n /\ v.dirty THEN v.buf ELSE v.disk[n]
Cell(v, copy, o) == Content(v, TableSector(copy, o))[o]

Same(v, w) == \A n \in Sectors : Content(w, n) = Content(v, n)

-----------------------------------------------------------------------------
(* Arithmetic *)

LEMMA NextCell ==
  ASSUME NEW n \in Nat \ {0}, NEW x \in Nat
  PROVE  (x + 1) \div n = IF x % n = n - 1 THEN x \div n + 1 ELSE x \div n
PROOF OBVIOUS

LEMMA InFirst ==
  ASSUME NEW n \in Nat \ {0}, NEW m \in Nat \ {0}, NEW x \in 0 .. m * n - 1
  PROVE  x \div n \in 0 .. m - 1
PROOF
  <1>1. x \div n \in Nat /\ x % n \in 0 .. n - 1 /\ x = (n * (x \div n)) + (x % n)
    OBVIOUS
  <1>2. ASSUME x \div n >= m PROVE FALSE
    <2> DEFINE q == x \div n
    <2>1. q \in Nat /\ q >= m
      BY <1>1, <1>2
    <2> HIDE DEF q
    <2>2. n * q >= n * m
      BY <2>1
    <2> QED BY <1>1, <2>2 DEF q
  <1> QED BY <1>1, <1>2

LEMMA Constants ==
  /\ {TotalSectors, NumFats, FatSize, CellsPerSector, ReservedSectors} \subseteq Nat \ {0}
  /\ ClusterCount \in Nat
  /\ Fat12 \in BOOLEAN
  /\ ReservedSectors + NumFats * FatSize <= TotalSectors
  /\ NumFats * FatSize \in Nat
PROOF
  <1>1. /\ {TotalSectors, NumFats, FatSize, SectorsPerCluster, CellsPerSector, ReservedSectors,
            NrFiles} \subseteq Nat \ {0}
        /\ ClusterCount > 2 /\ Fat12 \in BOOLEAN
    BY FatVolumeAssumption
  <1>2. NumFats * FatSize \in Nat /\ FirstDataSector \in Nat
    BY <1>1 DEF FirstDataSector, FirstRootSector, RootSectors
  <1>3. TotalSectors - FirstDataSector \in Int
    BY <1>1, <1>2
  <1>4. ClusterCount \in Int
    BY <1>1, <1>3 DEF ClusterCount
  <1>5. TotalSectors - FirstDataSector >= 0
    <2> DEFINE d == TotalSectors - FirstDataSector
    <2>1. d \div SectorsPerCluster > 2
      BY <1>1 DEF ClusterCount
    <2>2. d \in Int /\ SectorsPerCluster \in Nat \ {0}
      BY <1>1, <1>3
    <2> HIDE DEF d
    <2>3. d = (SectorsPerCluster * (d \div SectorsPerCluster)) + (d % SectorsPerCluster)
          /\ d % SectorsPerCluster \in Nat /\ d \div SectorsPerCluster \in Int
      BY <2>2
    <2>4. SectorsPerCluster * (d \div SectorsPerCluster) >= 0
      BY <2>1, <2>2, <2>3
    <2>5. d >= 0
      BY <2>2, <2>3, <2>4
    <2> QED BY <2>5 DEF d
  <1> QED BY <1>1, <1>2, <1>4, <1>5 DEF FirstDataSector, FirstRootSector, RootSectors

LEMMA Offsets ==
  ASSUME NEW c \in FatIndex
  PROVE  /\ c \in Nat /\ Offset(c) \in 0 .. FatSize * CellsPerSector - 1
         /\ Fat12 => Offset(c) + 1 \in 0 .. FatSize * CellsPerSector - 1
PROOF
  <1>1. c \in Nat /\ c <= ClusterCount + 1 /\ ClusterCount + 1 \in Nat
    BY Constants DEF FatIndex
  <1>2. FatSize * CellsPerSector \in Nat
    BY Constants
  <1>3. Offset(c) \in Nat /\ Offset(ClusterCount + 1) \in Nat
        /\ Offset(c) <= Offset(ClusterCount + 1)
    BY <1>1 DEF Offset
  <1>4. Offset(ClusterCount + 1) + (IF Fat12 THEN 1 ELSE 0) < FatSize * CellsPerSector
    BY FatVolumeAssumption
  <1> QED BY <1>1, <1>2, <1>3, <1>4

LEMMA BytesOfEntry ==
  ASSUME NEW c \in FatIndex, NEW next \in Twelve, NEW old \in Byte
  PROVE  LowByte(c, next, old) \in Byte /\ HighByte(c, next, old) \in Byte
PROOF
  <1>0. c \in Nat
    BY Offsets
  <1>1. CASE c % 2 = 1
    BY <1>0, <1>1 DEF LowByte, HighByte, Twelve, Byte
  <1>2. CASE c % 2 # 1
    <2>1. LowByte(c, next, old) = next % 256
      BY <1>2 DEF LowByte
    <2>2. HighByte(c, next, old) = (16 * (old \div 16)) + ((next \div 256) % 16)
      BY <1>2 DEF HighByte
    <2>3. next % 256 \in 0 .. 255 /\ old \div 16 \in 0 .. 15 /\ (next \div 256) % 16 \in 0 .. 15
      BY DEF Twelve, Byte
    <2> QED BY <2>1, <2>2, <2>3 DEF Byte
  <1> QED BY <1>1, <1>2

(* The two bytes of an entry say what was put into them, ...                  *)
LEMMA RoundTrip ==
  ASSUME NEW c \in FatIndex, NEW next \in Twelve, NEW low \in Byte, NEW high \in Byte
  PROVE  Decoded(c, LowByte(c, next, low), HighByte(c, next, high)) = next
PROOF
  <1>0. c \in Nat
    BY Offsets
  <1>1. CASE c % 2 = 1
    BY <1>0, <1>1 DEF LowByte, HighByte, Decoded, Twelve, Byte
  <1>2. CASE c % 2 # 1
    BY <1>0, <1>2 DEF LowByte, HighByte, Decoded, Twelve, Byte
  <1> QED BY <1>1, <1>2

(* ... and the byte that is shared says of the neighbour what it said before. *)
LEMMA Neighbours ==
  ASSUME NEW c \in FatIndex, NEW d \in FatIndex, NEW next \in Twelve,
         NEW old \in Byte, NEW other \in Byte
  PROVE  /\ c % 2 = 0 /\ d = c + 1 => Decoded(d, HighByte(c, next, old), other) = Decoded(d, old, other)
         /\ c % 2 = 1 /\ d = c - 1 => Decoded(d, other, LowByte(c, next, old)) = Decoded(d, other, old)
PROOF
  <1>1. c \in Nat /\ d \in Nat
    BY Offsets
  <1>2. ASSUME c % 2 = 0, d = c + 1
        PROVE  Decoded(d, HighByte(c, next, old), other) = Decoded(d, old, other)
    <2>1. d % 2 = 1 /\ c % 2 # 1
      BY <1>1, <1>2
    <2>2. HighByte(c, next, old) = (16 * (old \div 16)) + ((next \div 256) % 16)
      BY <2>1 DEF HighByte
    <2>3. /\ Decoded(d, HighByte(c, next, old), other) = (HighByte(c, next, old) + 256 * other) \div 16
          /\ Decoded(d, old, other) = (old + 256 * other) \div 16
      BY <2>1 DEF Decoded
    <2> QED BY <2>2, <2>3 DEF Twelve, Byte
  <1>3. ASSUME c % 2 = 1, d = c - 1
        PROVE  Decoded(d, other, LowByte(c, next, old)) = Decoded(d, other, old)
    <2>1. d % 2 # 1
      BY <1>1, <1>3
    <2>2. LowByte(c, next, old) = ((16 * next) % 256) + (old % 16)
      BY <1>3 DEF LowByte
    <2>3. /\ Decoded(d, other, LowByte(c, next, old)) = (other + 256 * LowByte(c, next, old)) % 4096
          /\ Decoded(d, other, old) = (other + 256 * old) % 4096
      BY <2>1 DEF Decoded
    <2> QED BY <2>2, <2>3 DEF Twelve, Byte
  <1> QED BY <1>2, <1>3

-----------------------------------------------------------------------------
(* Regions *)

LEMMA Regions ==
  /\ FirstRootSector \in Nat /\ FirstRootSector = ReservedSectors + NumFats * FatSize
  /\ FirstDataSector \in Nat /\ FirstDataSector = FirstRootSector + NrFiles
  /\ NrFiles \in Nat \ {0} /\ SectorsPerCluster \in Nat \ {0} /\ BytesPerSector \in Nat \ {0}
  /\ ClusterCount \in Nat /\ ClusterCount > 2
  /\ ClusterCount * SectorsPerCluster \in Nat
  /\ FirstDataSector + ClusterCount * SectorsPerCluster <= TotalSectors
PROOF
  <1>1. /\ NrFiles \in Nat \ {0} /\ SectorsPerCluster \in Nat \ {0}
        /\ BytesPerSector \in Nat \ {0} /\ TotalSectors \in Nat \ {0}
        /\ ClusterCount > 2
    BY FatVolumeAssumption
  <1>2. FirstRootSector \in Nat /\ FirstRootSector = ReservedSectors + NumFats * FatSize
    BY Constants DEF FirstRootSector
  <1>3. FirstDataSector \in Nat /\ FirstDataSector = FirstRootSector + NrFiles
    BY <1>1, <1>2 DEF FirstDataSector, RootSectors
  <1> DEFINE d == TotalSectors - FirstDataSector
  <1>4. d \in Int /\ ClusterCount = d \div SectorsPerCluster
    BY <1>1, <1>3 DEF ClusterCount
  <1>5. ClusterCount \in Nat
    BY Constants
  <1>6. SectorsPerCluster * ClusterCount <= d /\ SectorsPerCluster * ClusterCount \in Nat
    <2> HIDE DEF d
    <2>1. d = SectorsPerCluster * (d \div SectorsPerCluster) + (d % SectorsPerCluster)
          /\ d % SectorsPerCluster \in 0 .. SectorsPerCluster - 1
      BY <1>1, <1>4, DivMod
    <2>2. SectorsPerCluster * ClusterCount \in Nat
      BY <1>1, <1>5
    <2> QED BY <1>4, <2>1, <2>2, <1>1
  <1>7. SectorsPerCluster * ClusterCount = ClusterCount * SectorsPerCluster
    BY <1>1, <1>5
  <1> QED BY <1>1, <1>2, <1>3, <1>5, <1>6, <1>7

(* A cell of a copy of the table is in a sector of that copy alone.           *)
LEMMA Places ==
  ASSUME NEW copy \in Copies, NEW o \in Cells
  PROVE  /\ TableSector(copy, o) \in Sectors
         /\ TableSector(copy, o) \in AllTables
         /\ TableSector(copy, o) >= ReservedSectors + copy * FatSize
         /\ TableSector(copy, o) < ReservedSectors + (copy + 1) * FatSize
         /\ Part(TableSector(copy, o)) = o \div CellsPerSector
         /\ o \in CellsOf(TableSector(copy, o))
         /\ Fits(TableSector(copy, o)) = [CellsOf(TableSector(copy, o)) -> CellValues]
PROOF
  <1> DEFINE q == o \div CellsPerSector
             n == ReservedSectors + copy * FatSize + q
  <1>0. /\ {TotalSectors, NumFats, FatSize, CellsPerSector, ReservedSectors} \subseteq Nat \ {0}
        /\ copy \in Nat /\ copy + 1 <= NumFats /\ copy * FatSize \in Nat
    BY Constants DEF Copies
  <1>1. q \in 0 .. FatSize - 1
    BY <1>0, InFirst DEF Cells
  <1>2. (copy + 1) * FatSize = copy * FatSize + FatSize /\ (copy + 1) * FatSize <= NumFats * FatSize
    <2>1. \A a, b, m \in Nat : a <= b => a * m <= b * m
      <3> TAKE a, b, m \in Nat
      <3> HAVE a <= b
      <3>1. PICK d \in Nat : b = a + d
        <4>1. b - a \in Nat /\ b = a + (b - a)
          OBVIOUS
        <4> QED BY <4>1
      <3>2. b * m = a * m + d * m /\ d * m \in Nat /\ a * m \in Nat
        BY <3>1
      <3> QED BY <3>2
    <2> QED BY <1>0, <2>1
  <1>3. TableSector(copy, o) = n
    BY DEF TableSector
  <1> HIDE DEF q
  <1>4. n \in Nat /\ n >= ReservedSectors + copy * FatSize /\ n < ReservedSectors + (copy + 1) * FatSize
    BY <1>0, <1>1, <1>2
  <1>5. n \in AllTables
    BY <1>0, <1>2, <1>4, Regions, Constants DEF AllTables
  <1>6. n \in Sectors
    BY <1>5, Regions, Constants DEF AllTables, Sectors
  <1>7. Part(n) = q
    <2>1. Part(n) = (FatSize * copy + q) % FatSize
      BY <1>0, <1>1 DEF Part
    <2>2. PICK k \in Int : k = -copy
      BY <1>0
    <2>3. FatSize \in Nat \ {0} /\ q \in Int
      BY <1>0, <1>1
    <2>4. (q - FatSize * k) % FatSize = q % FatSize
      BY <2>3, ModMultiple
    <2>5. q % FatSize = q
      BY <1>0, <1>1
    <2>6. q - FatSize * k = FatSize * copy + q
      BY <1>0, <1>1, <2>2
    <2> QED BY <2>1, <2>4, <2>5, <2>6
  <1>8. o \in CellsOf(n)
    <2>1. o \in Nat /\ o = CellsPerSector * q + (o % CellsPerSector) /\ o % CellsPerSector \in 0 .. CellsPerSector - 1
      <3>1. o \in Int /\ o >= 0 /\ CellsPerSector \in Nat \ {0}
        BY <1>0 DEF Cells
      <3>2. /\ o = CellsPerSector * (o \div CellsPerSector) + (o % CellsPerSector)
            /\ o % CellsPerSector \in 0 .. CellsPerSector - 1
        BY <3>1, DivMod
      <3> QED BY <3>1, <3>2 DEF q
    <2>2. CellsPerSector * q = q * CellsPerSector /\ (q + 1) * CellsPerSector = q * CellsPerSector + CellsPerSector
          /\ q * CellsPerSector \in Nat
      BY <1>0, <1>1
    <2> QED BY <1>0, <1>7, <2>1, <2>2 DEF CellsOf
  <1>9. n < FirstRootSector /\ ~(n < ReservedSectors)
    BY <1>0, <1>4, <1>5, Regions DEF AllTables
  <1> HIDE DEF n
  <1>10. Fits(n) = [CellsOf(n) -> CellValues]
    BY <1>9 DEF Fits
  <1> QED BY <1>3, <1>4, <1>5, <1>6, <1>7, <1>8, <1>10 DEF q
(* Sectors of different copies are different.                                 *)
LEMMA CopiesApart ==
  ASSUME NEW copy \in Copies, NEW o \in Cells, NEW copy2 \in Copies, NEW o2 \in Cells,
         TableSector(copy, o) = TableSector(copy2, o2)
  PROVE  copy = copy2
PROOF
  <1>1. FatSize \in Nat \ {0} /\ ReservedSectors \in Nat /\ copy \in Nat /\ copy2 \in Nat
    BY Constants DEF Copies
  <1>2. \A a, b \in Nat : a < b => (a + 1) * FatSize <= b * FatSize
    <2> TAKE a, b \in Nat
    <2> HAVE a < b
    <2>1. PICK d \in Nat : b = (a + 1) + d
      <3>1. b - (a + 1) \in Nat /\ b = (a + 1) + (b - (a + 1))
        OBVIOUS
      <3> QED BY <3>1
    <2>2. b * FatSize = (a + 1) * FatSize + d * FatSize /\ d * FatSize \in Nat
          /\ (a + 1) * FatSize \in Nat
      BY <1>1, <2>1
    <2> QED BY <2>2
  <1>3. /\ TableSector(copy, o) >= ReservedSectors + copy * FatSize
        /\ TableSector(copy, o) < ReservedSectors + (copy + 1) * FatSize
        /\ TableSector(copy2, o2) >= ReservedSectors + copy2 * FatSize
        /\ TableSector(copy2, o2) < ReservedSectors + (copy2 + 1) * FatSize
        /\ TableSector(copy, o) \in Sectors
    BY Places
  <1>4. TableSector(copy, o) \in Nat
    BY <1>3, Constants DEF Sectors
  <1>5. /\ copy * FatSize \in Nat /\ (copy + 1) * FatSize \in Nat
        /\ copy2 * FatSize \in Nat /\ (copy2 + 1) * FatSize \in Nat
    BY <1>1
  <1>6. ASSUME copy < copy2 PROVE FALSE
    BY <1>1, <1>2, <1>3, <1>4, <1>5, <1>6
  <1>7. ASSUME copy2 < copy PROVE FALSE
    BY <1>1, <1>2, <1>3, <1>4, <1>5, <1>7
  <1> QED BY <1>1, <1>6, <1>7

-----------------------------------------------------------------------------
(* The buffer *)

LEMMA MediaParts ==
  ASSUME NEW v \in Media
  PROVE  /\ v \in [disk : [Sectors -> AnySector], sector : Sectors, buf : AnySector,
                   dirty : BOOLEAN, last : Clusters]
         /\ \A n \in Sectors : v.disk[n] \in Fits(n) /\ Content(v, n) \in Fits(n)
         /\ v.buf \in Fits(v.sector)
         /\ v.sector \in LastCopy \/ Fresh(v)
PROOF
  BY DEF Media, Content

LEMMA FitsAny ==
  ASSUME NEW n \in Sectors, NEW x \in Fits(n)
  PROVE  x \in AnySector
PROOF
  BY DEF AnySector

(* FAT_FLUSH_SECTOR *)
LEMMA FlushKeeps ==
  ASSUME NEW v \in Media
  PROVE  /\ Flush(v) \in Media /\ ~Flush(v).dirty
         /\ Flush(v).sector = v.sector /\ Flush(v).buf = v.buf /\ Flush(v).last = v.last
         /\ \A n \in Sectors : Flush(v).disk[n] = Content(v, n)
         /\ Same(v, Flush(v))
         /\ Fresh(v) => Fresh(Flush(v))
PROOF
  <1> DEFINE w == Flush(v)
  <1>1. /\ w \in [disk : [Sectors -> AnySector], sector : Sectors, buf : AnySector,
                  dirty : BOOLEAN, last : Clusters]
        /\ ~w.dirty /\ w.sector = v.sector /\ w.buf = v.buf /\ w.last = v.last
        /\ \A n \in Sectors : w.disk[n] = Content(v, n)
    <2>1. CASE v.dirty
      BY <2>1, MediaParts DEF Flush, Content
    <2>2. CASE ~v.dirty
      BY <2>2, MediaParts DEF Flush, Content
    <2> QED BY <2>1, <2>2
  <1>2. Fresh(v) => w.buf = w.disk[w.sector]
    BY <1>1, MediaParts DEF Fresh, Content
  <1> HIDE DEF w
  <1>3. w \in Media
    BY <1>1, <1>2, MediaParts DEF Media, Fresh
  <1>4. Same(v, w)
    BY <1>1 DEF Same, Content
  <1> QED BY <1>1, <1>2, <1>3, <1>4 DEF w, Fresh

(* FAT_GET_SECTOR changes nothing but the buffer, which is the sector's then,  *)
(* unless it was not already when it claimed to be.                           *)
LEMMA GetKeeps ==
  ASSUME NEW v \in Media, NEW n \in Sectors
  PROVE  /\ Get(v, n) \in Media /\ Same(v, Get(v, n))
         /\ Get(v, n).sector = n /\ Get(v, n).last = v.last
         /\ (Fresh(v) \/ v.sector # n) => /\ Fresh(Get(v, n))
                                          /\ Get(v, n).buf = Content(v, n)
PROOF
  <1>1. CASE v.sector = n
    <2>1. Get(v, n) = v
      BY <1>1 DEF Get
    <2>2. Fresh(v) => v.buf = Content(v, n)
      BY <1>1 DEF Fresh, Content
    <2> QED BY <1>1, <2>1, <2>2 DEF Same
  <1>2. CASE v.sector # n
    <2> DEFINE f == Flush(v)
    <2>1. /\ f \in Media /\ ~f.dirty /\ f.last = v.last
          /\ \A m \in Sectors : f.disk[m] = Content(v, m)
      BY FlushKeeps
    <2>2. Get(v, n) = [f EXCEPT !.sector = n, !.buf = f.disk[n]]
      BY <1>2 DEF Get
    <2> HIDE DEF f
    <2> DEFINE w == Get(v, n)
    <2>3. /\ f \in [disk : [Sectors -> AnySector], sector : Sectors, buf : AnySector,
                    dirty : BOOLEAN, last : Clusters]
          /\ \A m \in Sectors : f.disk[m] \in Fits(m)
      BY <2>1, MediaParts
    <2>4. f.disk[n] \in AnySector
      BY <2>3, FitsAny
    <2>5. /\ w \in [disk : [Sectors -> AnySector], sector : Sectors, buf : AnySector,
                    dirty : BOOLEAN, last : Clusters]
          /\ w.sector = n /\ w.buf = f.disk[n] /\ w.disk = f.disk /\ ~w.dirty /\ w.last = f.last
      BY <2>1, <2>2, <2>3, <2>4
    <2> HIDE DEF w
    <2>6. w \in Media /\ Fresh(w)
      BY <2>3, <2>5 DEF Media, Fresh
    <2>7. Same(v, w)
      BY <2>1, <2>5 DEF Same, Content
    <2> QED BY <2>1, <2>5, <2>6, <2>7 DEF w
  <1> QED BY <1>1, <1>2

(* FAT_PUT_SECTOR of the sector in the buffer, or over a buffer that has been   *)
(* written, changes that sector alone.                                         *)
LEMMA PutWrites ==
  ASSUME NEW v \in Media, NEW n \in Sectors, NEW buf \in Fits(n), v.sector = n \/ ~v.dirty
  PROVE  /\ Put(v, n, buf) \in Media /\ Fresh(Put(v, n, buf)) /\ Put(v, n, buf).dirty
         /\ Put(v, n, buf).sector = n /\ Put(v, n, buf).buf = buf /\ Put(v, n, buf).last = v.last
         /\ \A m \in Sectors : Content(Put(v, n, buf), m) = IF m = n THEN buf ELSE Content(v, m)
PROOF
  <1> DEFINE w == Put(v, n, buf)
  <1>1. /\ v \in [disk : [Sectors -> AnySector], sector : Sectors, buf : AnySector,
                  dirty : BOOLEAN, last : Clusters]
        /\ \A m \in Sectors : v.disk[m] \in Fits(m)
        /\ buf \in AnySector
    BY MediaParts, FitsAny
  <1>2. /\ w \in [disk : [Sectors -> AnySector], sector : Sectors, buf : AnySector,
                  dirty : BOOLEAN, last : Clusters]
        /\ w.disk = v.disk /\ w.sector = n /\ w.buf = buf /\ w.dirty /\ w.last = v.last
    <2>1. CASE v.sector = n
      BY <1>1, <2>1 DEF Put
    <2>2. CASE v.sector # n
      <3>1. ~v.dirty
        BY <2>2
      <3> DEFINE x == [v EXCEPT !.buf = buf]
      <3>2. /\ x \in [disk : [Sectors -> AnySector], sector : Sectors, buf : AnySector,
                      dirty : BOOLEAN, last : Clusters]
            /\ x.disk = v.disk /\ x.buf = buf /\ ~x.dirty /\ x.last = v.last
        BY <1>1, <3>1
      <3>3. w = [Flush(x) EXCEPT !.sector = n, !.dirty = TRUE]
        BY <2>2 DEF Put
      <3> HIDE DEF x, w
      <3>4. Flush(x) = x
        BY <3>2 DEF Flush
      <3> QED BY <3>2, <3>3, <3>4
    <2> QED BY <2>1, <2>2
  <1> HIDE DEF w
  <1>3. w \in Media /\ Fresh(w)
    BY <1>1, <1>2 DEF Media, Fresh
  <1>4. \A m \in Sectors : Content(w, m) = IF m = n THEN buf ELSE Content(v, m)
    BY <1>2 DEF Content
  <1> QED BY <1>2, <1>3, <1>4 DEF w
-----------------------------------------------------------------------------
(* Entries *)

(* With one copy of the table, the buffer that fat_alloc_next_cluster zeroes    *)
(* would be taken for it.                                                      *)
Mirrored == NumFats >= 2

(* What entry c says.                                                          *)
Ent(v, c) ==
  IF Fat12 THEN Decoded(c, Cell(v, 0, Offset(c)), Cell(v, 0, Offset(c) + 1))
           ELSE Cell(v, 0, Offset(c))

(* The copies of the table agree.                                              *)
Agree(v) == \A copy \in Copies, o \in Cells : Cell(v, copy, o) = Cell(v, 0, o)

LEMMA CellOffsets ==
  ASSUME NEW c \in FatIndex
  PROVE  /\ c \in Nat /\ Offset(c) \in Cells /\ Offset(c) \in Nat
         /\ Fat12 => Offset(c) + 1 \in Cells
PROOF
  <1>1. c \in Nat /\ Offset(c) \in Nat
    BY Offsets DEF Offset
  <1> QED BY <1>1, Offsets DEF Cells

LEMMA FirstCopy == 0 \in Copies /\ NumFats - 1 \in Copies
PROOF
  BY Constants DEF Copies

LEMMA CellTyped ==
  ASSUME NEW v \in Media, NEW copy \in Copies, NEW o \in Cells
  PROVE  Cell(v, copy, o) \in CellValues
PROOF
  <1> DEFINE n == TableSector(copy, o)
  <1>1. n \in Sectors /\ o \in CellsOf(n) /\ Fits(n) = [CellsOf(n) -> CellValues]
    BY Places
  <1> HIDE DEF n
  <1>2. Content(v, n) \in [CellsOf(n) -> CellValues]
    BY <1>1, MediaParts
  <1> QED BY <1>1, <1>2 DEF Cell, n

LEMMA EntTyped ==
  ASSUME NEW v \in Media, NEW c \in FatIndex
  PROVE  Ent(v, c) \in EntryValues /\ Ent(v, c) \in Nat
PROOF
  <1>1. CASE ~Fat12
    <2>1. Cell(v, 0, Offset(c)) \in CellValues
      BY CellTyped, CellOffsets, FirstCopy
    <2>2. Ent(v, c) = Cell(v, 0, Offset(c)) /\ CellValues = EntryValues
      BY <1>1 DEF Ent, CellValues, EntryValues
    <2>3. EntryValues \subseteq Nat
      BY <1>1 DEF EntryValues, Sixteen
    <2> QED BY <2>1, <2>2, <2>3
  <1>2. CASE Fat12
    <2>1. PICK a, b \in Byte : a = Cell(v, 0, Offset(c)) /\ b = Cell(v, 0, Offset(c) + 1)
      BY <1>2, CellTyped, CellOffsets, FirstCopy DEF CellValues
    <2>2. Decoded(c, a, b) \in Twelve
      <3>1. CASE c % 2 = 1
        BY <3>1 DEF Decoded, Byte, Twelve
      <3>2. CASE c % 2 # 1
        BY <3>2 DEF Decoded, Byte, Twelve
      <3> QED BY <3>1, <3>2
    <2>3. Ent(v, c) = Decoded(c, a, b) /\ EntryValues = Twelve
      BY <1>2, <2>1 DEF Ent, EntryValues
    <2>4. Twelve \subseteq Nat
      BY DEF Twelve
    <2> QED BY <2>2, <2>3, <2>4
  <1> QED BY <1>1, <1>2, Constants

LEMMA SameEntries ==
  ASSUME NEW v, NEW w, Same(v, w)
  PROVE  /\ \A copy \in Copies, o \in Cells : Cell(w, copy, o) = Cell(v, copy, o)
         /\ \A c \in FatIndex : Ent(w, c) = Ent(v, c)
         /\ Agree(v) => Agree(w)
PROOF
  <1>1. \A copy \in Copies, o \in Cells : Cell(w, copy, o) = Cell(v, copy, o)
    BY Places DEF Same, Cell
  <1>2. \A c \in FatIndex : Ent(w, c) = Ent(v, c)
    BY <1>1, CellOffsets, FirstCopy DEF Ent
  <1> QED BY <1>1, <1>2, FirstCopy DEF Agree

(* Where the buffer can be trusted.                                            *)
LEMMA Trusted ==
  ASSUME NEW v \in Media, NEW n \in Sectors, n \notin LastCopy
  PROVE  Fresh(v) \/ v.sector # n
PROOF
  BY MediaParts

LEMMA FirstNotLast ==
  ASSUME Mirrored, NEW o \in Cells
  PROVE  TableSector(0, o) \notin LastCopy
PROOF
  <1>1. NumFats \in Nat /\ FatSize \in Nat \ {0} /\ ReservedSectors \in Nat /\ NumFats - 2 \in Nat
    BY Constants DEF Mirrored
  <1>2. TableSector(0, o) < ReservedSectors + (0 + 1) * FatSize /\ TableSector(0, o) \in Sectors
    BY FirstCopy, Places
  <1>3. (NumFats - 1) * FatSize = FatSize + (NumFats - 2) * FatSize
        /\ (NumFats - 2) * FatSize \in Nat
    BY <1>1
  <1>4. TableSector(0, o) \in Nat
    BY <1>2, Constants DEF Sectors
  <1> QED BY <1>1, <1>2, <1>3, <1>4 DEF LastCopy

(* The second byte of an entry is in the next sector if the code thinks it is.  *)
LEMMA NextPlace ==
  ASSUME NEW c \in FatIndex, NEW copy \in Copies, Fat12
  PROVE  TableSector(copy, Offset(c) + 1) =
           IF OverBoundary(c) THEN TableSector(copy, Offset(c)) + 1 ELSE TableSector(copy, Offset(c))
PROOF
  <1>1. Offset(c) \in Nat /\ CellsPerSector \in Nat \ {0} /\ ReservedSectors + copy * FatSize \in Nat
    BY Constants, CellOffsets DEF Copies
  <1>2. Offset(c) \div CellsPerSector \in Nat
    BY <1>1
  <1>3. OverBoundary(c) <=> Offset(c) % CellsPerSector = CellsPerSector - 1
    BY DEF OverBoundary
  <1>4. (Offset(c) + 1) \div CellsPerSector =
          IF Offset(c) % CellsPerSector = CellsPerSector - 1
          THEN Offset(c) \div CellsPerSector + 1 ELSE Offset(c) \div CellsPerSector
    BY <1>1, NextCell
  <1> QED BY <1>1, <1>2, <1>3, <1>4 DEF TableSector

(* _fat_get_next_cluster finds what the entry says, in one sector or in two.    *)
LEMMA GetNextReads ==
  ASSUME NEW v \in Media, NEW c \in FatIndex, Mirrored
  PROVE  /\ GetNext(v, c).at = Ent(v, c)
         /\ GetNext(v, c).vol \in Media /\ Same(v, GetNext(v, c).vol)
         /\ GetNext(v, c).vol.last = v.last
PROOF
  <1> DEFINE o == Offset(c)
             n == TableSector(0, o)
             read == Get(v, n)
  <1>1. o \in Cells /\ (Fat12 => o + 1 \in Cells) /\ 0 \in Copies
    BY CellOffsets, FirstCopy
  <1>2. n \in Sectors
    BY <1>1, Places
  <1>3. FatSector(0, c) = n
    BY DEF FatSector, TableSector
  <1>4. Fresh(v) \/ v.sector # n
    BY <1>1, <1>2, FirstNotLast, Trusted
  <1> HIDE DEF n
  <1>5. /\ read \in Media /\ Same(v, read) /\ read.sector = n /\ read.last = v.last
        /\ Fresh(read) /\ read.buf = Content(v, n)
    BY <1>2, <1>4, GetKeeps
  <1>6. CASE ~Fat12
    <2>1. GetNext(v, c) = [vol |-> read, at |-> read.buf[c]]
      BY <1>3, <1>6 DEF GetNext
    <2>2. o = c
      BY <1>6 DEF Offset
    <2> HIDE DEF read
    <2> QED BY <1>5, <1>6, <2>1, <2>2 DEF Ent, Cell, n
  <1>7. CASE Fat12
    <2> DEFINE rest == IF OverBoundary(c) THEN Get(read, read.sector + 1) ELSE read
               m == TableSector(0, o + 1)
    <2>1. m \in Sectors /\ m = IF OverBoundary(c) THEN n + 1 ELSE n
      BY <1>1, <1>7, Places, NextPlace DEF n
    <2>2. GetNext(v, c) = [vol |-> rest, at |-> Decoded(c, read.buf[o], rest.buf[o + 1])]
      BY <1>3, <1>7 DEF GetNext
    <2> HIDE DEF read, m
    <2>3. /\ rest \in Media /\ Same(v, rest) /\ rest.last = v.last
          /\ rest.buf = Content(v, m)
      <3>1. CASE OverBoundary(c)
        <4>1. rest = Get(read, m)
          BY <1>5, <2>1, <3>1
        <4>2. /\ Get(read, m) \in Media /\ Same(read, Get(read, m))
              /\ Get(read, m).last = read.last /\ Get(read, m).buf = Content(read, m)
          BY <1>5, <2>1, GetKeeps
        <4> HIDE DEF rest
        <4> QED BY <1>5, <2>1, <4>1, <4>2 DEF Same
      <3>2. CASE ~OverBoundary(c)
        BY <1>5, <2>1, <3>2
      <3> QED BY <3>1, <3>2
    <2> HIDE DEF rest
    <2>4. read.buf[o] = Cell(v, 0, o) /\ rest.buf[o + 1] = Cell(v, 0, o + 1)
      BY <1>5, <2>3 DEF Cell, n, m
    <2> QED BY <1>7, <2>2, <2>3, <2>4 DEF Ent
  <1> QED BY <1>6, <1>7
(* A change of one cell in the buffer changes that cell of that copy alone.     *)
LEMMA PutCell ==
  ASSUME NEW v \in Media, NEW copy \in Copies, NEW p \in Cells, NEW x \in CellValues,
         v.sector = TableSector(copy, p), Fresh(v)
  PROVE  LET w == Put(v, v.sector, [v.buf EXCEPT ![p] = x])
         IN  /\ w \in Media /\ Fresh(w) /\ w.sector = v.sector /\ w.last = v.last
             /\ \A m \in Sectors \ AllTables : Content(w, m) = Content(v, m)
             /\ \A k \in Copies, q \in Cells :
                  Cell(w, k, q) = IF k = copy /\ q = p THEN x ELSE Cell(v, k, q)
PROOF
  <1> DEFINE n == TableSector(copy, p)
             buf == [v.buf EXCEPT ![p] = x]
             w == Put(v, v.sector, buf)
  <1>1. n \in Sectors /\ n \in AllTables /\ p \in CellsOf(n) /\ Fits(n) = [CellsOf(n) -> CellValues]
    BY Places
  <1>2. v.sector = n
    OBVIOUS
  <1> HIDE DEF n
  <1>3. v.buf \in [CellsOf(n) -> CellValues] /\ v.buf = Content(v, n)
    BY <1>1, <1>2, MediaParts DEF Fresh, Content
  <1>4. /\ buf \in [CellsOf(n) -> CellValues]
        /\ \A q \in CellsOf(n) : buf[q] = IF q = p THEN x ELSE v.buf[q]
    BY <1>1, <1>3
  <1> HIDE DEF buf
  <1>5. /\ w \in Media /\ Fresh(w) /\ w.sector = n /\ w.last = v.last
        /\ \A m \in Sectors : Content(w, m) = IF m = n THEN buf ELSE Content(v, m)
    BY <1>1, <1>2, <1>4, PutWrites
  <1> HIDE DEF w
  <1>6. ASSUME NEW k \in Copies, NEW q \in Cells
        PROVE  Cell(w, k, q) = IF k = copy /\ q = p THEN x ELSE Cell(v, k, q)
    <2> DEFINE m == TableSector(k, q)
    <2>1. m \in Sectors /\ q \in CellsOf(m)
      BY Places
    <2>2. m = n => k = copy
      BY CopiesApart DEF n
    <2>3. k = copy /\ q = p => m = n
      BY DEF n
    <2>4. Cell(w, k, q) = Content(w, m)[q] /\ Cell(v, k, q) = Content(v, m)[q]
      BY DEF Cell
    <2> HIDE DEF m
    <2>5. CASE m = n
      BY <1>3, <1>4, <1>5, <2>1, <2>2, <2>4, <2>5
    <2>6. CASE m # n
      BY <1>5, <2>1, <2>3, <2>4, <2>6
    <2> QED BY <2>5, <2>6
  <1>7. \A m \in Sectors \ AllTables : Content(w, m) = Content(v, m)
    BY <1>1, <1>5
  <1> QED BY <1>2, <1>5, <1>6, <1>7 DEF w, buf

(* What becomes of cell q when entry c is set.                                  *)
Updated(c, next, q, old) ==
  IF q = Offset(c) THEN IF Fat12 THEN LowByte(c, next, old) ELSE next
  ELSE IF Fat12 /\ q = Offset(c) + 1 THEN HighByte(c, next, old) ELSE old

(* fat12_set_next_cluster and fat16_set_next_cluster write the cells of the     *)
(* entry in one copy.                                                          *)
LEMMA CopyWrites ==
  ASSUME NEW v \in Media, NEW copy \in Copies, NEW c \in FatIndex, NEW next \in EntryValues,
         Fresh(v) \/ v.sector # TableSector(copy, Offset(c))
  PROVE  LET w == SetCopy(v, copy, c, next)
         IN  /\ w \in Media /\ Fresh(w) /\ w.last = v.last
             /\ \E o \in Cells : w.sector = TableSector(copy, o)
             /\ \A m \in Sectors \ AllTables : Content(w, m) = Content(v, m)
             /\ \A k \in Copies, q \in Cells :
                  Cell(w, k, q) =
                    IF k = copy THEN Updated(c, next, q, Cell(v, k, q)) ELSE Cell(v, k, q)
PROOF
  <1> DEFINE o == Offset(c)
             n == TableSector(copy, o)
             read == Get(v, n)
             low == IF Fat12 THEN LowByte(c, next, read.buf[o]) ELSE next
             first == Put(read, read.sector, [read.buf EXCEPT ![o] = low])
  <1>1. c \in Nat /\ o \in Nat /\ o \in Cells /\ (Fat12 => o + 1 \in Cells)
    BY CellOffsets
  <1>2. n \in Sectors
    BY <1>1, Places
  <1>3. FatSector(copy, c) = n
    BY DEF FatSector, TableSector
  <1>4. /\ read \in Media /\ Same(v, read) /\ read.sector = n /\ read.last = v.last
        /\ Fresh(read) /\ read.buf = Content(v, n)
    BY <1>2, GetKeeps
  <1>5. read.buf[o] = Cell(v, copy, o)
    BY <1>4 DEF Cell
  <1>6. \A k \in Copies, q \in Cells : Cell(read, k, q) = Cell(v, k, q)
    BY <1>4, SameEntries
  <1>7. low \in CellValues
    <2>1. CASE ~Fat12
      BY <2>1 DEF CellValues, EntryValues
    <2>2. CASE Fat12
      <3>1. PICK a \in Byte : a = Cell(v, copy, o)
        BY <1>1, <2>2, CellTyped DEF CellValues
      <3>2. next \in Twelve
        BY <2>2 DEF EntryValues
      <3>3. LowByte(c, next, a) \in Byte
        BY <3>2, BytesOfEntry
      <3> QED BY <1>5, <2>2, <3>1, <3>3 DEF CellValues
    <2> QED BY <2>1, <2>2, Constants
  <1>8. /\ first \in Media /\ Fresh(first) /\ first.sector = n /\ first.last = v.last
        /\ \A m \in Sectors \ AllTables : Content(first, m) = Content(v, m)
        /\ \A k \in Copies, q \in Cells :
             Cell(first, k, q) = IF k = copy /\ q = o THEN low ELSE Cell(v, k, q)
    <2> HIDE DEF low, read
    <2>1. PICK p \in Cells : p = o
      BY <1>1
    <2>2. read.sector = TableSector(copy, p)
      BY <1>4, <2>1
    <2>3. /\ first \in Media /\ Fresh(first) /\ first.sector = read.sector /\ first.last = read.last
          /\ \A m \in Sectors \ AllTables : Content(first, m) = Content(read, m)
          /\ \A k \in Copies, q \in Cells :
               Cell(first, k, q) = IF k = copy /\ q = o THEN low ELSE Cell(read, k, q)
      <3>1. read \in Media /\ Fresh(read) /\ low \in CellValues
        BY <1>4, <1>7
      <3>2. first = Put(read, read.sector, [read.buf EXCEPT ![p] = low])
        BY <2>1
      <3> HIDE DEF first, o
      <3> QED BY <2>1, <2>2, <3>1, <3>2, PutCell
    <2> HIDE DEF first
    <2> QED BY <1>4, <1>6, <2>3 DEF Same
  <1>9. CASE ~Fat12
    <2>1. SetCopy(v, copy, c, next) = first
      BY <1>3, <1>9 DEF SetCopy
    <2>2. low = next
      BY <1>9
    <2> HIDE DEF first, low
    <2> QED BY <1>1, <1>8, <1>9, <2>1, <2>2 DEF Updated
  <1>10. CASE Fat12
    <2> DEFINE m == TableSector(copy, o + 1)
               rest == IF OverBoundary(c) THEN Get(first, first.sector + 1) ELSE first
               high == HighByte(c, next, rest.buf[o + 1])
               last == Put(rest, rest.sector, [rest.buf EXCEPT ![o + 1] = high])
    <2>1. o + 1 \in Cells /\ m \in Sectors /\ m = IF OverBoundary(c) THEN n + 1 ELSE n
      BY <1>1, <1>10, Places, NextPlace
    <2>2. SetCopy(v, copy, c, next) = last
      BY <1>3, <1>10 DEF SetCopy
    <2>3. low = LowByte(c, next, Cell(v, copy, o))
      BY <1>5, <1>10
    <2> HIDE DEF first, low
    <2>4. /\ rest \in Media /\ Fresh(rest) /\ rest.sector = m /\ rest.last = v.last
          /\ Same(first, rest)
      <3>1. CASE OverBoundary(c)
        <4>1. rest = Get(first, m)
          BY <1>8, <2>1, <3>1
        <4> HIDE DEF m, rest
        <4>2. /\ Get(first, m) \in Media /\ Same(first, Get(first, m))
              /\ Get(first, m).sector = m /\ Get(first, m).last = first.last /\ Fresh(Get(first, m))
          BY <1>8, <2>1, GetKeeps
        <4> QED BY <1>8, <4>1, <4>2
      <3>2. CASE ~OverBoundary(c)
        BY <1>8, <2>1, <3>2 DEF Same
      <3> QED BY <3>1, <3>2
    <2> HIDE DEF rest
    <2>5. \A k \in Copies, q \in Cells : Cell(rest, k, q) = Cell(first, k, q)
      BY <2>4, SameEntries
    <2>6. rest.buf[o + 1] = Cell(v, copy, o + 1)
      <3>1. rest.buf = Content(rest, m)
        BY <2>4 DEF Fresh, Content
      <3>2. rest.buf[o + 1] = Cell(rest, copy, o + 1)
        BY <3>1 DEF Cell
      <3>3. o + 1 # o
        BY <1>1
      <3> HIDE DEF o
      <3> QED BY <1>8, <2>1, <2>5, <3>2, <3>3
    <2>7. high \in CellValues
      <3>1. PICK b \in Byte : b = Cell(v, copy, o + 1)
        BY <1>10, <2>1, CellTyped DEF CellValues
      <3>2. next \in Twelve
        BY <1>10 DEF EntryValues
      <3>3. HighByte(c, next, b) \in Byte
        BY <3>2, BytesOfEntry
      <3> QED BY <1>10, <2>6, <3>1, <3>3 DEF CellValues
    <2>8. high = HighByte(c, next, Cell(v, copy, o + 1))
      BY <2>6
    <2> HIDE DEF high
    <2>9. /\ last \in Media /\ Fresh(last) /\ last.sector = rest.sector /\ last.last = rest.last
          /\ \A s \in Sectors \ AllTables : Content(last, s) = Content(rest, s)
          /\ \A k \in Copies, q \in Cells :
               Cell(last, k, q) = IF k = copy /\ q = o + 1 THEN high ELSE Cell(rest, k, q)
      <3>1. PICK p \in Cells : p = o + 1
        BY <2>1
      <3>2. rest.sector = TableSector(copy, p)
        BY <2>4, <3>1
      <3> QED BY <2>4, <2>7, <3>1, <3>2, PutCell
    <2> HIDE DEF last
    <2>10. o + 1 # o
      BY <1>1
    <2>11. ASSUME NEW k \in Copies, NEW q \in Cells
           PROVE  Cell(last, k, q) =
                    IF k = copy THEN Updated(c, next, q, Cell(v, k, q)) ELSE Cell(v, k, q)
      BY <1>8, <1>10, <2>3, <2>5, <2>8, <2>9, <2>10 DEF Updated
    <2>12. \A s \in Sectors \ AllTables : Content(last, s) = Content(v, s)
      BY <1>8, <2>4, <2>9 DEF Same
    <2> QED BY <2>1, <2>2, <2>4, <2>9, <2>11, <2>12
  <1> QED BY <1>9, <1>10, Constants
(* Two entries of a FAT12 share a byte only if they are an even one and the one *)
(* after it.                                                                  *)
LEMMA Shared ==
  ASSUME NEW c \in FatIndex, NEW d \in FatIndex, c # d, Fat12
  PROVE  /\ Offset(d) # Offset(c) /\ Offset(d) + 1 # Offset(c) + 1
         /\ Offset(d) = Offset(c) + 1 => c % 2 = 0 /\ d = c + 1
         /\ Offset(d) + 1 = Offset(c) => c % 2 = 1 /\ d = c - 1
PROOF
  <1>1. c \in Nat /\ d \in Nat
    BY Offsets
  <1> QED BY <1>1 DEF Offset

LEMMA EntryUpdated ==
  ASSUME NEW v \in Media, NEW w \in Media, NEW c \in FatIndex, NEW d \in FatIndex,
         NEW next \in EntryValues,
         \A q \in Cells : Cell(w, 0, q) = Updated(c, next, q, Cell(v, 0, q))
  PROVE  Ent(w, d) = IF d = c THEN next ELSE Ent(v, d)
PROOF
  <1> DEFINE o == Offset(c)
             p == Offset(d)
             A(q) == Cell(v, 0, q)
             Z(q) == Cell(w, 0, q)
  <1>1. \A q \in Cells : Z(q) = IF q = o THEN IF Fat12 THEN LowByte(c, next, A(q)) ELSE next
                               ELSE IF Fat12 /\ q = o + 1 THEN HighByte(c, next, A(q)) ELSE A(q)
    BY DEF Updated
  <1>2. /\ c \in Nat /\ d \in Nat /\ o \in Cells /\ p \in Cells /\ o \in Nat /\ p \in Nat
        /\ Fat12 => o + 1 \in Cells /\ p + 1 \in Cells
    BY CellOffsets
  <1>3. \A q \in Cells : A(q) \in CellValues
    BY CellTyped, FirstCopy
  <1>4. CASE ~Fat12
    <2>1. Ent(w, d) = Z(d) /\ Ent(v, d) = A(d) /\ o = c /\ p = d
      BY <1>1, <1>4, CellOffsets DEF Offset, Ent
    <2> QED BY <1>1, <1>2, <1>4, <2>1
  <1>5. CASE Fat12
    <2>1. /\ Ent(w, d) = Decoded(d, Z(p), Z(p + 1))
          /\ Ent(v, d) = Decoded(d, A(p), A(p + 1))
      BY <1>5 DEF Ent
    <2>2. /\ next \in Twelve
          /\ \A q \in Cells : A(q) \in Byte
      BY <1>3, <1>5 DEF CellValues, EntryValues
    <2> HIDE DEF o, p
    <2>3. CASE d = c
      <3>1. p = o /\ o + 1 # o
        BY <1>2, <2>3 DEF o, p
      <3>2. /\ Z(o) = LowByte(c, next, A(o))
            /\ Z(o + 1) = HighByte(c, next, A(o + 1))
        BY <1>1, <1>2, <1>5, <3>1
      <3>3. Decoded(c, Z(o), Z(o + 1)) = next
        <4> DEFINE a == A(o)  b == A(o + 1)
        <4>1. a \in Byte /\ b \in Byte
          BY <1>2, <1>5, <2>2
        <4>2. Z(o) = LowByte(c, next, a) /\ Z(o + 1) = HighByte(c, next, b)
          BY <3>2
        <4> HIDE DEF a, b
        <4>3. Decoded(c, LowByte(c, next, a), HighByte(c, next, b)) = next
          BY <1>2, <2>2, <4>1, RoundTrip
        <4> QED BY <4>2, <4>3
      <3> QED BY <1>1, <2>1, <2>3, <3>1, <3>3
    <2>4. CASE d # c
      <3>1. /\ p # o /\ p + 1 # o + 1
            /\ p = o + 1 => c % 2 = 0 /\ d = c + 1
            /\ p + 1 = o => c % 2 = 1 /\ d = c - 1
        BY <1>5, <2>4, Shared DEF o, p
      <3>2. Ent(w, d) = Ent(v, d)
        <4>1. CASE p = o + 1
          <5>1. Z(p) = HighByte(c, next, A(p)) /\ Z(p + 1) = A(p + 1)
            BY <1>1, <1>2, <1>5, <4>1
          <5> DEFINE a == A(p)  b == A(p + 1)
          <5>2. a \in Byte /\ b \in Byte
            BY <1>2, <1>5, <2>2
          <5>3. /\ Ent(w, d) = Decoded(d, HighByte(c, next, a), b)
                /\ Ent(v, d) = Decoded(d, a, b)
            BY <2>1, <5>1
          <5> HIDE DEF a, b
          <5>4. Decoded(d, HighByte(c, next, a), b) = Decoded(d, a, b)
            BY <1>2, <2>2, <3>1, <4>1, <5>2, Neighbours
          <5> QED BY <3>1, <4>1, <5>3, <5>4
        <4>2. CASE p + 1 = o
          <5>1. Z(p) = A(p) /\ Z(p + 1) = LowByte(c, next, A(p + 1))
            BY <1>1, <1>2, <1>5, <4>2
          <5> DEFINE a == A(p)  b == A(p + 1)
          <5>2. a \in Byte /\ b \in Byte
            BY <1>2, <1>5, <2>2
          <5>3. /\ Ent(w, d) = Decoded(d, a, LowByte(c, next, b))
                /\ Ent(v, d) = Decoded(d, a, b)
            BY <2>1, <5>1
          <5> HIDE DEF a, b
          <5>4. Decoded(d, a, LowByte(c, next, b)) = Decoded(d, a, b)
            BY <1>2, <2>2, <3>1, <4>2, <5>2, Neighbours
          <5> QED BY <3>1, <4>2, <5>3, <5>4
        <4>3. CASE p # o + 1 /\ p + 1 # o
          BY <1>1, <1>2, <1>5, <2>1, <3>1, <4>3
        <4> QED BY <4>1, <4>2, <4>3
      <3> QED BY <1>1, <2>4, <3>2
    <2> QED BY <2>3, <2>4
  <1> QED BY <1>4, <1>5, Constants

-----------------------------------------------------------------------------
(* Loops *)

Latest(s) == CHOOSE x \in s : \A y \in s : x >= y

SetStep(copy, u, c, next) == SetCopy(u, copy, c, next)
SetLoop == INSTANCE FoldFacts WITH Op <- SetStep, Pick <- Latest

LEMMA SetNextFold ==
  ASSUME NEW v, NEW c, NEW next
  PROVE  \E r : /\ r[0] = v /\ r[NumFats] = SetNext(v, c, next)
                /\ \A k \in 1 .. NumFats : r[k] = SetCopy(r[k - 1], k - 1, c, next)
PROOF
  <1>1. NumFats \in Nat
    BY Constants
  <1>2. SetLoop!PicksLast(NumFats)
    BY <1>1, SetLoop!Greatest DEF SetLoop!PicksLast, Latest
  <1>3. PICK g : g = [i \in 1 .. NumFats |-> i - 1]
    OBVIOUS
  <1>4. DOMAIN g = 1 .. NumFats /\ \A k \in 1 .. NumFats : g[k] = k - 1
    BY <1>3
  <1>5. SetNext(v, c, next) = FoldLeft(LAMBDA u, copy : SetCopy(u, copy, c, next), v, g)
    BY <1>3 DEF SetNext
  <1>6. FoldLeft(LAMBDA u, copy : SetCopy(u, copy, c, next), v, g)
          = SetLoop!Fold(1 .. NumFats, g, v, c, next)
    BY <1>4 DEF FoldLeft, MapThenFoldSet, Max, SetLoop!Fold, SetLoop!IsIter, SetStep, Latest
  <1>7. PICK r : /\ r[0] = v
                 /\ \A k \in 1 .. NumFats : r[k] = SetStep(g[k], r[k - 1], c, next)
                 /\ SetLoop!Fold(1 .. NumFats, g, v, c, next) = r[NumFats]
    <2>1. PICK n \in Nat : n = NumFats
      BY <1>1
    <2>2. SetLoop!PicksLast(n)
      BY <1>2, <2>1
    <2>3. SetLoop!Loops(n, g, v, c, next)
      BY <2>2, SetLoop!LoopRun
    <2> QED BY <2>1, <2>3 DEF SetLoop!Loops
  <1> QED BY <1>4, <1>5, <1>6, <1>7 DEF SetStep
(* fat_set_next_cluster writes every copy. The first one takes a lying buffer   *)
(* out of the way of the last.                                                 *)
LEMMA SetNextCells ==
  ASSUME NEW v \in Media, NEW c \in FatIndex, NEW next \in EntryValues, Mirrored
  PROVE  LET w == SetNext(v, c, next)
         IN  /\ w \in Media /\ Fresh(w) /\ w.sector \in LastCopy
             /\ \A m \in Sectors \ AllTables : Content(w, m) = Content(v, m)
             /\ \A k \in Copies, q \in Cells : Cell(w, k, q) = Updated(c, next, q, Cell(v, k, q))
PROOF
  <1>1. PICK r : /\ r[0] = v /\ r[NumFats] = SetNext(v, c, next)
                 /\ \A k \in 1 .. NumFats : r[k] = SetCopy(r[k - 1], k - 1, c, next)
    BY SetNextFold
  <1>2. NumFats \in Nat /\ NumFats >= 2
    BY Constants DEF Mirrored
  <1> DEFINE Done(k) ==
        /\ r[k] \in Media
        /\ k >= 1 => Fresh(r[k]) /\ \E o \in Cells : r[k].sector = TableSector(k - 1, o)
        /\ \A m \in Sectors \ AllTables : Content(r[k], m) = Content(v, m)
        /\ \A j \in Copies, q \in Cells :
             Cell(r[k], j, q) = IF j < k THEN Updated(c, next, q, Cell(v, j, q)) ELSE Cell(v, j, q)
      G == {k \in 0 .. NumFats : Done(k)}
  <1>3. Done(0)
    BY <1>1, <1>2 DEF Copies
  <1>4. ASSUME NEW k \in 1 .. NumFats, Done(k - 1) PROVE Done(k)
    <2> DEFINE u == r[k - 1]  copy == k - 1  w == r[k]
    <2>1. copy \in Copies /\ copy \in Nat /\ k = copy + 1 /\ u \in Media /\ w = SetCopy(u, copy, c, next)
      BY <1>1, <1>2, <1>4 DEF Copies
    <2>2. Fresh(u) \/ u.sector # TableSector(copy, Offset(c))
      <3>1. CASE copy >= 1
        BY <1>4, <3>1
      <3>2. CASE copy = 0
        <4>1. Offset(c) \in Cells /\ 0 \in Copies
          BY CellOffsets, FirstCopy
        <4>2. TableSector(0, Offset(c)) \in Sectors /\ TableSector(0, Offset(c)) \notin LastCopy
          BY <4>1, Places, FirstNotLast
        <4>3. Fresh(u) \/ u.sector # TableSector(0, Offset(c))
          BY <2>1, <4>2, Trusted
        <4> QED BY <3>2, <4>3
      <3> QED BY <2>1, <3>1, <3>2
    <2>3. /\ \A m \in Sectors \ AllTables : Content(u, m) = Content(v, m)
          /\ \A j \in Copies, q \in Cells :
               Cell(u, j, q) = IF j < copy THEN Updated(c, next, q, Cell(v, j, q)) ELSE Cell(v, j, q)
      BY <1>4
    <2> HIDE DEF u, copy, w
    <2>4. /\ w \in Media /\ Fresh(w)
          /\ \E o \in Cells : w.sector = TableSector(copy, o)
          /\ \A m \in Sectors \ AllTables : Content(w, m) = Content(u, m)
          /\ \A j \in Copies, q \in Cells :
               Cell(w, j, q) = IF j = copy THEN Updated(c, next, q, Cell(u, j, q)) ELSE Cell(u, j, q)
      BY <2>1, <2>2, CopyWrites
    <2>5. ASSUME NEW j \in Copies, NEW q \in Cells
          PROVE  Cell(w, j, q) = IF j < k THEN Updated(c, next, q, Cell(v, j, q)) ELSE Cell(v, j, q)
      <3>1. j \in Int /\ copy \in Int
        BY <1>2, <2>1 DEF Copies
      <3> QED BY <2>1, <2>3, <2>4, <3>1
    <2>6. \A m \in Sectors \ AllTables : Content(w, m) = Content(v, m)
      BY <2>3, <2>4
    <2> QED BY <2>4, <2>5, <2>6 DEF w, copy
  <1> HIDE DEF Done
  <1>5. 0 \in G /\ \A k \in 1 .. NumFats : k - 1 \in G => k \in G
    BY <1>2, <1>3, <1>4
  <1> HIDE DEF G
  <1>6. \A k \in 0 .. NumFats : k \in G
    BY <1>2, <1>5, SetLoop!UpTo
  <1>7. Done(NumFats)
    BY <1>2, <1>6 DEF G
  <1> DEFINE w == SetNext(v, c, next)
  <1>8. w = r[NumFats]
    BY <1>1
  <1> HIDE DEF w
  <1>9. /\ w \in Media /\ Fresh(w)
        /\ \E o \in Cells : w.sector = TableSector(NumFats - 1, o)
        /\ \A m \in Sectors \ AllTables : Content(w, m) = Content(v, m)
    BY <1>2, <1>7, <1>8 DEF Done
  <1>10. w.sector \in LastCopy
    <2>1. PICK o \in Cells : w.sector = TableSector(NumFats - 1, o)
      BY <1>9
    <2>2. /\ w.sector \in AllTables /\ w.sector >= ReservedSectors + (NumFats - 1) * FatSize
      BY <2>1, FirstCopy, Places
    <2>3. (NumFats - 1) * FatSize \in Nat /\ ReservedSectors \in Nat /\ FirstRootSector \in Nat
      BY <1>2, Constants, Regions
    <2> QED BY <2>2, <2>3 DEF AllTables, LastCopy
  <1>11. \A k \in Copies, q \in Cells : Cell(w, k, q) = Updated(c, next, q, Cell(v, k, q))
    <2>1. \A k \in Copies : k < NumFats
      BY <1>2 DEF Copies
    <2> QED BY <1>7, <1>8, <2>1 DEF Done
  <1> QED BY <1>9, <1>10, <1>11 DEF w

(* What fat_set_next_cluster puts into the table is what _fat_get_next_cluster *)
(* finds there, whatever sectors the entry lies in and the buffer holds, every  *)
(* other entry still says what it said, and the copies of the table agree if    *)
(* they did (write.c:48-143, fat_core.c:61).                                    *)
THEOREM EntrySet ==
  ASSUME NEW v \in Media, NEW c \in FatIndex, NEW next \in EntryValues, Mirrored
  PROVE  LET w == SetNext(v, c, next)
         IN  /\ w \in Media /\ Fresh(w) /\ w.sector \in LastCopy
             /\ \A m \in Sectors \ AllTables : Content(w, m) = Content(v, m)
             /\ \A d \in FatIndex : GetNext(w, d).at = IF d = c THEN next ELSE GetNext(v, d).at
             /\ \A d \in FatIndex : Ent(w, d) = IF d = c THEN next ELSE Ent(v, d)
             /\ Agree(v) => Agree(w)
PROOF
  <1> DEFINE w == SetNext(v, c, next)
  <1>1. /\ w \in Media /\ Fresh(w) /\ w.sector \in LastCopy
        /\ \A m \in Sectors \ AllTables : Content(w, m) = Content(v, m)
        /\ \A k \in Copies, q \in Cells : Cell(w, k, q) = Updated(c, next, q, Cell(v, k, q))
    BY SetNextCells
  <1> HIDE DEF w
  <1>2. \A d \in FatIndex : Ent(w, d) = IF d = c THEN next ELSE Ent(v, d)
    BY <1>1, FirstCopy, EntryUpdated
  <1>3. \A d \in FatIndex : GetNext(w, d).at = IF d = c THEN next ELSE GetNext(v, d).at
    BY <1>1, <1>2, GetNextReads
  <1>4. Agree(v) => Agree(w)
    BY <1>1, FirstCopy DEF Agree
  <1> QED BY <1>1, <1>2, <1>3, <1>4 DEF w

LEMMA SameTwice ==
  ASSUME NEW u, NEW v, NEW w, Same(u, v), Same(v, w)
  PROVE  Same(u, w)
PROOF
  BY DEF Same

LEMMA SameSelf ==
  ASSUME NEW v
  PROVE  Same(v, v)
PROOF
  BY DEF Same

LEMMA GetNextRecord ==
  ASSUME NEW v, NEW c
  PROVE  GetNext(v, c) = [vol |-> GetNext(v, c).vol, at |-> GetNext(v, c).at]
PROOF
  BY DEF GetNext

(* last_cluster_alloc is a hint: it changes nothing that is on the medium.      *)
LEMMA HintKept ==
  ASSUME NEW v \in Media, NEW c \in Clusters
  PROVE  [v EXCEPT !.last = c] \in Media /\ Same(v, [v EXCEPT !.last = c])
PROOF
  <1> DEFINE w == [v EXCEPT !.last = c]
  <1>1. /\ v \in [disk : [Sectors -> AnySector], sector : Sectors, buf : AnySector,
                  dirty : BOOLEAN, last : Clusters]
        /\ \A n \in Sectors : v.disk[n] \in Fits(n)
        /\ v.buf \in Fits(v.sector)
        /\ v.sector \in LastCopy \/ Fresh(v)
    BY MediaParts
  <1>2. /\ w \in [disk : [Sectors -> AnySector], sector : Sectors, buf : AnySector,
                  dirty : BOOLEAN, last : Clusters]
        /\ w.disk = v.disk /\ w.sector = v.sector /\ w.buf = v.buf /\ w.dirty = v.dirty
    BY <1>1
  <1> HIDE DEF w
  <1>3. w \in Media
    BY <1>1, <1>2 DEF Media, Fresh
  <1>4. Same(v, w)
    BY <1>2 DEF Same, Content
  <1> QED BY <1>3, <1>4 DEF w

FindStep(c, found, p, q) ==
  IF found.at # 0 THEN found
  ELSE LET next == GetNext(found.vol, c)
       IN  IF next.at # 0 THEN [next EXCEPT !.at = 0]
           ELSE [next EXCEPT !.at = c, !.vol.last = c]
FindLoop == INSTANCE FoldFacts WITH Op <- FindStep, Pick <- Latest

LEMMA FindFreeFold ==
  ASSUME NEW v
  PROVE  \E r : /\ r[0] = [vol |-> v, at |-> 0] /\ r[ClusterCount - 2] = FindFree(v)
                /\ \A k \in 1 .. ClusterCount - 2 :
                     r[k] = FindStep(Candidates(v.last)[k], r[k - 1], 0, 0)
PROOF
  <1>1. PICK n \in Nat : n = ClusterCount - 2
    BY Regions
  <1>2. FindLoop!PicksLast(n)
    BY FindLoop!Greatest DEF FindLoop!PicksLast, Latest
  <1>3. PICK g : g = Candidates(v.last)
    OBVIOUS
  <1>4. DOMAIN g = 1 .. n
    BY <1>1, <1>3 DEF Candidates
  <1>5. PICK base : base = [vol |-> v, at |-> 0]
    OBVIOUS
  <1>6. FindFree(v) = FindLoop!Fold(1 .. n, g, base, 0, 0)
    BY <1>3, <1>4, <1>5 DEF FindFree, FoldLeft, MapThenFoldSet, Max, FindLoop!Fold,
                            FindLoop!IsIter, FindStep, Latest
  <1>7. \E r : /\ r[0] = base
               /\ \A k \in 1 .. n : r[k] = FindStep(g[k], r[k - 1], 0, 0)
               /\ FindLoop!Fold(1 .. n, g, base, 0, 0) = r[n]
    <2>1. FindLoop!Loops(n, g, base, 0, 0)
      BY <1>2, FindLoop!LoopRun
    <2> QED BY <2>1 DEF FindLoop!Loops
  <1> QED BY <1>1, <1>3, <1>5, <1>6, <1>7

WalkStep(i, place, p, q) ==
  IF place.at \in FatIndex THEN GetNext(place.vol, place.at) ELSE [place EXCEPT !.at = Stray]
WalkLoop == INSTANCE FoldFacts WITH Op <- WalkStep, Pick <- Latest

LEMMA WalkFold ==
  ASSUME NEW v, NEW c, NEW n \in Nat
  PROVE  \E r : /\ r[0] = [vol |-> v, at |-> c] /\ r[n] = Walk(v, c, n)
                /\ \A k \in 1 .. n : r[k] = WalkStep(k, r[k - 1], 0, 0)
PROOF
  <1>2. WalkLoop!PicksLast(n)
    BY WalkLoop!Greatest DEF WalkLoop!PicksLast, Latest
  <1>3. PICK g : g = [i \in 1 .. n |-> i]
    OBVIOUS
  <1>4. DOMAIN g = 1 .. n /\ \A k \in 1 .. n : g[k] = k
    BY <1>3
  <1>5. PICK base : base = [vol |-> v, at |-> c]
    OBVIOUS
  <1>6. Walk(v, c, n) = WalkLoop!Fold(1 .. n, g, base, 0, 0)
    BY <1>3, <1>4, <1>5 DEF Walk, FoldLeft, MapThenFoldSet, Max, WalkLoop!Fold,
                            WalkLoop!IsIter, WalkStep, Latest
  <1>7. \E r : /\ r[0] = base
               /\ \A k \in 1 .. n : r[k] = WalkStep(g[k], r[k - 1], 0, 0)
               /\ WalkLoop!Fold(1 .. n, g, base, 0, 0) = r[n]
    <2>1. WalkLoop!Loops(n, g, base, 0, 0)
      BY <1>2, WalkLoop!LoopRun
    <2> QED BY <2>1 DEF WalkLoop!Loops
  <1> QED BY <1>4, <1>5, <1>6, <1>7

SearchStep(n, v, p, q) == Get(v, n)
SearchLoop == INSTANCE FoldFacts WITH Op <- SearchStep, Pick <- Latest

LEMMA SearchFold ==
  ASSUME NEW v, NEW n \in Nat
  PROVE  \E r : /\ r[0] = v /\ r[n] = Search(v, n)
                /\ \A k \in 1 .. n : r[k] = Get(r[k - 1], DirentSector(k))
PROOF
  <1>2. SearchLoop!PicksLast(n)
    BY SearchLoop!Greatest DEF SearchLoop!PicksLast, Latest
  <1>3. PICK g : g = [i \in 1 .. n |-> DirentSector(i)]
    OBVIOUS
  <1>4. DOMAIN g = 1 .. n /\ \A k \in 1 .. n : g[k] = DirentSector(k)
    BY <1>3
  <1>6. Search(v, n) = SearchLoop!Fold(1 .. n, g, v, 0, 0)
    BY <1>3, <1>4 DEF Search, FoldLeft, MapThenFoldSet, Max, SearchLoop!Fold,
                      SearchLoop!IsIter, SearchStep, Latest
  <1>7. \E r : /\ r[0] = v
               /\ \A k \in 1 .. n : r[k] = SearchStep(g[k], r[k - 1], 0, 0)
               /\ SearchLoop!Fold(1 .. n, g, v, 0, 0) = r[n]
    <2>1. SearchLoop!Loops(n, g, v, 0, 0)
      BY <1>2, SearchLoop!LoopRun
    <2> QED BY <2>1 DEF SearchLoop!Loops
  <1> QED BY <1>4, <1>6, <1>7 DEF SearchStep

-----------------------------------------------------------------------------
(* Operations *)

(* Numbers of clusters, and the marks of the end of a chain, are different, as  *)
(* fat_type sees to, and can be put into an entry.                             *)
LEMMA Marks ==
  /\ \A c \in Clusters : c \in FatIndex /\ c \in Nat /\ c >= 2 /\ c <= ClusterCount + 1
                         /\ c \in EntryValues /\ c # 0
  /\ \A c \in FatIndex : c \in Nat
  /\ 0 \in EntryValues /\ Eoc \in EntryValues /\ HostEoc \in EntryValues
  /\ Eoc \in Nat /\ HostEoc \in Nat /\ Eoc # HostEoc /\ Eoc # 0 /\ HostEoc # 0
  /\ Eoc \notin FatIndex /\ HostEoc \notin FatIndex
  /\ Eoc \notin Clusters /\ HostEoc \notin Clusters /\ 0 \notin Clusters /\ 0 \in FatIndex
PROOF
  <1>1. ClusterCount \in Nat /\ ClusterCount < (IF Fat12 THEN 4085 ELSE 65525)
    BY Regions, FatVolumeAssumption
  <1>2. /\ \A c \in Clusters : c \in FatIndex /\ c \in Nat /\ c >= 2 /\ c <= ClusterCount + 1 /\ c # 0
        /\ \A c \in FatIndex : c \in Nat
        /\ 0 \notin Clusters /\ 0 \in FatIndex
    BY <1>1 DEF Clusters, FatIndex
  <1>3. PICK top \in Nat : /\ \A x \in Nat : x < top => x \in EntryValues
                          /\ Eoc \in Nat /\ HostEoc \in Nat /\ Eoc < HostEoc /\ HostEoc < top
                          /\ ClusterCount + 1 < Eoc
    <2>1. CASE Fat12
      <3>1. /\ \A x \in Nat : x < 4096 => x \in EntryValues
            /\ Eoc = 4088 /\ HostEoc = 4095 /\ ClusterCount < 4085
        BY <1>1, <2>1 DEF EntryValues, Twelve, Eoc, HostEoc
      <3> QED BY <1>1, <3>1
    <2>2. CASE ~Fat12
      <3>1. /\ \A x \in Nat : x < 65536 => x \in EntryValues
            /\ Eoc = 65528 /\ HostEoc = 65535 /\ ClusterCount < 65525
        BY <1>1, <2>2 DEF EntryValues, Sixteen, Eoc, HostEoc
      <3> QED BY <1>1, <3>1
    <2> QED BY <2>1, <2>2
  <1>4. /\ 0 \in EntryValues /\ Eoc \in EntryValues /\ HostEoc \in EntryValues
        /\ Eoc # HostEoc /\ Eoc # 0 /\ HostEoc # 0
    BY <1>1, <1>3
  <1>5. /\ Eoc \notin FatIndex /\ HostEoc \notin FatIndex
        /\ Eoc \notin Clusters /\ HostEoc \notin Clusters
    BY <1>1, <1>3 DEF Clusters, FatIndex
  <1>6. \A c \in Clusters : c \in EntryValues
    BY <1>1, <1>2, <1>3
  <1> QED BY <1>2, <1>3, <1>4, <1>5, <1>6

(* fat_find_free_cluster finds a free cluster, or none.                        *)
LEMMA FindFreeKeeps ==
  ASSUME NEW v \in Media, Mirrored
  PROVE  /\ FindFree(v).vol \in Media /\ Same(v, FindFree(v).vol)
         /\ FindFree(v).at = 0 \/ (FindFree(v).at \in Clusters /\ Ent(v, FindFree(v).at) = 0)
PROOF
  <1>1. PICK r : /\ r[0] = [vol |-> v, at |-> 0] /\ r[ClusterCount - 2] = FindFree(v)
                 /\ \A k \in 1 .. ClusterCount - 2 :
                      r[k] = FindStep(Candidates(v.last)[k], r[k - 1], 0, 0)
    BY FindFreeFold
  <1>2. PICK n \in Nat : n = ClusterCount - 2
    BY Regions
  <1> DEFINE Kept_(k) == /\ r[k].vol \in Media /\ Same(v, r[k].vol)
                         /\ r[k].at = 0 \/ (r[k].at \in Clusters /\ Ent(v, r[k].at) = 0)
             G == {k \in 0 .. n : Kept_(k)}
  <1>3. Kept_(0)
    BY <1>1, SameSelf
  <1>4. ASSUME NEW k \in 1 .. n, Kept_(k - 1) PROVE Kept_(k)
    <2> DEFINE before == r[k - 1]  c == Candidates(v.last)[k]
    <2>1. c \in Clusters
      <3>1. v.last \in Int /\ ClusterCount \in Nat /\ ClusterCount - 2 \in Nat \ {0}
        BY MediaParts, Regions, Marks
      <3>2. c = 2 + ((v.last + k - 3) % (ClusterCount - 2))
        BY <1>2, <1>4 DEF Candidates
      <3> QED BY <3>1, <3>2 DEF Clusters
    <2>2. r[k] = FindStep(c, before, 0, 0)
      BY <1>1, <1>2
    <2> HIDE DEF c
    <2>3. CASE before.at # 0
      BY <1>4, <2>2, <2>3 DEF FindStep
    <2>4. CASE before.at = 0
      <3> DEFINE next == GetNext(before.vol, c)
      <3>1. /\ before.vol \in Media /\ Same(v, before.vol) /\ c \in FatIndex
        BY <1>4, <2>1, Marks
      <3>2. /\ next.vol \in Media /\ Same(before.vol, next.vol)
            /\ next.at = Ent(before.vol, c)
            /\ next = [vol |-> next.vol, at |-> next.at]
        BY <3>1, GetNextReads, GetNextRecord
      <3>3. next.at = Ent(v, c) /\ Same(v, next.vol)
        BY <3>1, <3>2, SameEntries, SameTwice
      <3>4. r[k] = IF next.at # 0 THEN [next EXCEPT !.at = 0]
                   ELSE [next EXCEPT !.at = c, !.vol.last = c]
        BY <2>2, <2>4 DEF FindStep
      <3> HIDE DEF next
      <3>5. CASE next.at # 0
        BY <3>2, <3>3, <3>4, <3>5
      <3>6. CASE next.at = 0
        <4>1. PICK x : x = next.vol
          OBVIOUS
        <4>2. r[k].vol = [x EXCEPT !.last = c] /\ r[k].at = c
          BY <3>2, <3>4, <3>6, <4>1
        <4>3. [x EXCEPT !.last = c] \in Media /\ Same(x, [x EXCEPT !.last = c])
          BY <2>1, <3>2, <4>1, HintKept
        <4>4. r[k].vol \in Media /\ Same(v, r[k].vol)
          BY <3>3, <4>1, <4>2, <4>3, SameTwice
        <4>5. Ent(v, c) = 0
          BY <3>3, <3>6
        <4> QED BY <2>1, <4>2, <4>4, <4>5
      <3> QED BY <3>5, <3>6
    <2> QED BY <2>3, <2>4
  <1> HIDE DEF Kept_
  <1>5. 0 \in G /\ \A k \in 1 .. n : k - 1 \in G => k \in G
    BY <1>3, <1>4
  <1> HIDE DEF G
  <1>6. \A k \in 0 .. n : k \in G
    BY <1>5, SetLoop!UpTo
  <1>7. Kept_(n)
    BY <1>6 DEF G
  <1> QED BY <1>1, <1>2, <1>7 DEF Kept_

(* The steps of fat_lseek along a chain, and the look for a directory entry,    *)
(* only move the buffer.                                                       *)
LEMMA WalkKeeps ==
  ASSUME NEW v \in Media, NEW c \in Int, NEW n \in Nat, Mirrored
  PROVE  /\ Walk(v, c, n).vol \in Media /\ Same(v, Walk(v, c, n).vol)
         /\ Walk(v, c, n).at \in Int
PROOF
  <1>1. PICK r : /\ r[0] = [vol |-> v, at |-> c] /\ r[n] = Walk(v, c, n)
                 /\ \A k \in 1 .. n : r[k] = WalkStep(k, r[k - 1], 0, 0)
    BY WalkFold
  <1> DEFINE Kept_(k) == /\ r[k].vol \in Media /\ Same(v, r[k].vol) /\ r[k].at \in Int
                         /\ r[k] = [vol |-> r[k].vol, at |-> r[k].at]
             G == {k \in 0 .. n : Kept_(k)}
  <1>2. Kept_(0)
    BY <1>1, SameSelf
  <1>3. ASSUME NEW k \in 1 .. n, Kept_(k - 1) PROVE Kept_(k)
    <2> DEFINE before == r[k - 1]
    <2>1. r[k] = IF before.at \in FatIndex THEN GetNext(before.vol, before.at)
                                           ELSE [before EXCEPT !.at = Stray]
      BY <1>1 DEF WalkStep
    <2>2. /\ before.vol \in Media /\ Same(v, before.vol) /\ before.at \in Int
          /\ before = [vol |-> before.vol, at |-> before.at]
      BY <1>3
    <2> HIDE DEF before
    <2>3. CASE before.at \in FatIndex
      <3>1. PICK y \in Media, d \in FatIndex : y = before.vol /\ d = before.at
        BY <2>2, <2>3
      <3>2. r[k] = GetNext(y, d)
        BY <2>1, <2>3, <3>1
      <3>3. /\ GetNext(y, d).vol \in Media /\ Same(y, GetNext(y, d).vol)
            /\ GetNext(y, d).at \in Int
            /\ GetNext(y, d) = [vol |-> GetNext(y, d).vol, at |-> GetNext(y, d).at]
        BY GetNextReads, GetNextRecord, EntTyped
      <3> QED BY <2>2, <3>1, <3>2, <3>3, SameTwice
    <2>4. CASE before.at \notin FatIndex
      BY <2>1, <2>2, <2>4 DEF Stray
    <2> QED BY <2>3, <2>4
  <1> HIDE DEF Kept_
  <1>4. 0 \in G /\ \A k \in 1 .. n : k - 1 \in G => k \in G
    BY <1>2, <1>3
  <1> HIDE DEF G
  <1>5. \A k \in 0 .. n : k \in G
    BY <1>4, SetLoop!UpTo
  <1>6. Kept_(n)
    BY <1>5 DEF G
  <1> QED BY <1>1, <1>6 DEF Kept_

LEMMA DirentPlace ==
  ASSUME NEW f \in Files
  PROVE  /\ DirentSector(f) \in Sectors /\ DirentSector(f) \notin AllTables
         /\ DirentSector(f) \notin LastCopy /\ DirentSector(f) \notin DataSectors
         /\ Fits(DirentSector(f)) = Dirents /\ DirentSector(f) \in Nat
         /\ \A g \in Files : DirentSector(g) = DirentSector(f) => g = f
PROOF
  <1>1. f \in Nat /\ f >= 1 /\ f <= NrFiles /\ NrFiles \in Nat
    BY Regions DEF Files
  <1>2. /\ FirstRootSector \in Nat /\ FirstDataSector = FirstRootSector + NrFiles
        /\ FirstDataSector <= TotalSectors /\ TotalSectors \in Nat
        /\ ReservedSectors \in Nat /\ FirstRootSector >= ReservedSectors
    BY Regions, Constants
  <1>3. DirentSector(f) \in FirstRootSector .. FirstDataSector - 1
    BY <1>1, <1>2 DEF DirentSector
  <1>4. \A g \in Files : DirentSector(g) = DirentSector(f) => g = f
    BY <1>1, <1>2 DEF DirentSector, Files
  <1>5. PICK n \in Nat : n = DirentSector(f) /\ n >= FirstRootSector /\ n < FirstDataSector
    BY <1>2, <1>3
  <1>6. n \in Sectors
    BY <1>2, <1>5 DEF Sectors
  <1>7. n \notin AllTables /\ n \notin LastCopy
    BY <1>2, <1>5 DEF AllTables, LastCopy
  <1>8. n \notin DataSectors
    BY <1>2, <1>5 DEF DataSectors
  <1>9. Fits(n) = Dirents
    BY <1>2, <1>5 DEF Fits
  <1> QED BY <1>4, <1>5, <1>6, <1>7, <1>8, <1>9

LEMMA SearchKeeps ==
  ASSUME NEW v \in Media, NEW f \in Files
  PROVE  /\ Search(v, f) \in Media /\ Same(v, Search(v, f))
         /\ Search(v, f).sector = DirentSector(f)
PROOF
  <1>1. PICK n \in Nat : n = f /\ \A k \in 1 .. n : k \in Files
    BY Regions DEF Files
  <1>2. PICK r : /\ r[0] = v /\ r[n] = Search(v, n)
                 /\ \A k \in 1 .. n : r[k] = Get(r[k - 1], DirentSector(k))
    BY SearchFold
  <1> DEFINE G == {k \in 0 .. n : r[k] \in Media /\ Same(v, r[k])}
  <1>3. 0 \in G
    BY <1>2, SameSelf
  <1>4. ASSUME NEW k \in 1 .. n, k - 1 \in G PROVE k \in G
    <2>1. PICK y \in Media : y = r[k - 1] /\ Same(v, y)
      BY <1>4
    <2>2. DirentSector(k) \in Sectors
      BY <1>1, DirentPlace
    <2>3. Get(y, DirentSector(k)) \in Media /\ Same(y, Get(y, DirentSector(k)))
      BY <2>2, GetKeeps
    <2> QED BY <1>2, <2>1, <2>3, SameTwice
  <1> HIDE DEF G
  <1>5. \A k \in 0 .. n : k \in G
    BY <1>3, <1>4, SetLoop!UpTo
  <1>6. r[n] \in Media /\ Same(v, r[n])
    BY <1>5 DEF G
  <1>7. r[n].sector = DirentSector(n)
    <2>1. n \in Files /\ n \in 1 .. n
      BY <1>1 DEF Files
    <2>2. n - 1 \in 0 .. n
      BY <2>1
    <2>3. PICK y \in Media : y = r[n - 1]
      BY <1>5, <2>2 DEF G
    <2>4. r[n] = Get(y, DirentSector(n)) /\ DirentSector(n) \in Sectors
      BY <1>2, <2>1, <2>3, DirentPlace
    <2> QED BY <2>4, GetKeeps
  <1> QED BY <1>1, <1>2, <1>6, <1>7

LEMMA DataPlace ==
  ASSUME NEW n \in DataSectors
  PROVE  /\ n \in Sectors /\ n \notin AllTables /\ n \notin LastCopy
         /\ Fits(n) = [0 .. BytesPerSector - 1 -> Int]
         /\ \A f \in Files : n # DirentSector(f)
PROOF
  <1>1. /\ FirstRootSector \in Nat /\ FirstDataSector \in Nat /\ FirstDataSector >= FirstRootSector
        /\ FirstDataSector + ClusterCount * SectorsPerCluster <= TotalSectors
        /\ ClusterCount * SectorsPerCluster \in Nat
        /\ TotalSectors \in Nat /\ ReservedSectors \in Nat /\ FirstRootSector >= ReservedSectors
    BY Regions, Constants
  <1>2. PICK m \in Nat : m = ClusterCount * SectorsPerCluster
    BY <1>1
  <1>3. n \in Nat /\ n >= FirstDataSector /\ n < FirstDataSector + m
    BY <1>1, <1>2 DEF DataSectors
  <1>4. n \in Sectors
    BY <1>1, <1>2, <1>3 DEF Sectors
  <1>5. n \notin AllTables /\ n \notin LastCopy
    BY <1>1, <1>3 DEF AllTables, LastCopy
  <1>6. Fits(n) = [0 .. BytesPerSector - 1 -> Int]
    BY <1>1, <1>3 DEF Fits
  <1>7. \A f \in Files : n # DirentSector(f)
    BY DirentPlace
  <1> QED BY <1>4, <1>5, <1>6, <1>7

(* The sectors of a cluster, and of clusters alone, are sectors of data.        *)
LEMMA ClusterPlace ==
  ASSUME NEW c \in Int, NEW j \in 0 .. SectorsPerCluster - 1
  PROVE  /\ FirstSector(c) + j \in Int
         /\ FirstSector(c) + j \in DataSectors <=> c \in Clusters
PROOF
  <1> DEFINE s == SectorsPerCluster  d == FirstDataSector
  <1>1. s \in Nat \ {0} /\ d \in Nat /\ ClusterCount \in Nat /\ j \in Int /\ j >= 0 /\ j < s
    BY Regions
  <1>2. FirstSector(c) = (c - 2) * s + d
    BY DEF FirstSector
  <1>3. (c - 2) * s \in Int
    BY <1>1
  <1>4. CASE c >= ClusterCount + 2
    <2>1. PICK k \in Nat : c = ClusterCount + 2 + k
      <3>1. c - (ClusterCount + 2) \in Nat /\ c = ClusterCount + 2 + (c - (ClusterCount + 2))
        BY <1>1, <1>4
      <3> QED BY <3>1
    <2>2. (c - 2) * s = ClusterCount * s + k * s /\ k * s \in Nat /\ ClusterCount * s \in Nat
      BY <1>1, <2>1
    <2>3. ~(FirstSector(c) + j < d + ClusterCount * s)
      BY <1>1, <1>2, <2>2
    <2>4. ~(FirstSector(c) + j \in DataSectors)
      BY <1>1, <2>2, <2>3 DEF DataSectors
    <2> QED BY <1>1, <1>2, <1>3, <1>4, <2>4 DEF Clusters
  <1>5. CASE c <= 1
    <2>1. PICK k \in Nat : c = 1 - k
      <3>1. 1 - c \in Nat /\ c = 1 - (1 - c)
        BY <1>5
      <3> QED BY <3>1
    <2>2. (c - 2) * s = -s - k * s /\ k * s \in Nat
      BY <1>1, <2>1
    <2>3. FirstSector(c) + j < d
      BY <1>1, <1>2, <2>2
    <2> QED BY <1>1, <1>2, <1>3, <1>5, <2>3 DEF DataSectors, Clusters
  <1>6. CASE c >= 2 /\ c <= ClusterCount + 1
    <2>1. PICK k \in Nat : c = k + 2
      <3>1. c - 2 \in Nat /\ c = (c - 2) + 2
        BY <1>6
      <3> QED BY <3>1
    <2>2. PICK m \in Nat : ClusterCount = k + 1 + m
      <3>1. ClusterCount - (k + 1) \in Nat /\ ClusterCount = k + 1 + (ClusterCount - (k + 1))
        BY <1>1, <1>6, <2>1
      <3> QED BY <3>1
    <2>3. (c - 2) * s = k * s /\ k * s \in Nat
      BY <1>1, <2>1
    <2>4. ClusterCount * s = k * s + s + m * s /\ m * s \in Nat
      BY <1>1, <2>2
    <2>5. /\ FirstSector(c) + j >= d /\ FirstSector(c) + j <= d + ClusterCount * s - 1
      BY <1>1, <1>2, <2>3, <2>4
    <2>6. FirstSector(c) + j \in DataSectors
      BY <1>1, <1>2, <1>3, <2>3, <2>4, <2>5 DEF DataSectors
    <2> QED BY <1>1, <1>2, <1>3, <1>6, <2>6 DEF Clusters
  <1> QED BY <1>1, <1>4, <1>5, <1>6

(* Sector n is one of those of cluster c.                                      *)
InCluster(n, c) == \E j \in 0 .. SectorsPerCluster - 1 : n = FirstSector(c) + j

(* The zeros of a new cluster reach its sectors alone, and leave in the buffer  *)
(* what is not there.                                                          *)
LEMMA ClearKeeps ==
  ASSUME NEW v \in Media, v.sector \in LastCopy, NEW c \in Clusters
  PROVE  /\ Clear(v, c) \in Media
         /\ \A n \in Sectors \ DataSectors : Content(Clear(v, c), n) = Content(v, n)
         /\ \A n \in DataSectors : InCluster(n, c) \/ Content(Clear(v, c), n) = Content(v, n)
PROOF
  <1> DEFINE f == Flush(v)
             own == FirstSector(c) .. FirstSector(c) + SectorsPerCluster - 1
             zeros == [k \in 0 .. BytesPerSector - 1 |-> 0]
             w == Clear(v, c)
  <1>1. /\ f \in Media /\ ~f.dirty /\ f.sector = v.sector /\ f.sector \in LastCopy
        /\ \A n \in Sectors : f.disk[n] = Content(v, n)
    BY FlushKeeps
  <1>2. w = [f EXCEPT !.buf = [k \in DOMAIN f.buf |-> 0],
                      !.disk = [n \in DOMAIN f.disk |-> IF n \in own THEN zeros ELSE f.disk[n]]]
    BY DEF Clear
  <1> HIDE DEF f, zeros, w
  <1>3. own \subseteq DataSectors /\ \A n \in own : InCluster(n, c)
    <2>1. ASSUME NEW n \in own PROVE n \in DataSectors /\ InCluster(n, c)
      <3>1. c \in Int /\ SectorsPerCluster \in Nat \ {0} /\ 0 \in 0 .. SectorsPerCluster - 1
        BY Marks, Regions
      <3>2. FirstSector(c) \in Int
        BY <3>1, Regions DEF FirstSector
      <3>3. PICK j \in 0 .. SectorsPerCluster - 1 : n = FirstSector(c) + j
        <4>1. n - FirstSector(c) \in 0 .. SectorsPerCluster - 1 /\ n = FirstSector(c) + (n - FirstSector(c))
          BY <3>1, <3>2
        <4> QED BY <4>1
      <3> QED BY <3>1, <3>3, ClusterPlace DEF InCluster
    <2> QED BY <2>1
  <1> HIDE DEF own
  <1>4. /\ f \in [disk : [Sectors -> AnySector], sector : Sectors, buf : AnySector,
                  dirty : BOOLEAN, last : Clusters]
        /\ \A n \in Sectors : f.disk[n] \in Fits(n)
        /\ f.buf \in Fits(f.sector)
    BY <1>1, MediaParts
  <1>5. DOMAIN f.disk = Sectors /\ f.sector \in Sectors
    BY <1>4
  <1>6. /\ w.sector = f.sector /\ w.dirty = f.dirty /\ w.last = f.last
        /\ w.buf = [k \in DOMAIN f.buf |-> 0]
        /\ w.disk = [n \in Sectors |-> IF n \in own THEN zeros ELSE f.disk[n]]
        /\ w = [disk |-> w.disk, sector |-> w.sector, buf |-> w.buf, dirty |-> w.dirty,
                last |-> w.last]
    BY <1>2, <1>4, <1>5
  <1>7. w.buf \in Fits(w.sector)
    <2>1. PICK n : n = f.sector
      OBVIOUS
    <2>2. /\ n \in Nat /\ n < FirstRootSector /\ ~(n < ReservedSectors)
      <3>1. (NumFats - 1) * FatSize \in Nat /\ ReservedSectors \in Nat /\ FirstRootSector \in Nat
        BY Constants, Regions
      <3>2. n \in LastCopy
        BY <1>1, <2>1
      <3> QED BY <3>1, <3>2 DEF LastCopy
    <2>3. Fits(n) = [CellsOf(n) -> CellValues]
      BY <2>2 DEF Fits
    <2>4. DOMAIN f.buf = CellsOf(n)
      BY <1>4, <2>1, <2>3
    <2>5. 0 \in CellValues
      BY Constants DEF CellValues, Byte, Sixteen
    <2> QED BY <1>6, <2>1, <2>3, <2>4, <2>5
  <1>8. \A n \in Sectors : w.disk[n] \in Fits(n)
    <2>1. zeros \in [0 .. BytesPerSector - 1 -> Int]
      BY DEF zeros
    <2>2. \A n \in own : zeros \in Fits(n)
      BY <1>3, <2>1, DataPlace
    <2> QED BY <1>4, <1>6, <2>2
  <1>9. w \in [disk : [Sectors -> AnySector], sector : Sectors, buf : AnySector,
               dirty : BOOLEAN, last : Clusters]
    <2>1. w.buf \in AnySector /\ w.disk \in [Sectors -> AnySector]
      BY <1>5, <1>6, <1>7, <1>8, FitsAny
    <2> QED BY <1>4, <1>6, <2>1
  <1>10. w \in Media
    BY <1>1, <1>6, <1>7, <1>8, <1>9 DEF Media
  <1>11. \A n \in Sectors \ DataSectors : Content(w, n) = Content(v, n)
    BY <1>1, <1>3, <1>6 DEF Content
  <1>12. ASSUME NEW n \in DataSectors PROVE InCluster(n, c) \/ Content(w, n) = Content(v, n)
    <2>1. n \in Sectors
      BY DataPlace
    <2> QED BY <1>1, <1>3, <1>6, <2>1 DEF Content
  <1> QED BY <1>10, <1>11, <1>12 DEF w

(* What is done outside the tables leaves the entries alone.                   *)
LEMMA TablesKept ==
  ASSUME NEW v, NEW w, \A n \in AllTables : n \in Sectors => Content(w, n) = Content(v, n)
  PROVE  /\ \A c \in FatIndex : Ent(w, c) = Ent(v, c)
         /\ Agree(v) => Agree(w)
PROOF
  <1>1. \A copy \in Copies, o \in Cells : Cell(w, copy, o) = Cell(v, copy, o)
    BY Places DEF Cell
  <1>2. \A c \in FatIndex : Ent(w, c) = Ent(v, c)
    BY <1>1, CellOffsets, FirstCopy DEF Ent
  <1> QED BY <1>1, <1>2, FirstCopy DEF Agree

(* From v to w entry c has been set, and nothing else.                          *)
EntryIsSet(v, w, c, next) ==
  /\ w \in Media /\ w.sector \in LastCopy
  /\ \A m \in Sectors \ AllTables : Content(w, m) = Content(v, m)
  /\ \A d \in FatIndex : Ent(w, d) = IF d = c THEN next ELSE Ent(v, d)
  /\ Agree(v) => Agree(w)

LEMMA SetNextKeeps ==
  ASSUME NEW v \in Media, NEW c \in FatIndex, NEW next \in EntryValues, Mirrored
  PROVE  EntryIsSet(v, SetNext(v, c, next), c, next)
PROOF
  <1>1. PICK w : w = SetNext(v, c, next)
    OBVIOUS
  <1>2. EntryIsSet(v, w, c, next)
    BY <1>1, EntrySet DEF EntryIsSet
  <1> QED BY <1>1, <1>2

(* fat_alloc_next_cluster goes on to the next cluster, links a free one, or     *)
(* finds none.                                                                 *)
LEMMA AllocNextKeeps ==
  ASSUME NEW v \in Media, NEW c \in Clusters, NEW clear, Mirrored
  PROVE  LET w == AllocNext(v, c, clear).vol
             a == AllocNext(v, c, clear).at
         IN  /\ w \in Media /\ (Agree(v) => Agree(w))
             /\ \A n \in Sectors \ (AllTables \cup DataSectors) : Content(w, n) = Content(v, n)
             /\ \A n \in DataSectors :
                  \/ Content(w, n) = Content(v, n)
                  \/ Ent(v, c) = Eoc /\ a \in Clusters /\ Ent(v, a) = 0 /\ InCluster(n, a)
             /\ \/ /\ Ent(v, c) # Eoc /\ a = Ent(v, c)
                   /\ \A d \in FatIndex : Ent(w, d) = Ent(v, d)
                \/ /\ Ent(v, c) = Eoc /\ a = 0
                   /\ \A d \in FatIndex : Ent(w, d) = Ent(v, d)
                \/ /\ Ent(v, c) = Eoc /\ a \in Clusters /\ Ent(v, a) = 0 /\ a # c
                   /\ \A d \in FatIndex :
                        Ent(w, d) = IF d = c THEN a ELSE IF d = a THEN Eoc ELSE Ent(v, d)
PROOF
  <1> DEFINE next == GetNext(v, c)
             free == FindFree(next.vol)
             marked == SetNext(free.vol, free.at, Eoc)
             linked == SetNext(marked, c, free.at)
             r == AllocNext(v, c, clear)
  <1>0. \A n \in DataSectors : n \in Sectors /\ n \notin AllTables
    BY DataPlace
  <1>1. c \in FatIndex /\ c \in EntryValues /\ Eoc \in EntryValues /\ Eoc # 0
    BY Marks
  <1>2. next.vol \in Media /\ Same(v, next.vol) /\ next.at = Ent(v, c)
    BY <1>1, GetNextReads
  <1>3. /\ free.vol \in Media /\ Same(next.vol, free.vol)
        /\ free.at = 0 \/ (free.at \in Clusters /\ Ent(next.vol, free.at) = 0)
    BY <1>2, FindFreeKeeps
  <1>4. r = IF next.at # Eoc THEN next
            ELSE IF free.at = 0 THEN free
            ELSE [vol |-> IF clear THEN Clear(linked, free.at) ELSE linked, at |-> free.at]
    BY DEF AllocNext
  <1>5. Same(v, free.vol)
    BY <1>2, <1>3, SameTwice
  <1> HIDE DEF next, free
  <1>6. CASE next.at # Eoc
    <2>1. r.vol = next.vol /\ r.at = Ent(v, c) /\ Ent(v, c) # Eoc
      BY <1>2, <1>4, <1>6
    <2>2. /\ \A d \in FatIndex : Ent(next.vol, d) = Ent(v, d)
          /\ Agree(v) => Agree(next.vol)
      BY <1>2, SameEntries
    <2> HIDE DEF r
    <2> QED BY <1>0, <1>2, <2>1, <2>2 DEF r, Same
  <1>7. CASE next.at = Eoc /\ free.at = 0
    <2>1. r.vol = free.vol /\ r.at = 0 /\ Ent(v, c) = Eoc
      BY <1>2, <1>4, <1>7
    <2>2. /\ \A d \in FatIndex : Ent(free.vol, d) = Ent(v, d)
          /\ Agree(v) => Agree(free.vol)
      BY <1>5, SameEntries
    <2> HIDE DEF r
    <2> QED BY <1>0, <1>3, <1>5, <2>1, <2>2 DEF r, Same
  <1>8. CASE next.at = Eoc /\ free.at # 0
    <2>1. PICK a \in Clusters : a = free.at
      BY <1>3, <1>8
    <2>2. a \in FatIndex /\ a \in EntryValues
      BY Marks
    <2>3. PICK u \in Media : u = free.vol /\ Same(v, u)
      BY <1>3, <1>5
    <2>4. /\ \A d \in FatIndex : Ent(u, d) = Ent(v, d)
          /\ Agree(v) => Agree(u)
      BY <2>3, SameEntries
    <2>5. Ent(v, c) = Eoc /\ Ent(v, a) = 0 /\ a # c
      <3>1. Ent(v, c) = Eoc
        BY <1>2, <1>8
      <3>2. Ent(next.vol, a) = Ent(v, a)
        BY <1>2, <2>2, SameEntries
      <3>3. Ent(v, a) = 0
        BY <1>3, <1>8, <2>1, <3>2
      <3> QED BY <1>1, <3>1, <3>3
    <2>6. /\ marked \in Media
          /\ \A m \in Sectors \ AllTables : Content(marked, m) = Content(u, m)
          /\ \A d \in FatIndex : Ent(marked, d) = IF d = a THEN Eoc ELSE Ent(u, d)
          /\ Agree(u) => Agree(marked)
      <3>1. marked = SetNext(u, a, Eoc)
        BY <2>1, <2>3
      <3> HIDE DEF marked
      <3>2. EntryIsSet(u, marked, a, Eoc)
        BY <1>1, <2>2, <2>3, <3>1, SetNextKeeps
      <3> QED BY <3>2 DEF EntryIsSet
    <2> HIDE DEF marked
    <2>7. /\ linked \in Media /\ linked.sector \in LastCopy
          /\ \A m \in Sectors \ AllTables : Content(linked, m) = Content(marked, m)
          /\ \A d \in FatIndex : Ent(linked, d) = IF d = c THEN a ELSE Ent(marked, d)
          /\ Agree(marked) => Agree(linked)
      <3>1. linked = SetNext(marked, c, a)
        BY <2>1
      <3> HIDE DEF linked
      <3>2. marked \in Media
        BY <2>6
      <3>3. EntryIsSet(marked, linked, c, a)
        BY <1>1, <2>2, <3>1, <3>2, SetNextKeeps
      <3> QED BY <3>3 DEF EntryIsSet
    <2>8. r = [vol |-> IF clear THEN Clear(linked, a) ELSE linked, at |-> a]
      BY <1>4, <1>8, <2>1
    <2> HIDE DEF linked, r
    <2>9. /\ r.at = a /\ r.vol \in Media
          /\ \A n \in Sectors \ DataSectors : Content(r.vol, n) = Content(linked, n)
          /\ \A n \in DataSectors : InCluster(n, a) \/ Content(r.vol, n) = Content(linked, n)
      <3>1. CASE clear
        BY <2>7, <2>8, <3>1, ClearKeeps
      <3>2. CASE ~clear
        BY <2>7, <2>8, <3>2
      <3> QED BY <3>1, <3>2
    <2>10. /\ \A d \in FatIndex : Ent(r.vol, d) = Ent(linked, d)
           /\ Agree(linked) => Agree(r.vol)
      <3>1. \A n \in AllTables : n \in Sectors => Content(r.vol, n) = Content(linked, n)
        BY <2>9, DataPlace
      <3> QED BY <3>1, TablesKept
    <2>11. \A n \in Sectors \ (AllTables \cup DataSectors) : Content(r.vol, n) = Content(v, n)
      BY <2>3, <2>6, <2>7, <2>9 DEF Same
    <2>12. \A d \in FatIndex :
             Ent(r.vol, d) = IF d = c THEN a ELSE IF d = a THEN Eoc ELSE Ent(v, d)
      BY <2>4, <2>6, <2>7, <2>10
    <2>13. Agree(v) => Agree(r.vol)
      BY <2>4, <2>6, <2>7, <2>10
    <2>14. \A n \in DataSectors :
             Content(r.vol, n) = Content(v, n) \/ InCluster(n, a)
      BY <1>0, <2>3, <2>6, <2>7, <2>9 DEF Same
    <2> QED BY <2>5, <2>9, <2>11, <2>12, <2>13, <2>14 DEF r
  <1> QED BY <1>6, <1>7, <1>8

(* From v to w the size and the first cluster in the directory entry of f have  *)
(* become those of x, and nothing else has changed.                            *)
DirentTold(v, w, f, x) ==
  /\ w \in Media
  /\ \A n \in Sectors :
       Content(w, n) = IF n = DirentSector(f)
                       THEN [Content(v, n) EXCEPT !.size = x.size, !.first = x.first]
                       ELSE Content(v, n)

(* fat_file_sync writes the directory entry of the file.                        *)
LEMMA FileSyncKeeps ==
  ASSUME NEW v \in Media, NEW f \in Files, NEW x, x.size \in Nat, x.first \in {0} \cup Clusters
  PROVE  DirentTold(v, FileSync(v, f, x), f, x)
PROOF
  <1> DEFINE n == DirentSector(f)
             read == Get(v, n)
             buf == [read.buf EXCEPT !.size = x.size, !.first = x.first]
             put == Put(read, read.sector, buf)
  <1>1. n \in Sectors /\ n \notin LastCopy /\ Fits(n) = Dirents
    BY DirentPlace
  <1>2. Fresh(v) \/ v.sector # n
    BY <1>1, Trusted
  <1>3. FileSync(v, f, x) = Flush(put)
    BY DEF FileSync
  <1> HIDE DEF n
  <1>4. /\ read \in Media /\ Same(v, read) /\ read.sector = n /\ read.buf = Content(v, n)
    BY <1>1, <1>2, GetKeeps
  <1>5. read.buf \in Dirents
    BY <1>1, <1>4, MediaParts
  <1> HIDE DEF read
  <1>6. buf \in Fits(n)
    BY <1>1, <1>5 DEF Dirents
  <1> HIDE DEF buf
  <1>7. /\ put \in Media
        /\ \A m \in Sectors : Content(put, m) = IF m = n THEN buf ELSE Content(read, m)
    BY <1>1, <1>4, <1>6, PutWrites
  <1> HIDE DEF put
  <1>8. Flush(put) \in Media /\ Same(put, Flush(put))
    BY <1>7, FlushKeeps
  <1>9. \A m \in Sectors : Content(Flush(put), m) =
                             IF m = n THEN [Content(v, m) EXCEPT !.size = x.size, !.first = x.first]
                             ELSE Content(v, m)
    BY <1>4, <1>7, <1>8 DEF Same, buf
  <1> QED BY <1>3, <1>8, <1>9 DEF n, DirentTold

-----------------------------------------------------------------------------
(* Chains *)

(* The links e and the first clusters s of the files in U, if every cluster  *)
(* that is taken has an owner and comes after another one of his or is his  *)
(* first.                                                                  *)
ChainsOf(e, s, U, own, rank) ==
  /\ \A c \in Clusters :
       /\ own[c] \in {0} \cup U /\ rank[c] \in Nat
       /\ own[c] = 0 <=> e[c] = 0
       /\ e[c] \in {0, Eoc, HostEoc} \cup Clusters
       /\ e[c] \in Clusters => own[e[c]] = own[c] /\ rank[e[c]] = rank[c] + 1
       /\ e[c] = HostEoc => own[c] = HostFile
       /\ own[c] # 0 /\ s[own[c]] # c => \E d \in Clusters : e[d] = c
  /\ \A f \in U : s[f] \in Clusters => own[s[f]] = f

(* Cluster a is the one of file f that is r clusters from its beginning, and *)
(* nothing else has changed.                                                 *)
Joined(own, rank, own2, rank2, a, f, r) ==
  \A c \in Clusters : /\ own2[c] = IF c = a THEN f ELSE own[c]
                     /\ rank2[c] = IF c = a THEN r ELSE rank[c]

LEMMA FilesNotZero == 0 \notin Files /\ \A f \in Files : f \in Nat
PROOF
  BY Regions DEF Files

(* Who owns a cluster has a first one, and it is not further on.             *)
LEMMA Rooted ==
  ASSUME NEW e, NEW s, NEW U \in SUBSET Files, NEW own, NEW rank,
         ChainsOf(e, s, U, own, rank), NEW c \in Clusters, own[c] # 0
  PROVE  /\ own[c] \in U /\ s[own[c]] \in Clusters
         /\ own[s[own[c]]] = own[c] /\ rank[s[own[c]]] <= rank[c]
PROOF
  <1> DEFINE T == {rank[d] : d \in {d \in Clusters : own[d] = own[c]}}
  <1>1. T \in SUBSET Nat /\ T # {}
    BY DEF ChainsOf
  <1>2. PICK x \in T : \A y \in T : x <= y
    BY <1>1, SetLoop!NatLeast
  <1>3. PICK m \in Clusters : own[m] = own[c] /\ x = rank[m]
    BY <1>2
  <1>4. s[own[c]] = m
    <2> SUFFICES ASSUME s[own[m]] # m PROVE FALSE
      BY <1>3
    <2>1. PICK d \in Clusters : e[d] = m
      BY <1>3 DEF ChainsOf
    <2>2. own[d] = own[c] /\ rank[m] = rank[d] + 1 /\ rank[d] \in Nat
      BY <1>3, <2>1 DEF ChainsOf
    <2>3. rank[d] \in T
      BY <2>2
    <2> HIDE DEF T
    <2>4. x <= rank[d] /\ x = rank[d] + 1
      BY <1>2, <1>3, <2>2, <2>3
    <2> QED BY <2>2, <2>4
  <1>5. rank[c] \in T
    OBVIOUS
  <1>6. own[c] \in U
    BY DEF ChainsOf
  <1> QED BY <1>2, <1>3, <1>4, <1>5, <1>6

(* The first cluster of a file that had none.                                *)
EndsAt(e, e2, a) == \A c \in Clusters : e2[c] = IF c = a THEN Eoc ELSE e[c]
Begins(s, s2, U, f, a) == \A g \in U : s2[g] = IF g = f THEN a ELSE s[g]

LEMMA FirstLinked ==
  ASSUME NEW e, NEW s, NEW U \in SUBSET Files, NEW own, NEW rank,
         ChainsOf(e, s, U, own, rank),
         NEW f \in U, s[f] \notin Clusters, NEW a \in Clusters, e[a] = 0,
         NEW e2, EndsAt(e, e2, a), NEW s2, Begins(s, s2, U, f, a)
  PROVE  \E own2, rank2 : ChainsOf(e2, s2, U, own2, rank2) /\ Joined(own, rank, own2, rank2, a, f, 0)
PROOF
  <1> DEFINE own2 == [c \in Clusters |-> IF c = a THEN f ELSE own[c]]
             rank2 == [c \in Clusters |-> IF c = a THEN 0 ELSE rank[c]]
  <1> USE DEF EndsAt, Begins
  <1>1. own[a] = 0 /\ f # 0 /\ Eoc # 0 /\ Eoc # HostEoc /\ Eoc \notin Clusters /\ 0 \notin Clusters
    BY Marks, FilesNotZero DEF ChainsOf
  <1>2. ASSUME NEW c \in Clusters
        PROVE  /\ own2[c] \in {0} \cup U /\ rank2[c] \in Nat
               /\ own2[c] = 0 <=> e2[c] = 0
               /\ e2[c] \in {0, Eoc, HostEoc} \cup Clusters
               /\ e2[c] \in Clusters => own2[e2[c]] = own2[c] /\ rank2[e2[c]] = rank2[c] + 1
               /\ e2[c] = HostEoc => own2[c] = HostFile
               /\ own2[c] # 0 /\ s2[own2[c]] # c => \E d \in Clusters : e2[d] = c
    <2>1. CASE c = a
      BY <1>1, <2>1
    <2>2. CASE c # a
      <3>1. own2[c] = own[c] /\ rank2[c] = rank[c] /\ e2[c] = e[c]
        BY <2>2
      <3>2. e[c] \in Clusters => e[c] # a
        BY <1>1 DEF ChainsOf
      <3>3. ASSUME own[c] # 0, s2[own[c]] # c PROVE \E d \in Clusters : e2[d] = c
        <4>1. own[c] \in U /\ own[c] # f
          <5>1. own[c] \in U /\ s[own[c]] \in Clusters
            BY <3>1, <3>3, Rooted
          <5> QED BY <5>1
        <4>2. PICK d \in Clusters : e[d] = c
          BY <3>3, <4>1 DEF ChainsOf
        <4>3. d # a
          BY <1>1, <4>2
        <4> QED BY <4>2, <4>3
      <3> QED BY <3>1, <3>2, <3>3 DEF ChainsOf
    <2> QED BY <2>1, <2>2
  <1>3. ASSUME NEW g \in U, s2[g] \in Clusters PROVE own2[s2[g]] = g
    <2>1. g # 0
      BY FilesNotZero
    <2> QED BY <1>1, <1>3, <2>1 DEF ChainsOf
  <1> HIDE DEF own2, rank2
  <1>4. ChainsOf(e2, s2, U, own2, rank2)
    BY <1>2, <1>3 DEF ChainsOf
  <1>5. Joined(own, rank, own2, rank2, a, f, 0)
    BY DEF Joined, own2, rank2
  <1> QED BY <1>4, <1>5

(* A cluster after the last one.                                             *)
Continues(e, e2, last, a) ==
  \A c \in Clusters : e2[c] = IF c = last THEN a ELSE IF c = a THEN Eoc ELSE e[c]

LEMMA NextLinked ==
  ASSUME NEW e, NEW s, NEW U \in SUBSET Files, NEW own, NEW rank,
         ChainsOf(e, s, U, own, rank),
         NEW last \in Clusters, e[last] = Eoc, NEW a \in Clusters, e[a] = 0,
         NEW e2, Continues(e, e2, last, a)
  PROVE  \E own2, rank2 : /\ ChainsOf(e2, s, U, own2, rank2)
                          /\ Joined(own, rank, own2, rank2, a, own[last], rank[last] + 1)
PROOF
  <1> DEFINE own2 == [c \in Clusters |-> IF c = a THEN own[last] ELSE own[c]]
             rank2 == [c \in Clusters |-> IF c = a THEN rank[last] + 1 ELSE rank[c]]
  <1> USE DEF Continues
  <1>1. /\ own[a] = 0 /\ own[last] # 0 /\ Eoc # 0 /\ Eoc # HostEoc /\ Eoc \notin Clusters
        /\ 0 \notin Clusters /\ last # a /\ HostEoc \notin Clusters
    BY Marks DEF ChainsOf
  <1>2. ASSUME NEW c \in Clusters
        PROVE  /\ own2[c] \in {0} \cup U /\ rank2[c] \in Nat
               /\ own2[c] = 0 <=> e2[c] = 0
               /\ e2[c] \in {0, Eoc, HostEoc} \cup Clusters
               /\ e2[c] \in Clusters => own2[e2[c]] = own2[c] /\ rank2[e2[c]] = rank2[c] + 1
               /\ e2[c] = HostEoc => own2[c] = HostFile
               /\ own2[c] # 0 /\ s[own2[c]] # c => \E d \in Clusters : e2[d] = c
    <2>1. CASE c = a
      BY <1>1, <2>1 DEF ChainsOf
    <2>2. CASE c # a
      <3>1. own2[c] = own[c] /\ rank2[c] = rank[c]
        BY <2>2
      <3>2. e[c] \in Clusters => e[c] # a
        BY <1>1 DEF ChainsOf
      <3>3. ASSUME own[c] # 0, s[own[c]] # c PROVE \E d \in Clusters : e2[d] = c
        <4>1. PICK d \in Clusters : e[d] = c
          BY <3>3 DEF ChainsOf
        <4>2. d # a /\ d # last
          BY <1>1, <4>1
        <4> QED BY <4>1, <4>2
      <3>4. CASE c = last
        BY <1>1, <3>1, <3>3, <3>4 DEF ChainsOf
      <3>5. CASE c # last
        BY <2>2, <3>1, <3>2, <3>3, <3>5 DEF ChainsOf
      <3> QED BY <3>4, <3>5
    <2> QED BY <2>1, <2>2
  <1>3. ASSUME NEW g \in U, s[g] \in Clusters PROVE own2[s[g]] = g
    <2>1. g # 0
      BY FilesNotZero
    <2> QED BY <1>1, <1>3, <2>1 DEF ChainsOf
  <1> HIDE DEF own2, rank2
  <1>4. ChainsOf(e2, s, U, own2, rank2)
    BY <1>2, <1>3 DEF ChainsOf
  <1>5. Joined(own, rank, own2, rank2, a, own[last], rank[last] + 1)
    BY DEF Joined, own2, rank2
  <1> QED BY <1>4, <1>5

(* The first cluster is freed, and the next one is the first.                *)
LEMMA HeadFreed ==
  ASSUME NEW e, NEW s, NEW U \in SUBSET Files, NEW own, NEW rank,
         ChainsOf(e, s, U, own, rank),
         NEW f \in U, NEW h \in Clusters, s[f] = h,
         NEW e2, \A c \in Clusters : e2[c] = IF c = h THEN 0 ELSE e[c],
         NEW s2, \A g \in U : s2[g] = IF g = f THEN e[h] ELSE s[g]
  PROVE  \E own2, rank2 : ChainsOf(e2, s2, U, own2, rank2) /\ Joined(own, rank, own2, rank2, h, 0, rank[h])
PROOF
  <1> DEFINE own2 == [c \in Clusters |-> IF c = h THEN 0 ELSE own[c]]
  <1>1. own[h] = f /\ f # 0 /\ 0 \notin Clusters /\ HostEoc # 0
    BY Marks, FilesNotZero DEF ChainsOf
  <1>2. ASSUME NEW c \in Clusters PROVE e[c] # h
    <2> SUFFICES ASSUME e[c] = h PROVE FALSE
      OBVIOUS
    <2>1. own[c] = f /\ rank[h] = rank[c] + 1 /\ rank[c] \in Nat
      BY <1>1 DEF ChainsOf
    <2>2. rank[h] <= rank[c]
      <3>1. rank[s[own[c]]] <= rank[c]
        BY <1>1, <2>1, Rooted
      <3> QED BY <2>1, <3>1
    <2> QED BY <2>1, <2>2
  <1>3. ASSUME NEW c \in Clusters
        PROVE  /\ own2[c] \in {0} \cup U /\ rank[c] \in Nat
               /\ own2[c] = 0 <=> e2[c] = 0
               /\ e2[c] \in {0, Eoc, HostEoc} \cup Clusters
               /\ e2[c] \in Clusters => own2[e2[c]] = own2[c] /\ rank[e2[c]] = rank[c] + 1
               /\ e2[c] = HostEoc => own2[c] = HostFile
               /\ own2[c] # 0 /\ s2[own2[c]] # c => \E d \in Clusters : e2[d] = c
    <2>1. CASE c = h
      BY <1>1, <2>1 DEF ChainsOf
    <2>2. CASE c # h
      <3>1. own2[c] = own[c] /\ e2[c] = e[c]
        BY <2>2
      <3>2. ASSUME own[c] # 0, s2[own[c]] # c PROVE \E d \in Clusters : e2[d] = c
        <4>1. own[c] \in U
          BY <3>2 DEF ChainsOf
        <4>2. s[own[c]] # c
          BY <2>2, <3>2, <4>1
        <4>3. PICK d \in Clusters : e[d] = c
          BY <3>2, <4>2 DEF ChainsOf
        <4>4. d # h
          <5>1. own[d] = own[c]
            BY <4>3 DEF ChainsOf
          <5> QED BY <1>1, <3>2, <4>1, <4>3, <5>1
        <4> QED BY <4>3, <4>4
      <3> QED BY <1>2, <3>1, <3>2 DEF ChainsOf
    <2> QED BY <2>1, <2>2
  <1>4. ASSUME NEW g \in U, s2[g] \in Clusters PROVE own2[s2[g]] = g
    <2>1. CASE g = f
      BY <1>1, <1>2, <1>4, <2>1 DEF ChainsOf
    <2>2. CASE g # f
      BY <1>1, <1>4, <2>2 DEF ChainsOf
    <2> QED BY <2>1, <2>2
  <1> HIDE DEF own2
  <1>5. ChainsOf(e2, s2, U, own2, rank)
    BY <1>3, <1>4 DEF ChainsOf
  <1>6. Joined(own, rank, own2, rank, h, 0, rank[h])
    BY DEF Joined, own2
  <1> QED BY <1>5, <1>6

(* A file that has no cluster comes or goes, or nothing changes.             *)
LEMMA FilesChange ==
  ASSUME NEW e, NEW s, NEW U \in SUBSET Files, NEW own, NEW rank,
         ChainsOf(e, s, U, own, rank),
         NEW e2, \A c \in Clusters : e2[c] = e[c],
         NEW s2, NEW V \in SUBSET Files, \A g \in U \cap V : s2[g] = s[g],
         \A g \in U \ V : s[g] \notin Clusters, \A g \in V \ U : s2[g] \notin Clusters
  PROVE  ChainsOf(e2, s2, V, own, rank)
PROOF
  <1>1. ASSUME NEW c \in Clusters, own[c] # 0 PROVE own[c] \in U \cap V
    BY <1>1, Rooted
  <1>2. ASSUME NEW c \in Clusters
        PROVE  /\ own[c] \in {0} \cup V /\ rank[c] \in Nat
               /\ own[c] = 0 <=> e2[c] = 0
               /\ e2[c] \in {0, Eoc, HostEoc} \cup Clusters
               /\ e2[c] \in Clusters => own[e2[c]] = own[c] /\ rank[e2[c]] = rank[c] + 1
               /\ e2[c] = HostEoc => own[c] = HostFile
               /\ own[c] # 0 /\ s2[own[c]] # c => \E d \in Clusters : e2[d] = c
    <2>1. own[c] # 0 => own[c] \in V /\ s2[own[c]] = s[own[c]]
      BY <1>1
    <2>2. own[c] # 0 /\ s2[own[c]] # c => \E d \in Clusters : e[d] = c
      BY <2>1 DEF ChainsOf
    <2> QED BY <2>1, <2>2 DEF ChainsOf
  <1>3. ASSUME NEW g \in V, s2[g] \in Clusters PROVE own[s2[g]] = g
    BY <1>3 DEF ChainsOf
  <1> QED BY <1>2, <1>3 DEF ChainsOf

-----------------------------------------------------------------------------
(* What the links lead to *)

Length == ClusterCount + 1

Follows(t, a, e) ==
  t = [k \in 1 .. Length |-> IF k = 1 THEN a
                             ELSE IF t[k - 1] \in Clusters THEN e[t[k - 1]] ELSE 0]

(* Follow the links e from a.                                                *)
FollowStep(k, at, e, q) == IF at \in Clusters THEN e[at] ELSE 0
FollowLoop == INSTANCE FoldFacts WITH Op <- FollowStep, Pick <- Latest

LEMMA SomeFollow ==
  ASSUME NEW a, NEW e
  PROVE  \E t : Follows(t, a, e)
PROOF
  <1>1. PICK n \in Nat : n = Length
    BY Regions DEF Length
  <1>2. FollowLoop!PicksLast(n)
    BY FollowLoop!Greatest DEF FollowLoop!PicksLast, Latest
  <1>3. PICK r : r[0] = a /\ \A k \in 1 .. n : r[k] = FollowStep(0, r[k - 1], e, 0)
    <2>1. PICK g : g = [k \in 1 .. n |-> 0]
      OBVIOUS
    <2>2. FollowLoop!Loops(n, g, a, e, 0)
      BY <1>2, FollowLoop!LoopRun
    <2>3. PICK r : r[0] = a /\ \A k \in 1 .. n : r[k] = FollowStep(g[k], r[k - 1], e, 0)
      BY <2>2 DEF FollowLoop!Loops
    <2>4. \A k \in 1 .. n : r[k] = FollowStep(0, r[k - 1], e, 0)
      BY <2>1, <2>3
    <2> QED BY <2>3, <2>4
  <1> DEFINE t == [k \in 1 .. n |-> r[k - 1]]
  <1>4. \A k \in 1 .. n : t[k] = IF k = 1 THEN a
                                 ELSE IF t[k - 1] \in Clusters THEN e[t[k - 1]] ELSE 0
    <2>1. ASSUME NEW k \in 1 .. n, k # 1
          PROVE  t[k] = IF t[k - 1] \in Clusters THEN e[t[k - 1]] ELSE 0
      <3>1. k - 1 \in 1 .. n /\ t[k] = r[k - 1] /\ t[k - 1] = r[k - 1 - 1]
        BY <2>1
      <3> HIDE DEF t
      <3> QED BY <1>3, <3>1 DEF FollowStep
    <2>2. 1 \in 1 .. n => t[1] = a
      BY <1>3
    <2> HIDE DEF t
    <2> QED BY <2>1, <2>2
  <1>5. t = [k \in 1 .. n |-> t[k]]
    OBVIOUS
  <1> HIDE DEF t
  <1>6. t = [k \in 1 .. n |-> IF k = 1 THEN a
                              ELSE IF t[k - 1] \in Clusters THEN e[t[k - 1]] ELSE 0]
    BY <1>4, <1>5
  <1>7. Follows(t, a, e)
    BY <1>1, <1>6 DEF Follows
  <1> QED BY <1>7

(* They stay with the owner and go further on.                               *)
LEMMA StaysOwned ==
  ASSUME NEW e, NEW s, NEW U \in SUBSET Files, NEW own, NEW rank,
         ChainsOf(e, s, U, own, rank), NEW f \in U, NEW t, Follows(t, s[f], e)
  PROVE  \A k \in 1 .. Length :
           t[k] \in Clusters => /\ own[t[k]] = f /\ rank[t[k]] = rank[s[f]] + k - 1
                                /\ \A j \in 1 .. k : t[j] \in Clusters
PROOF
  <1> DEFINE N == Length
             Good(k) == t[k] \in Clusters =>
                          /\ own[t[k]] = f /\ rank[t[k]] = rank[s[f]] + k - 1
                          /\ \A j \in 1 .. k : t[j] \in Clusters
             G == {k \in 0 .. N : k # 0 => Good(k)}
  <1>1. N \in Nat /\ N >= 2
    BY Regions DEF Length
  <1>2. \A k \in 1 .. N : t[k] = IF k = 1 THEN s[f]
                                 ELSE IF t[k - 1] \in Clusters THEN e[t[k - 1]] ELSE 0
    BY DEF Follows
  <1> HIDE DEF N
  <1>3. ASSUME NEW k \in 1 .. N, k - 1 \in G PROVE k \in G
    <2> SUFFICES ASSUME t[k] \in Clusters
                 PROVE  /\ own[t[k]] = f /\ rank[t[k]] = rank[s[f]] + k - 1
                        /\ \A j \in 1 .. k : t[j] \in Clusters
      OBVIOUS
    <2>1. CASE k = 1
      <3>1. t[k] = s[f] /\ own[s[f]] = f /\ rank[s[f]] \in Nat
        BY <1>2, <2>1 DEF ChainsOf
      <3> QED BY <2>1, <3>1
    <2>2. CASE k # 1
      <3>1. t[k - 1] \in Clusters /\ t[k] = e[t[k - 1]]
        BY <1>2, <2>2, Marks
      <3>2. k - 1 \in 1 .. N /\ Good(k - 1)
        BY <1>3, <2>2
      <3>3. PICK d \in Clusters : d = t[k - 1]
        BY <3>1
      <3>4. /\ own[d] = f /\ rank[d] = rank[s[f]] + (k - 1) - 1
            /\ \A j \in 1 .. k - 1 : t[j] \in Clusters
        BY <3>1, <3>2, <3>3
      <3>5. own[t[k]] = own[d] /\ rank[t[k]] = rank[d] + 1 /\ rank[d] \in Nat
        BY <3>1, <3>3 DEF ChainsOf
      <3>6. s[f] \in Clusters /\ rank[s[f]] \in Nat
        <4>1. t[1] = s[f] /\ 1 \in 1 .. k - 1
          BY <1>1, <1>2, <2>2
        <4> QED BY <3>4, <4>1 DEF ChainsOf
      <3>7. \A j \in 1 .. k : t[j] \in Clusters
        BY <3>4
      <3> QED BY <3>4, <3>5, <3>6, <3>7
    <2> QED BY <2>1, <2>2
  <1>4. 0 \in G
    BY <1>1
  <1> HIDE DEF G
  <1>5. \A k \in 0 .. N : k \in G
    BY <1>1, <1>3, <1>4, SetLoop!UpTo
  <1>6. \A k \in 1 .. N : Good(k)
    BY <1>5 DEF G
  <1> QED BY <1>6 DEF N

(* There are not as many clusters as that, ...                               *)
LEMMA ComesToAnEnd ==
  ASSUME NEW e, NEW s, NEW U \in SUBSET Files, NEW own, NEW rank,
         ChainsOf(e, s, U, own, rank), NEW f \in U, NEW t, Follows(t, s[f], e)
  PROVE  t[Length] \notin Clusters
PROOF
  <1> SUFFICES ASSUME t[Length] \in Clusters PROVE FALSE
    OBVIOUS
  <1>1. Length \in Nat /\ Length >= 1 /\ ClusterCount \in Nat /\ Length = ClusterCount + 1
    BY Regions DEF Length
  <1>0. \A k \in 1 .. Length :
          t[k] \in Clusters => /\ own[t[k]] = f /\ rank[t[k]] = rank[s[f]] + k - 1
                               /\ \A j \in 1 .. k : t[j] \in Clusters
    BY StaysOwned
  <1>2. \A k \in 1 .. Length : t[k] \in Clusters
    BY <1>0, <1>1
  <1>3. \A k \in 1 .. Length : rank[t[k]] = rank[s[f]] + k - 1 /\ rank[s[f]] \in Nat
    <2>1. t[1] = s[f] /\ 1 \in 1 .. Length
      BY <1>1 DEF Follows
    <2>2. rank[s[f]] \in Nat
      BY <1>2, <2>1 DEF ChainsOf
    <2> QED BY <1>0, <1>2, <2>2
  <1> DEFINE g == [k \in 1 .. Length |-> t[k]]
  <1>4. g \in [1 .. Length -> Clusters]
    BY <1>2
  <1>5. /\ IsFiniteSet(1 .. Length) /\ Cardinality(1 .. Length) = Length
        /\ IsFiniteSet(Clusters) /\ Cardinality(Clusters) = ClusterCount
    BY <1>1, FS_Interval DEF Clusters
  <1>6. \E j, k \in 1 .. Length : j # k /\ g[j] = g[k]
    <2>1. PICK S : S = 1 .. Length
      OBVIOUS
    <2> HIDE DEF g
    <2>2. /\ IsFiniteSet(S) /\ IsFiniteSet(Clusters) /\ Cardinality(Clusters) < Cardinality(S)
          /\ g \in [S -> Clusters]
      BY <1>1, <1>4, <1>5, <2>1
    <2>3. \E j, k \in S : j # k /\ g[j] = g[k]
      BY <2>2, FS_PigeonHole
    <2> QED BY <2>1, <2>3
  <1>7. PICK j \in 1 .. Length, k \in 1 .. Length : j # k /\ t[j] = t[k]
    BY <1>6
  <1>8. rank[s[f]] + j - 1 = rank[s[f]] + k - 1 /\ rank[s[f]] \in Nat
    BY <1>3, <1>7
  <1> QED BY <1>1, <1>7, <1>8

GoesThrough(t, own, f, first) ==
  /\ \A c \in Clusters : own[c] = f <=> \E k \in 1 .. Length : t[k] = c
  /\ first \in Clusters => \E k \in 1 .. Length : t[k] \in {Eoc, HostEoc}

(* ... so there is a mark at the end, and nothing the file owns is missed.   *)
LEMMA ChainFollows ==
  ASSUME NEW e, NEW s, NEW U \in SUBSET Files, NEW own, NEW rank,
         ChainsOf(e, s, U, own, rank), NEW f \in U, NEW t, Follows(t, s[f], e)
  PROVE  GoesThrough(t, own, f, s[f])
PROOF
  <1>1. Length \in Nat /\ Length >= 1
    BY Regions DEF Length
  <1>2. \A k \in 1 .. Length : t[k] = IF k = 1 THEN s[f]
                                      ELSE IF t[k - 1] \in Clusters THEN e[t[k - 1]] ELSE 0
    BY DEF Follows
  <1>0. \A k \in 1 .. Length :
          t[k] \in Clusters => /\ own[t[k]] = f /\ rank[t[k]] = rank[s[f]] + k - 1
                               /\ \A j \in 1 .. k : t[j] \in Clusters
    BY StaysOwned
  <1>3. t[Length] \notin Clusters
    BY ComesToAnEnd
  <1>4. ASSUME s[f] \in Clusters PROVE \E k \in 1 .. Length : t[k] \in {Eoc, HostEoc}
    <2> DEFINE T == {k \in 1 .. Length : t[k] \notin Clusters}
    <2>1. T \in SUBSET Nat /\ T # {}
      BY <1>1, <1>3
    <2>2. PICK k \in T : \A j \in T : k <= j
      BY <2>1, SetLoop!NatLeast
    <2>3. k \in 1 .. Length /\ t[k] \notin Clusters /\ k # 1
      BY <1>2, <1>4, <2>2
    <2>4. k - 1 \in 1 .. Length /\ k - 1 \notin T
      BY <1>1, <2>2, <2>3
    <2>5. PICK d \in Clusters : d = t[k - 1]
      BY <2>4
    <2>6. t[k] = e[d]
      BY <1>2, <2>3, <2>5
    <2>7. own[d] = f /\ f # 0
      BY <1>0, <2>4, <2>5, FilesNotZero
    <2>8. e[d] \in {Eoc, HostEoc}
      BY <2>3, <2>6, <2>7 DEF ChainsOf
    <2> QED BY <2>3, <2>6, <2>8
  <1>5. ASSUME NEW c \in Clusters, own[c] = f PROVE \E k \in 1 .. Length : t[k] = c
    <2> DEFINE lost == {d \in Clusters : own[d] = f /\ \A k \in 1 .. Length : t[k] # d}
               T == {rank[d] : d \in lost}
    <2> SUFFICES ASSUME lost # {} PROVE FALSE
      BY <1>5
    <2>1. T \in SUBSET Nat /\ T # {}
      BY DEF ChainsOf
    <2>2. PICK x \in T : \A y \in T : x <= y
      BY <2>1, SetLoop!NatLeast
    <2>3. PICK m \in lost : x = rank[m]
      BY <2>2
    <2>4. m \in Clusters /\ own[m] = f /\ f # 0 /\ \A k \in 1 .. Length : t[k] # m
      BY <2>3, FilesNotZero
    <2>5. s[f] # m
      BY <1>1, <1>2, <2>4
    <2>6. PICK d \in Clusters : e[d] = m
      BY <2>4, <2>5 DEF ChainsOf
    <2>7. own[d] = f /\ rank[m] = rank[d] + 1 /\ rank[d] \in Nat
      BY <2>4, <2>6 DEF ChainsOf
    <2>8. d \notin lost
      <3> SUFFICES ASSUME d \in lost PROVE FALSE
        OBVIOUS
      <3>1. rank[d] \in T
        OBVIOUS
      <3> HIDE DEF T, lost
      <3>2. x <= rank[d] /\ x = rank[d] + 1
        BY <2>2, <2>3, <2>7, <3>1
      <3> QED BY <2>7, <3>2
    <2>9. PICK k \in 1 .. Length : t[k] = d
      BY <2>7, <2>8
    <2>10. k # Length
      BY <1>3, <2>9
    <2>11. k + 1 \in 1 .. Length /\ t[k + 1] = e[d]
      <3>1. k + 1 \in 1 .. Length /\ k + 1 # 1 /\ (k + 1) - 1 = k
        BY <1>1, <2>10
      <3> QED BY <1>2, <2>9, <3>1
    <2> QED BY <2>4, <2>6, <2>11
  <1> QED BY <1>0, <1>4, <1>5 DEF GoesThrough

-----------------------------------------------------------------------------
(* The inductive invariant *)

Handles ==
  [open : BOOLEAN, size : Nat, first : {0} \cup Clusters, pos : Nat, cur : Int, async : BOOLEAN]

(* What the directory says of file f, the links, the files there are, and   *)
(* where each begins: fat_unlink leads its caller along the chain while the *)
(* entry of the directory still has the cluster that was first.             *)
Dir(v, f) == Content(v, DirentSector(f))
Table == [c \in Clusters |-> Ent(vol, c)]
UsedFiles == {f \in Files : Dir(vol, f).name = "used"}
Start(f) ==
  IF pc = "unlink" /\ call.f = f THEN call.cluster
  ELSE IF handle[f].open THEN handle[f].first ELSE Dir(vol, f).first
Starts == [f \in Files |-> Start(f)]

InWrite == pc \in {"write", "written"}

Typed ==
  /\ vol \in Media /\ handle \in [Files -> Handles]
  /\ pc \in {"idle", "write", "written", "read", "readend", "unlink", "lost"}
  /\ pc = "idle" => call = NoCall
  /\ call = [f |-> call.f, v |-> call.v, size |-> call.size, i |-> call.i,
             sector |-> call.sector, start |-> call.start, out |-> call.out,
             cluster |-> call.cluster]
  /\ call.v \in Nat /\ call.size \in Int /\ call.i \in Nat /\ call.sector \in Int
  /\ call.cluster \in Nat
  /\ pc \notin {"idle", "lost"} => call.f \in Files

HandleInv(f) ==
  /\ handle[f].open => f \in UsedFiles
  /\ handle[f].first = 0 => handle[f].cur = 0 /\ handle[f].pos = 0 /\ handle[f].size = 0
  /\ Dir(vol, f).first = 0 => Dir(vol, f).size = 0

CallInv ==
  /\ InWrite => /\ handle[call.f].open /\ handle[call.f].first # 0 /\ handle[call.f].cur \in Clusters
                /\ call.f # HostFile
  /\ pc \in {"read", "readend"} => handle[call.f].first # 0
  /\ pc = "read" /\ call.sector \in DataSectors => handle[call.f].cur \in Clusters
  /\ pc = "unlink" => /\ call.f \in UsedFiles /\ call.f # HostFile
                      /\ call.cluster \in {0, Eoc} \cup Clusters

(* What fat_write has not yet told the directory, it will: the file was empty *)
(* and is not any more.                                                      *)
Untold(f) ==
  /\ InWrite /\ call.f = f /\ handle[f].size = 0
  /\ handle[f].pos > 0 \/ (pc = "write" /\ call.i < call.size)

EntryInv(f) ==
  f \in UsedFiles /\ handle[f].open /\ ~handle[f].async =>
    \/ Dir(vol, f).size = handle[f].size /\ Dir(vol, f).first = handle[f].first
    \/ Untold(f)

(* How far file f reaches: its size, or the place fat_write has come to.     *)
Size(f) == IF handle[f].open THEN handle[f].size ELSE Dir(vol, f).size
Reach(f) ==
  IF InWrite /\ call.f = f /\ handle[f].pos > handle[f].size THEN handle[f].pos ELSE Size(f)

(* Every cluster of the file begins within its reach, and one ends beyond.   *)
Covers(own, rank, f, first, reach) ==
  /\ first \in Clusters => rank[first] = 0
  /\ \A c \in Clusters : own[c] = f => rank[c] * ClusterSize <= reach
  /\ reach > 0 => \E c \in Clusters : own[c] = f /\ reach <= (rank[c] + 1) * ClusterSize

(* A handle stands in the cluster its position is in, and fat_write in the   *)
(* sector, if the first cluster begins at a multiple of the cluster size:    *)
(* the test of write.c:236 is right on such volumes only.                    *)
Aligned == FirstDataSector % SectorsPerCluster = 0

InPlace(rank, x, sector) ==
  \E j \in 0 .. SectorsPerCluster - 1, o \in 0 .. BytesPerSector - 1 :
    /\ x.pos = rank[x.cur] * ClusterSize + j * BytesPerSector + o
    /\ sector = FirstSector(x.cur) + j

Unlinking(f) == pc = "unlink" /\ call.f = f

Measured(own, rank) ==
  /\ \A f \in UsedFiles : ~Unlinking(f) => Covers(own, rank, f, Starts[f], Reach(f))
  /\ pc = "write" => InPlace(rank, handle[call.f], call.sector)

Owns(own, rank) ==
  /\ ChainsOf(Table, Starts, UsedFiles, own, rank)
  /\ InWrite => own[handle[call.f].cur] = call.f

Linked == \E own, rank : Owns(own, rank) /\ (Aligned => Measured(own, rank))

(* A step that the measure of the files outlasts.                            *)
MeasureKept ==
  \A own, rank : Aligned /\ Owns(own, rank) /\ Measured(own, rank) => Measured(own, rank)'

Inv ==
  /\ Mirrored
  /\ Typed
  /\ Agree(vol)
  /\ \A f \in Files : HandleInv(f) /\ EntryInv(f)
  /\ CallInv
  /\ Linked

-----------------------------------------------------------------------------
(* What the definitions of FatVolume see *)

LEMMA SeenDirent ==
  ASSUME vol \in Media, NEW f \in Files
  PROVE  Dirent(f) = Dir(vol, f) /\ Dirent(f) \in Dirents
PROOF
  <1>1. PICK n \in Sectors : n = DirentSector(f) /\ n \notin LastCopy /\ Fits(n) = Dirents
    BY DirentPlace
  <1>2. Fresh(vol) \/ vol.sector # n
    BY <1>1, Trusted
  <1>3. Sees(n) = Content(vol, n)
    BY <1>2 DEF Sees, Content, Fresh
  <1>4. Content(vol, n) \in Fits(n)
    BY MediaParts
  <1> QED BY <1>1, <1>3, <1>4 DEF Dirent, Dir

LEMMA SeenEntry ==
  ASSUME vol \in Media, Mirrored, NEW c \in FatIndex
  PROVE  Entry(c) = Ent(vol, c)
PROOF
  <1> DEFINE o == Offset(c)
             n == TableSector(0, o)
  <1>1. o \in Cells /\ (Fat12 => o + 1 \in Cells) /\ 0 \in Copies
    BY CellOffsets, FirstCopy
  <1>2. FatSector(0, c) = n
    BY DEF FatSector, TableSector
  <1>3. \A q \in Cells : Sees(TableSector(0, q)) = Content(vol, TableSector(0, q))
    <2> TAKE q \in Cells
    <2>1. PICK m \in Sectors : m = TableSector(0, q) /\ m \notin LastCopy
      BY FirstCopy, Places, FirstNotLast
    <2>2. Fresh(vol) \/ vol.sector # m
      BY <2>1, Trusted
    <2> QED BY <2>1, <2>2 DEF Sees, Content, Fresh
  <1>4. Sees(n)[o] = Cell(vol, 0, o)
    BY <1>1, <1>3 DEF Cell
  <1>5. CASE ~Fat12
    <2>1. Entry(c) = Sees(n)[c] /\ o = c
      BY <1>2, <1>5 DEF Entry, Offset
    <2> QED BY <1>4, <1>5, <2>1 DEF Ent
  <1>6. CASE Fat12
    <2>1. TableSector(0, o + 1) = IF OverBoundary(c) THEN n + 1 ELSE n
      BY <1>1, <1>6, NextPlace
    <2>2. Sees(TableSector(0, o + 1))[o + 1] = Cell(vol, 0, o + 1)
      BY <1>1, <1>3, <1>6 DEF Cell
    <2>3. Entry(c) = Decoded(c, Sees(n)[o], Sees(TableSector(0, o + 1))[o + 1])
      BY <1>2, <1>6, <2>1 DEF Entry
    <2> QED BY <1>4, <1>6, <2>2, <2>3 DEF Ent
  <1> QED BY <1>5, <1>6

LEMMA SeenChain ==
  ASSUME vol \in Media, Mirrored, NEW f \in Files
  PROVE  Follows(Chain(f), FirstOf(f), Table)
PROOF
  <1>1. \A c \in Clusters : Entry(c) = Ent(vol, c)
    BY SeenEntry, Marks
  <1>2. PICK next : next = [c \in Clusters |-> Entry(c)]
    OBVIOUS
  <1>3. next = Table
    BY <1>1, <1>2 DEF Table
  <1>4. PICK a : a = FirstOf(f)
    OBVIOUS
  <1>5. Chain(f) = CHOOSE t : Follows(t, a, next)
    BY <1>2, <1>4 DEF Chain, Follows, Length
  <1>6. \E t : Follows(t, a, next)
    BY SomeFollow
  <1>7. Follows(Chain(f), a, next)
    BY <1>5, <1>6
  <1> QED BY <1>3, <1>4, <1>7

-----------------------------------------------------------------------------
(* What follows from the invariant *)

LEMMA FitsLayout ==
  ASSUME NEW n \in Sectors, NEW x \in Fits(n)
  PROVE  DOMAIN x = Layout[n]
PROOF
  <1>1. Layout[n] = DOMAIN InitSector(n)
    BY DEF Layout
  <1>2. /\ n \in Nat /\ ReservedSectors \in Nat /\ FirstRootSector \in Nat /\ FirstDataSector \in Nat
        /\ ReservedSectors <= FirstRootSector /\ FirstRootSector <= FirstDataSector
    BY Constants, Regions DEF Sectors
  <1>3. CASE n < ReservedSectors
    <2>1. x = <<>>
      BY <1>3 DEF Fits
    <2>2. InitSector(n) = <<>>
      BY <1>2, <1>3 DEF InitSector
    <2> QED BY <1>1, <2>1, <2>2
  <1>4. CASE n >= ReservedSectors /\ n < FirstRootSector
    <2>1. x \in [CellsOf(n) -> CellValues]
      BY <1>2, <1>4 DEF Fits
    <2>2. InitSector(n) = [o \in CellsOf(n) |-> InitCell(o)]
      BY <1>2, <1>4 DEF InitSector, CellsOf, Part
    <2> QED BY <1>1, <2>1, <2>2
  <1>5. CASE n >= FirstRootSector /\ n < FirstDataSector
    <2>1. x \in Dirents
      BY <1>2, <1>5 DEF Fits
    <2>2. InitSector(n) = IF n = DirentSector(HostFile)
                          THEN [name |-> "used", size |-> HostSize, first |-> HostCluster]
                          ELSE [name |-> "none", size |-> 0, first |-> 0]
      BY <1>2, <1>5 DEF InitSector
    <2>3. DOMAIN x = {"name", "size", "first"}
      BY <2>1 DEF Dirents
    <2>4. DOMAIN InitSector(n) = {"name", "size", "first"}
      BY <2>2
    <2> QED BY <1>1, <2>3, <2>4
  <1>6. CASE n >= FirstDataSector
    <2>1. x \in [0 .. BytesPerSector - 1 -> Int]
      BY <1>2, <1>6 DEF Fits
    <2>2. DOMAIN InitSector(n) = 0 .. BytesPerSector - 1
      BY <1>2, <1>6 DEF InitSector
    <2> QED BY <1>1, <2>1, <2>2
  <1> QED BY <1>2, <1>3, <1>4, <1>5, <1>6

LEMMA InvTypeOK == Inv => TypeOK
PROOF
  <1> SUFFICES ASSUME Inv PROVE TypeOK
    OBVIOUS
  <1>1. /\ vol \in Media /\ handle \in [Files -> Handles]
        /\ pc \in {"idle", "write", "written", "read", "readend", "unlink", "lost"}
        /\ pc = "idle" => call = NoCall
    BY DEF Inv, Typed
  <1>2. /\ DOMAIN vol.disk = Sectors /\ vol.sector \in Sectors /\ vol.dirty \in BOOLEAN
        /\ vol.last \in Clusters /\ vol.buf \in Fits(vol.sector)
        /\ \A n \in Sectors : vol.disk[n] \in Fits(n)
    BY <1>1, MediaParts
  <1>3. DOMAIN vol.buf = Layout[vol.sector] /\ \A n \in Sectors : DOMAIN vol.disk[n] = Layout[n]
    BY <1>2, FitsLayout
  <1>4. \A f \in Files : /\ handle[f].size \in Nat /\ handle[f].pos \in Nat
                         /\ handle[f].open \in BOOLEAN /\ handle[f].async \in BOOLEAN
                         /\ handle[f].first \in {0} \cup Clusters
    BY <1>1 DEF Handles
  <1> QED BY <1>1, <1>2, <1>3, <1>4 DEF TypeOK

LEMMA InvCopiesAgree == Inv => CopiesAgree
PROOF
  <1> SUFFICES ASSUME Inv, NEW copy \in 1 .. NumFats - 1, NEW n \in TableSectors
               PROVE  Kept(n + copy * FatSize) = Kept(n)
    BY DEF CopiesAgree
  <1>1. vol \in Media /\ Agree(vol)
    BY DEF Inv, Typed
  <1>2. /\ {ReservedSectors, FatSize, CellsPerSector} \subseteq Nat \ {0}
        /\ copy \in Copies /\ copy * FatSize \in Nat /\ 0 \in Copies
    BY Constants DEF Copies
  <1>3. PICK q \in 0 .. FatSize - 1 : n = ReservedSectors + q
    <2>1. n - ReservedSectors \in 0 .. FatSize - 1 /\ n = ReservedSectors + (n - ReservedSectors)
      BY <1>2 DEF TableSectors
    <2> QED BY <2>1
  <1> DEFINE own == q * CellsPerSector .. (q + 1) * CellsPerSector - 1
  <1>4. \A o \in own : o \in Cells /\ o \div CellsPerSector = q
    <2> TAKE o \in own
    <2>1. PICK r \in 0 .. CellsPerSector - 1 : o = q * CellsPerSector + r
      <3>1. q * CellsPerSector \in Nat /\ (q + 1) * CellsPerSector = q * CellsPerSector + CellsPerSector
        BY <1>2
      <3>2. o - q * CellsPerSector \in 0 .. CellsPerSector - 1
            /\ o = q * CellsPerSector + (o - q * CellsPerSector)
        BY <1>2, <3>1
      <3> QED BY <3>2
    <2>2. o \div CellsPerSector = q
      BY <1>2, <2>1
    <2>3. PICK d \in Nat : FatSize = q + 1 + d
      <3>1. FatSize - (q + 1) \in Nat /\ FatSize = q + 1 + (FatSize - (q + 1))
        BY <1>2
      <3> QED BY <3>1
    <2>4. FatSize * CellsPerSector = q * CellsPerSector + CellsPerSector + d * CellsPerSector
          /\ d * CellsPerSector \in Nat /\ q * CellsPerSector \in Nat
      BY <1>2, <2>3
    <2> QED BY <1>2, <2>1, <2>2, <2>4 DEF Cells
  <1>5. own # {}
    <2>1. q * CellsPerSector \in own
      BY <1>2
    <2> QED BY <2>1
  <1> HIDE DEF own
  <1>6. \A o \in own : /\ TableSector(copy, o) = n + copy * FatSize /\ TableSector(0, o) = n
                       /\ CellsOf(n) = own /\ CellsOf(n + copy * FatSize) = own
    <2> TAKE o \in own
    <2>1. o \in Cells /\ o \div CellsPerSector = q
      BY <1>4
    <2>2. TableSector(copy, o) = n + copy * FatSize /\ TableSector(0, o) = n
      BY <1>2, <1>3, <2>1 DEF TableSector
    <2>3. Part(n) = q /\ Part(n + copy * FatSize) = q
      BY <1>2, <2>1, <2>2, Places
    <2> QED BY <2>2, <2>3 DEF CellsOf, own
  <1>7. PICK o \in own : TRUE
    BY <1>5
  <1>8. /\ Kept(n) \in [own -> CellValues] /\ Kept(n + copy * FatSize) \in [own -> CellValues]
        /\ Kept(n) = Content(vol, n) /\ Kept(n + copy * FatSize) = Content(vol, n + copy * FatSize)
    <2>1. /\ TableSector(copy, o) \in Sectors /\ TableSector(0, o) \in Sectors
          /\ Fits(TableSector(copy, o)) = [own -> CellValues]
          /\ Fits(TableSector(0, o)) = [own -> CellValues]
      BY <1>2, <1>4, <1>6, <1>7, Places
    <2>2. /\ n \in Sectors /\ n + copy * FatSize \in Sectors
          /\ Fits(n) = [own -> CellValues] /\ Fits(n + copy * FatSize) = [own -> CellValues]
      BY <1>6, <1>7, <2>1
    <2>3. PICK m \in Sectors : m = n + copy * FatSize
      BY <2>2
    <2>4. Content(vol, n) \in Fits(n) /\ Content(vol, m) \in Fits(m)
      BY <1>1, <2>2, MediaParts
    <2>5. Kept(n) = Content(vol, n) /\ Kept(m) = Content(vol, m)
      BY DEF Kept, Content
    <2> QED BY <2>2, <2>3, <2>4, <2>5
  <1>9. \A p \in own : Kept(n + copy * FatSize)[p] = Kept(n)[p]
    <2> TAKE p \in own
    <2>1. Cell(vol, copy, p) = Cell(vol, 0, p)
      BY <1>1, <1>2, <1>4 DEF Agree
    <2> QED BY <1>6, <1>8, <2>1 DEF Cell
  <1> QED BY <1>8, <1>9

LEMMA InvTableNotStale == Inv => TableNotStale
PROOF
  <1> SUFFICES ASSUME Inv, vol.sector \in TableSectors, ~vol.dirty
               PROVE  vol.buf = vol.disk[vol.sector]
    BY DEF TableNotStale
  <1>1. vol \in Media /\ Mirrored
    BY DEF Inv, Typed
  <1>2. PICK n : n = vol.sector
    OBVIOUS
  <1>3. n \notin LastCopy
    <2>1. /\ NumFats \in Nat /\ FatSize \in Nat \ {0} /\ ReservedSectors \in Nat
          /\ NumFats - 2 \in Nat
      BY <1>1, Constants DEF Mirrored
    <2>2. (NumFats - 1) * FatSize = FatSize + (NumFats - 2) * FatSize
          /\ (NumFats - 2) * FatSize \in Nat
      BY <2>1
    <2>3. n < ReservedSectors + FatSize /\ n \in Nat
      BY <1>2, <2>1 DEF TableSectors
    <2> QED BY <2>1, <2>2, <2>3 DEF LastCopy
  <1>4. Fresh(vol)
    BY <1>1, <1>2, <1>3, MediaParts
  <1> QED BY <1>4 DEF Fresh

LEMMA InvEntryUpToDate == Inv => EntryUpToDate
PROOF
  <1> SUFFICES ASSUME Inv, Idle, NEW f \in Used, handle[f].open, ~handle[f].async
               PROVE  Synced(f)
    BY DEF EntryUpToDate
  <1>1. vol \in Media /\ f \in Files
    BY DEF Inv, Typed, Used
  <1>2. Dirent(f) = Dir(vol, f)
    BY <1>1, SeenDirent
  <1>3. f \in UsedFiles
    BY <1>1, <1>2 DEF Used, UsedFiles
  <1>4. EntryInv(f) /\ ~Untold(f)
    BY <1>1 DEF Inv, Untold, InWrite, Idle
  <1> QED BY <1>2, <1>3, <1>4 DEF EntryInv, Synced

(* What file f owns is what its chain goes through.                          *)
LEMMA InvFatSound == Inv => FatSound
PROOF
  <1> SUFFICES ASSUME Inv, Idle
               PROVE  /\ \A f, g \in Used : f # g => Owned(f) \cap Owned(g) = {}
                      /\ \A f \in Used : ChainEnds(f)
                      /\ {c \in Clusters : Entry(c) # 0} = UNION {Owned(f) : f \in Used}
    BY DEF FatSound
  <1>1. vol \in Media /\ Mirrored /\ handle \in [Files -> Handles] /\ pc = "idle"
    BY DEF Inv, Typed, Idle
  <1>2. Used = UsedFiles /\ UsedFiles \in SUBSET Files
    BY <1>1, SeenDirent DEF Used, UsedFiles
  <1>3. PICK own, rank : ChainsOf(Table, Starts, UsedFiles, own, rank)
    BY DEF Inv, Linked, Owns
  <1>4. ASSUME NEW f \in UsedFiles
        PROVE  /\ FirstOf(f) = Starts[f] /\ FirstOf(f) \in {0} \cup Clusters
               /\ Follows(Chain(f), Starts[f], Table)
    <2>1. f \in Files
      BY <1>2
    <2>2. Dirent(f) = Dir(vol, f) /\ Dirent(f) \in Dirents
      BY <1>1, <2>1, SeenDirent
    <2>3. Starts[f] = IF handle[f].open THEN handle[f].first ELSE Dir(vol, f).first
      BY <1>1, <2>1 DEF Starts, Start
    <2>4. FirstOf(f) = Starts[f]
      BY <2>2, <2>3 DEF FirstOf
    <2>5. FirstOf(f) \in {0} \cup Clusters
      BY <1>1, <2>1, <2>2 DEF FirstOf, Handles, Dirents
    <2> QED BY <1>1, <2>1, <2>4, <2>5, SeenChain
  <1>5. ASSUME NEW f \in UsedFiles
        PROVE  /\ \A c \in Clusters : own[c] = f <=> \E k \in 1 .. Length : Chain(f)[k] = c
               /\ Starts[f] \in Clusters => \E k \in 1 .. Length : Chain(f)[k] \in {Eoc, HostEoc}
               /\ DOMAIN Chain(f) = 1 .. Length
    <2>1. PICK t : t = Chain(f) /\ Follows(t, Starts[f], Table)
      BY <1>4
    <2>2. /\ \A c \in Clusters : own[c] = f <=> \E k \in 1 .. Length : t[k] = c
          /\ Starts[f] \in Clusters => \E k \in 1 .. Length : t[k] \in {Eoc, HostEoc}
      <3>1. GoesThrough(t, own, f, Starts[f])
        BY <1>2, <1>3, <2>1, ChainFollows
      <3> QED BY <3>1 DEF GoesThrough
    <2>3. DOMAIN t = 1 .. Length
      BY <2>1 DEF Follows
    <2> QED BY <2>1, <2>2, <2>3
  <1>6. ASSUME NEW f \in UsedFiles PROVE Owned(f) = {c \in Clusters : own[c] = f}
    <2>1. Range(Chain(f)) = {Chain(f)[k] : k \in 1 .. Length}
      BY <1>5 DEF Range
    <2> QED BY <1>5, <2>1 DEF Owned
  <1>7. ASSUME NEW f \in UsedFiles PROVE ChainEnds(f)
    <2> SUFFICES ASSUME FirstOf(f) # 0 PROVE Range(Chain(f)) \cap {Eoc, HostEoc} # {}
      BY DEF ChainEnds
    <2>1. PICK k \in 1 .. Length : Chain(f)[k] \in {Eoc, HostEoc}
      BY <1>4, <1>5
    <2>2. Chain(f)[k] \in Range(Chain(f))
      BY <1>5 DEF Range
    <2> QED BY <2>1, <2>2
  <1>8. \A c \in Clusters : Entry(c) # 0 <=> own[c] \in UsedFiles
    <2> TAKE c \in Clusters
    <2>1. Entry(c) = Table[c]
      BY <1>1, SeenEntry, Marks DEF Table
    <2> QED BY <1>2, <1>3, <2>1, FilesNotZero DEF ChainsOf
  <1>9. {c \in Clusters : Entry(c) # 0} = UNION {Owned(f) : f \in UsedFiles}
    BY <1>6, <1>8
  <1>10. ASSUME NEW f \in UsedFiles, NEW g \in UsedFiles, f # g PROVE Owned(f) \cap Owned(g) = {}
    BY <1>6, <1>10
  <1> QED BY <1>2, <1>7, <1>9, <1>10

-----------------------------------------------------------------------------
(* The image that mkfs and the host left *)

LEMMA InitEntryTyped ==
  ASSUME NEW c
  PROVE  /\ InitEntry(c) \in EntryValues /\ InitEntry(c) \in {0, HostEoc}
         /\ Fat12 => InitEntry(c) \in {0, 4095}
PROOF
  <1>1. InitEntry(c) \in {0, HostEoc}
    BY DEF InitEntry
  <1> QED BY <1>1, Marks DEF HostEoc

LEMMA InitCellTyped ==
  ASSUME NEW o \in Nat
  PROVE  InitCell(o) \in CellValues
PROOF
  <1> DEFINE c == 2 * (o \div 3)
  <1>1. CASE ~Fat12
    BY <1>1, InitEntryTyped DEF InitCell, CellValues, EntryValues
  <1>2. CASE Fat12
    <2>1. PICK x \in {0, 4095} : x = InitEntry(c)
      BY <1>2, InitEntryTyped
    <2>2. PICK y \in {0, 4095} : y = InitEntry(c + 1)
      BY <1>2, InitEntryTyped
    <2>3. o % 3 = 0 \/ o % 3 = 1 \/ o % 3 = 2
      OBVIOUS
    <2>4. InitCell(o) = CASE o % 3 = 0 -> x % 256
                          [] o % 3 = 1 -> x \div 256 + 16 * (y % 16)
                          [] o % 3 = 2 -> y \div 16
      BY <1>2, <2>1, <2>2 DEF InitCell
    <2>5. /\ x % 256 \in Byte /\ x \div 256 + 16 * (y % 16) \in Byte /\ y \div 16 \in Byte
      BY DEF Byte
    <2> QED BY <1>2, <2>3, <2>4, <2>5 DEF CellValues
  <1> QED BY <1>1, <1>2

LEMMA InitFits ==
  ASSUME NEW n \in Sectors
  PROVE  InitSector(n) \in Fits(n)
PROOF
  <1>1. /\ n \in Nat /\ ReservedSectors \in Nat /\ FirstRootSector \in Nat /\ FirstDataSector \in Nat
        /\ ReservedSectors <= FirstRootSector /\ FirstRootSector <= FirstDataSector
    BY Constants, Regions DEF Sectors
  <1>2. CASE n < ReservedSectors
    <2>1. InitSector(n) = <<>>
      BY <1>1, <1>2 DEF InitSector
    <2> QED BY <1>2, <2>1 DEF Fits
  <1>3. CASE n >= ReservedSectors /\ n < FirstRootSector
    <2>1. Fits(n) = [CellsOf(n) -> CellValues]
      BY <1>1, <1>3 DEF Fits
    <2>2. InitSector(n) = [o \in CellsOf(n) |-> InitCell(o)]
      BY <1>1, <1>3 DEF InitSector, CellsOf, Part
    <2>3. CellsOf(n) \subseteq Nat
      <3>1. Part(n) \in Nat /\ CellsPerSector \in Nat
        BY <1>1, <1>3, Constants DEF Part
      <3>2. Part(n) * CellsPerSector \in Nat
        BY <3>1
      <3> QED BY <3>1, <3>2 DEF CellsOf
    <2> QED BY <2>1, <2>2, <2>3, InitCellTyped
  <1>4. CASE n >= FirstRootSector /\ n < FirstDataSector
    <2>1. Fits(n) = Dirents
      BY <1>1, <1>4 DEF Fits
    <2>2. InitSector(n) = IF n = DirentSector(HostFile)
                          THEN [name |-> "used", size |-> HostSize, first |-> HostCluster]
                          ELSE [name |-> "none", size |-> 0, first |-> 0]
      BY <1>1, <1>4 DEF InitSector
    <2>3. HostSize \in Nat /\ HostCluster \in Clusters
      <3>1. ClusterSize \in Nat
        BY Regions DEF ClusterSize
      <3> QED BY <3>1, FatVolumeAssumption
    <2> QED BY <2>1, <2>2, <2>3 DEF Dirents
  <1>5. CASE n >= FirstDataSector
    <2>1. Fits(n) = [0 .. BytesPerSector - 1 -> Int]
      BY <1>1, <1>5 DEF Fits
    <2> DEFINE at(k) == (n - FirstSector(HostCluster)) * BytesPerSector + k + 1
    <2>2. InitSector(n) = [k \in 0 .. BytesPerSector - 1 |->
                             IF HostFile # 0 /\ at(k) \in 1 .. HostSize THEN HostText[at(k)] ELSE 0]
      BY <1>1, <1>5 DEF InitSector
    <2>3. \A i \in 1 .. HostSize : HostText[i] \in Int
      BY DEF HostText
    <2> HIDE DEF at
    <2> QED BY <2>1, <2>2, <2>3
  <1> QED BY <1>1, <1>2, <1>3, <1>4, <1>5

(* Its table says what InitEntry says, in every copy.                        *)
LEMMA InitTable ==
  ASSUME NEW v, \A n \in Sectors : Content(v, n) = InitSector(n)
  PROVE  /\ \A copy \in Copies, o \in Cells : Cell(v, copy, o) = InitCell(o)
         /\ \A c \in FatIndex : Ent(v, c) = InitEntry(c)
PROOF
  <1>1. ASSUME NEW copy \in Copies, NEW o \in Cells PROVE Cell(v, copy, o) = InitCell(o)
    <2>1. PICK n \in Sectors : n = TableSector(copy, o) /\ n \in AllTables /\ o \in CellsOf(n)
      BY Places
    <2>2. /\ n \in Nat /\ n >= ReservedSectors /\ n < FirstRootSector
          /\ ReservedSectors \in Nat /\ FirstRootSector \in Nat
      BY <2>1, Constants, Regions DEF AllTables
    <2>3. InitSector(n) = [q \in CellsOf(n) |-> InitCell(q)]
      BY <2>2 DEF InitSector, CellsOf, Part
    <2> QED BY <2>1, <2>3 DEF Cell
  <1>2. ASSUME NEW c \in FatIndex PROVE Ent(v, c) = InitEntry(c)
    <2>1. c \in Nat /\ Offset(c) \in Cells /\ (Fat12 => Offset(c) + 1 \in Cells)
      BY CellOffsets
    <2>2. /\ Cell(v, 0, Offset(c)) = InitCell(Offset(c))
          /\ Fat12 => Cell(v, 0, Offset(c) + 1) = InitCell(Offset(c) + 1)
      BY <1>1, <2>1, FirstCopy
    <2>3. CASE ~Fat12
      BY <2>2, <2>3 DEF Ent, Offset, InitCell
    <2>4. CASE Fat12
      <3>1. Ent(v, c) = Decoded(c, InitCell(Offset(c)), InitCell(Offset(c) + 1))
        BY <2>2, <2>4 DEF Ent
      <3>2. Offset(c) = c + c \div 2
        BY <2>4 DEF Offset
      <3>3. CASE c % 2 = 1
        <4>1. PICK k \in Nat : c = 2 * k + 1
          BY <2>1, <3>3
        <4>2. Offset(c) = 3 * k + 1 /\ (3 * k + 1) % 3 = 1 /\ (3 * k + 1) \div 3 = k
              /\ (3 * k + 2) % 3 = 2 /\ (3 * k + 2) \div 3 = k
          BY <2>1, <3>2, <4>1
        <4>3. PICK x \in {0, 4095} : x = InitEntry(2 * k)
          BY <2>4, InitEntryTyped
        <4>4. PICK y \in {0, 4095} : y = InitEntry(c)
          BY <2>4, InitEntryTyped
        <4>5. InitCell(3 * k + 1) = x \div 256 + 16 * (y % 16)
          BY <2>4, <4>1, <4>2, <4>3, <4>4 DEF InitCell
        <4>6. InitCell(3 * k + 2) = y \div 16
          BY <2>4, <4>1, <4>2, <4>4 DEF InitCell
        <4>7. Offset(c) + 1 = 3 * k + 2
          BY <4>2
        <4>8. Ent(v, c) = ((x \div 256 + 16 * (y % 16)) + 256 * (y \div 16)) \div 16
          <5>1. PICK low, high : low = InitCell(3 * k + 1) /\ high = InitCell(3 * k + 2)
            OBVIOUS
          <5>2. Ent(v, c) = Decoded(c, low, high)
            BY <3>1, <4>2, <4>7, <5>1
          <5>3. Decoded(c, low, high) = (low + 256 * high) \div 16
            BY <3>3 DEF Decoded
          <5> QED BY <4>5, <4>6, <5>1, <5>2, <5>3
        <4>9. ((x \div 256 + 16 * (y % 16)) + 256 * (y \div 16)) \div 16 = y
          <5>1. x = 0 \/ x = 4095
            OBVIOUS
          <5>2. y = 0 \/ y = 4095
            OBVIOUS
          <5>3. x \div 256 = 0 \/ x \div 256 = 15
            BY <5>1
          <5>4. (y % 16 = 0 /\ y \div 16 = 0) \/ (y % 16 = 15 /\ y \div 16 = 255)
            BY <5>2
          <5> QED BY <5>2, <5>3, <5>4
        <4> QED BY <4>4, <4>8, <4>9
      <3>4. CASE c % 2 # 1
        <4>1. PICK k \in Nat : c = 2 * k
          BY <2>1, <3>4
        <4>2. Offset(c) = 3 * k /\ (3 * k) % 3 = 0 /\ (3 * k) \div 3 = k
              /\ (3 * k + 1) % 3 = 1 /\ (3 * k + 1) \div 3 = k
          BY <2>1, <3>2, <4>1
        <4>3. PICK x \in {0, 4095} : x = InitEntry(c)
          BY <2>4, InitEntryTyped
        <4>4. PICK y \in {0, 4095} : y = InitEntry(c + 1)
          BY <2>4, InitEntryTyped
        <4>5. InitCell(3 * k) = x % 256
          BY <2>4, <4>1, <4>2, <4>3 DEF InitCell
        <4>6. InitCell(3 * k + 1) = x \div 256 + 16 * (y % 16)
          BY <2>4, <4>1, <4>2, <4>3, <4>4 DEF InitCell
        <4>7. Ent(v, c) = ((x % 256) + 256 * (x \div 256 + 16 * (y % 16))) % 4096
          BY <3>1, <3>4, <4>2, <4>5, <4>6 DEF Decoded
        <4>8. ((x % 256) + 256 * (x \div 256 + 16 * (y % 16))) % 4096 = x
          <5>1. (x = 0 /\ x % 256 = 0 /\ x \div 256 = 0)
                \/ (x = 4095 /\ x % 256 = 255 /\ x \div 256 = 15)
            OBVIOUS
          <5>2. y % 16 = 0 \/ y % 16 = 15
            OBVIOUS
          <5> QED BY <5>1, <5>2
        <4> QED BY <4>3, <4>7, <4>8
      <3> QED BY <3>3, <3>4
    <2> QED BY <2>3, <2>4, Constants
  <1> QED BY <1>1, <1>2

LEMMA InitInv == Init /\ Mirrored => Inv
PROOF
  <1> SUFFICES ASSUME Init, Mirrored PROVE Inv
    OBVIOUS
  <1> DEFINE image == [n \in 0 .. TotalSectors - 1 |-> InitSector(n)]
  <1>1. /\ vol = [disk |-> image, sector |-> 0, buf |-> image[0], dirty |-> FALSE, last |-> 2]
        /\ handle = [f \in Files |-> NoHandle] /\ pc = "idle" /\ call = NoCall
    BY DEF Init
  <1>2. 0 \in Sectors /\ 2 \in Clusters
    BY Constants, Regions DEF Sectors, Clusters
  <1>3. \A n \in Sectors : image[n] = InitSector(n) /\ image[n] \in Fits(n) /\ image[n] \in AnySector
    BY InitFits, FitsAny DEF Sectors
  <1>4. image \in [Sectors -> AnySector]
    BY <1>3 DEF Sectors
  <1> HIDE DEF image
  <1>5. vol \in Media
    BY <1>1, <1>2, <1>3, <1>4 DEF Media, Fresh
  <1>6. \A n \in Sectors : Content(vol, n) = InitSector(n)
    BY <1>1, <1>3 DEF Content
  <1>7. Typed
    <2>1. \A f \in Files : handle[f] \in Handles
      BY <1>1 DEF NoHandle, Handles
    <2>2. handle \in [Files -> Handles]
      BY <1>1, <2>1
    <2> QED BY <1>1, <1>5, <2>2 DEF Typed, NoCall
  <1>8. Agree(vol)
    BY <1>6, InitTable, FirstCopy DEF Agree
  <1>9. ASSUME NEW f \in Files
        PROVE  /\ Dir(vol, f) = IF f = HostFile
                                THEN [name |-> "used", size |-> HostSize, first |-> HostCluster]
                                ELSE [name |-> "none", size |-> 0, first |-> 0]
               /\ ~handle[f].open /\ handle[f].first = 0 /\ handle[f].cur = 0
               /\ handle[f].pos = 0 /\ handle[f].size = 0
    <2>1. PICK n \in Sectors : n = DirentSector(f)
      BY DirentPlace
    <2>2. /\ FirstRootSector \in Nat /\ FirstDataSector = FirstRootSector + NrFiles
          /\ NrFiles \in Nat /\ f \in Nat /\ f >= 1 /\ f <= NrFiles
          /\ ReservedSectors \in Nat /\ ReservedSectors <= FirstRootSector
          /\ HostFile \in Nat
      BY Regions, Constants, FatVolumeAssumption DEF Files
    <2>3. n >= FirstRootSector /\ n < FirstDataSector /\ n \in Nat
      BY <2>1, <2>2 DEF DirentSector
    <2>4. InitSector(n) = IF n = DirentSector(HostFile)
                          THEN [name |-> "used", size |-> HostSize, first |-> HostCluster]
                          ELSE [name |-> "none", size |-> 0, first |-> 0]
      BY <2>2, <2>3 DEF InitSector
    <2>5. n = DirentSector(HostFile) <=> f = HostFile
      BY <2>1, <2>2 DEF DirentSector
    <2>6. Dir(vol, f) = InitSector(n)
      BY <1>6, <2>1 DEF Dir
    <2> QED BY <1>1, <2>4, <2>5, <2>6 DEF NoHandle
  <1>10. HostCluster \in Clusters /\ HostCluster # 0
    BY FatVolumeAssumption, Marks
  <1>11. \A f \in Files : HandleInv(f) /\ EntryInv(f)
    BY <1>9, <1>10 DEF HandleInv, EntryInv
  <1>12. CallInv
    BY <1>1 DEF CallInv, InWrite
  <1>13. Linked
    <2> DEFINE own == [c \in Clusters |-> IF c = HostCluster THEN HostFile ELSE 0]
               rank == [c \in Clusters |-> 0]
    <2>1. UsedFiles \subseteq {HostFile} /\ (HostFile # 0 => HostFile \in UsedFiles)
      BY <1>9, FatVolumeAssumption DEF UsedFiles, Files
    <2>2. \A c \in Clusters : Table[c] = IF HostFile # 0 /\ c = HostCluster THEN HostEoc ELSE 0
      <3>1. \A c \in Clusters : Ent(vol, c) = InitEntry(c)
        BY <1>6, InitTable, Marks
      <3> QED BY <3>1, Marks DEF Table, InitEntry
    <2>3. \A f \in UsedFiles : f = HostFile /\ Starts[f] = HostCluster
      <3> TAKE f \in UsedFiles
      <3>1. f = HostFile /\ f \in Files /\ Dir(vol, f).first = HostCluster /\ ~handle[f].open
        BY <1>9, <2>1 DEF UsedFiles
      <3> QED BY <1>1, <3>1 DEF Starts, Start
    <2>4. ASSUME NEW c \in Clusters
          PROVE  /\ own[c] \in {0} \cup UsedFiles /\ rank[c] \in Nat
                 /\ own[c] = 0 <=> Table[c] = 0
                 /\ Table[c] \in {0, Eoc, HostEoc} \cup Clusters
                 /\ Table[c] \in Clusters => own[Table[c]] = own[c] /\ rank[Table[c]] = rank[c] + 1
                 /\ Table[c] = HostEoc => own[c] = HostFile
                 /\ own[c] # 0 /\ Starts[own[c]] # c => \E d \in Clusters : Table[d] = c
      BY <2>1, <2>2, <2>3, Marks
    <2>5. \A f \in UsedFiles : Starts[f] \in Clusters => own[Starts[f]] = f
      BY <1>10, <2>3
    <2>7. ASSUME NEW f \in UsedFiles PROVE Covers(own, rank, f, Starts[f], Reach(f))
      <3>1. f = HostFile /\ Reach(f) = HostSize
        <4>1. f = HostFile /\ f \in Files
          BY <2>1 DEF UsedFiles
        <4>2. Dir(vol, f).size = HostSize /\ ~handle[f].open
          <5>1. Dir(vol, f) = [name |-> "used", size |-> HostSize, first |-> HostCluster]
            BY <1>9, <4>1
          <5> QED BY <1>9, <4>1, <5>1
        <4>3. ~InWrite
          BY <1>1 DEF InWrite
        <4> QED BY <4>1, <4>2, <4>3 DEF Reach, Size
      <3>2. ClusterSize \in Nat /\ HostSize \in Nat /\ HostSize <= ClusterSize
        BY Regions, FatVolumeAssumption DEF ClusterSize
      <3>3. \A c \in Clusters : rank[c] = 0
        OBVIOUS
      <3>4. 0 * ClusterSize = 0 /\ (0 + 1) * ClusterSize = ClusterSize
        BY <3>2
      <3>5. HostCluster \in Clusters /\ own[HostCluster] = f
        BY <1>10, <3>1
      <3> HIDE DEF own, rank
      <3> QED BY <3>1, <3>2, <3>3, <3>4, <3>5 DEF Covers
    <2> HIDE DEF own, rank
    <2>6. ChainsOf(Table, Starts, UsedFiles, own, rank)
      BY <2>4, <2>5 DEF ChainsOf
    <2>8. Owns(own, rank) /\ Measured(own, rank)
      BY <1>1, <2>6, <2>7 DEF Owns, Measured, InWrite
    <2> QED BY <2>8 DEF Linked
  <1> QED BY <1>7, <1>8, <1>11, <1>12, <1>13 DEF Inv

-----------------------------------------------------------------------------
(* Steps that leave the table alone *)

(* From v to w the table and the directory stand as they were.               *)
Stands(v, w) ==
  /\ w \in Media /\ (Agree(v) => Agree(w))
  /\ \A c \in FatIndex : Ent(w, c) = Ent(v, c)
  /\ \A f \in Files : Dir(w, f) = Dir(v, f)

(* The directory entry of f is d now, and nothing else has changed.          *)
EntryPut(v, w, f, d) ==
  /\ w \in Media /\ (Agree(v) => Agree(w))
  /\ \A c \in FatIndex : Ent(w, c) = Ent(v, c)
  /\ \A g \in Files : Dir(w, g) = IF g = f THEN d ELSE Dir(v, g)

LEMMA DataStands ==
  ASSUME NEW v, NEW w \in Media,
         \A n \in Sectors \ DataSectors : Content(w, n) = Content(v, n)
  PROVE  Stands(v, w)
PROOF
  <1>1. \A n \in AllTables : n \in Sectors => Content(w, n) = Content(v, n)
    BY DataPlace
  <1>2. \A f \in Files : Dir(w, f) = Dir(v, f)
    BY DirentPlace DEF Dir
  <1> QED BY <1>1, <1>2, TablesKept DEF Stands

LEMMA SameStands ==
  ASSUME NEW v, NEW w \in Media, Same(v, w)
  PROVE  Stands(v, w)
PROOF
  BY DataStands DEF Same

(* The sector of that entry has been written, and no other one.              *)
EntryWritten(v, w, f, d) ==
  /\ w \in Media
  /\ \A n \in Sectors : Content(w, n) = IF n = DirentSector(f) THEN d ELSE Content(v, n)

LEMMA DirentWritten ==
  ASSUME NEW v, NEW w \in Media, NEW f \in Files, NEW d,
         \A n \in Sectors : Content(w, n) = IF n = DirentSector(f) THEN d ELSE Content(v, n)
  PROVE  EntryPut(v, w, f, d)
PROOF
  <1>1. DirentSector(f) \notin AllTables
    BY DirentPlace
  <1>2. \A n \in AllTables : n \in Sectors => Content(w, n) = Content(v, n)
    BY <1>1
  <1>3. \A g \in Files : Dir(w, g) = IF g = f THEN d ELSE Dir(v, g)
    BY DirentPlace DEF Dir
  <1> QED BY <1>2, <1>3, TablesKept DEF EntryPut

(* The files keep their measure when they begin and reach where they did.    *)
LEMMA MeasureStands ==
  ASSUME UsedFiles' = UsedFiles, \A f \in UsedFiles : Start(f)' = Start(f) /\ Reach(f)' = Reach(f),
         \A f \in Files : Unlinking(f) => Unlinking(f)',
         pc' # "write" \/ (pc' = pc /\ call' = call /\ handle' = handle)
  PROVE  MeasureKept
PROOF
  <1> SUFFICES ASSUME NEW own, NEW rank, Measured(own, rank) PROVE Measured(own, rank)'
    BY DEF MeasureKept
  <1>1. ASSUME NEW f \in UsedFiles', ~Unlinking(f)'
        PROVE  Covers(own, rank, f, Starts'[f], Reach(f)')
    <2>1. f \in UsedFiles /\ f \in Files
      BY DEF UsedFiles
    <2>2. Starts'[f] = Starts[f] /\ Reach(f)' = Reach(f)
      BY <2>1 DEF Starts
    <2>3. Covers(own, rank, f, Starts[f], Reach(f))
      BY <1>1, <2>1 DEF Measured
    <2> QED BY <2>2, <2>3
  <1>2. ASSUME pc' = "write" PROVE InPlace(rank, handle'[call'.f], call'.sector)
    BY <1>2 DEF Measured
  <1> QED BY <1>1, <1>2 DEF Measured

(* The owners stay when the links and the first clusters do.                 *)
LEMMA LinkedStands ==
  ASSUME Linked, \A c \in FatIndex : Ent(vol', c) = Ent(vol, c),
         UsedFiles' = UsedFiles, \A f \in UsedFiles : Start(f)' = Start(f),
         InWrite' => InWrite /\ call'.f = call.f /\ handle'[call.f].cur = handle[call.f].cur,
         MeasureKept
  PROVE  Linked'
PROOF
  <1>0. PICK own, rank : Owns(own, rank) /\ (Aligned => Measured(own, rank))
    BY DEF Linked
  <1>1. /\ ChainsOf(Table, Starts, UsedFiles, own, rank)
        /\ InWrite => own[handle[call.f].cur] = call.f
    BY <1>0 DEF Owns
  <1>2. \A c \in Clusters : Table'[c] = Table[c]
    BY Marks DEF Table
  <1>3. UsedFiles \in SUBSET Files
    BY DEF UsedFiles
  <1>4. \A f \in UsedFiles : Starts'[f] = Starts[f]
    BY <1>3 DEF Starts
  <1>5. PICK e2, s2 : e2 = Table' /\ s2 = Starts'
    OBVIOUS
  <1>6. ChainsOf(e2, s2, UsedFiles, own, rank)
    BY <1>1, <1>2, <1>3, <1>4, <1>5, FilesChange
  <1>7. InWrite' => own[handle'[call'.f].cur] = call'.f
    BY <1>1
  <1>8. Owns(own, rank)'
    BY <1>5, <1>6, <1>7 DEF Owns
  <1>9. Aligned => Measured(own, rank)'
    BY <1>0 DEF MeasureKept
  <1> QED BY <1>8, <1>9 DEF Linked, Aligned

(* A step that moves the buffer, or writes data, and does not touch what the *)
(* handles say of the files.                                                 *)
LEMMA QuietStep ==
  ASSUME Inv, Stands(vol, vol'), Typed', CallInv',
         \A f \in Files : /\ handle'[f].open = handle[f].open /\ handle'[f].async = handle[f].async
                          /\ handle'[f].first = handle[f].first /\ handle'[f].size = handle[f].size
                          /\ handle'[f].first = 0 => handle'[f].cur = 0 /\ handle'[f].pos = 0
                          /\ Untold(f) => Untold(f)',
         (pc' = "unlink") <=> (pc = "unlink"),
         pc = "unlink" => call' = call,
         InWrite' => InWrite /\ call'.f = call.f /\ handle'[call.f].cur = handle[call.f].cur,
         InWrite => MeasureKept
  PROVE  Inv'
PROOF
  <1>1. \A f \in Files : Dir(vol', f) = Dir(vol, f)
    BY DEF Stands
  <1>2. UsedFiles' = UsedFiles
    BY <1>1 DEF UsedFiles
  <1>3. \A f \in Files : Start(f)' = Start(f)
    BY <1>1 DEF Start
  <1>7. MeasureKept
    <2> SUFFICES ASSUME ~InWrite, ~InWrite' PROVE MeasureKept
      OBVIOUS
    <2>1. \A f \in UsedFiles : Start(f)' = Start(f) /\ Reach(f)' = Reach(f)
      BY <1>1, <1>3 DEF Reach, Size, UsedFiles
    <2>2. pc' # "write" /\ \A f \in Files : Unlinking(f) => Unlinking(f)'
      BY DEF InWrite, Unlinking
    <2> QED BY <1>2, <2>1, <2>2, MeasureStands
  <1>4. Linked'
    BY <1>2, <1>3, <1>7, LinkedStands DEF Inv, Stands, UsedFiles
  <1>5. \A f \in Files : HandleInv(f)' /\ EntryInv(f)'
    BY <1>1, <1>2 DEF Inv, HandleInv, EntryInv
  <1>6. Agree(vol')
    BY DEF Inv, Stands
  <1> QED BY <1>4, <1>5, <1>6 DEF Inv

-----------------------------------------------------------------------------
(* The calls that do not change a chain *)

LEMMA HandleParts ==
  ASSUME Inv, NEW f \in Files
  PROVE  /\ handle[f] \in Handles /\ vol \in Media /\ Mirrored
         /\ handle[f].open \in BOOLEAN /\ handle[f].async \in BOOLEAN
         /\ handle[f].size \in Nat /\ handle[f].pos \in Nat /\ handle[f].cur \in Int
         /\ handle[f].first \in {0} \cup Clusters /\ handle[f].first \in Int
         /\ Dir(vol, f) \in Dirents /\ Dirent(f) = Dir(vol, f)
PROOF
  <1>1. handle \in [Files -> Handles] /\ vol \in Media /\ Mirrored
    BY DEF Inv, Typed
  <1>2. Dir(vol, f) \in Dirents /\ Dirent(f) = Dir(vol, f)
    BY <1>1, SeenDirent
  <1>3. \A c \in Clusters : c \in Int
    BY Marks
  <1> QED BY <1>1, <1>2, <1>3 DEF Handles

NewDirent == [name |-> "used", size |-> 0, first |-> 0]

LEMMA CreateWrites ==
  ASSUME Inv, NEW f \in Files, NEW async \in BOOLEAN, Create(f, async)
  PROVE  EntryWritten(vol, vol', f, NewDirent)
PROOF
  <1> DEFINE new == [name |-> "used", size |-> 0, first |-> 0]
             n == DirentSector(f)
             u == Search(vol, f)
             put == Put(u, n, new)
  <1>1. vol' = Search(put, f) /\ new = NewDirent
    BY DEF Create, NewDirent
  <1>2. vol \in Media
    BY DEF Inv, Typed
  <1>3. u \in Media /\ Same(vol, u) /\ u.sector = n
    BY <1>2, SearchKeeps
  <1>4. n \in Sectors /\ new \in Fits(n)
    BY DirentPlace DEF Dirents
  <1> HIDE DEF u, new
  <1>5. put \in Media /\ \A m \in Sectors : Content(put, m) = IF m = n THEN new ELSE Content(u, m)
    BY <1>3, <1>4, PutWrites
  <1> HIDE DEF put
  <1>6. vol' \in Media /\ Same(put, vol')
    <2>1. Search(put, f) \in Media /\ Same(put, Search(put, f))
      BY <1>5, SearchKeeps
    <2> QED BY <1>1, <2>1
  <1> QED BY <1>1, <1>3, <1>5, <1>6 DEF Same, EntryWritten

LEMMA CreateStep ==
  ASSUME Inv, NEW f \in Files, NEW async \in BOOLEAN, Create(f, async)
  PROVE  Inv'
PROOF
  <1> DEFINE new == NewDirent
  <1>1. /\ pc = "idle" /\ pc' = pc /\ call' = call /\ call = NoCall
        /\ Dirent(f).name # "used"
        /\ handle' = [handle EXCEPT ![f] = HandleOf(new, async)]
    BY DEF Create, Idle, Inv, Typed, NewDirent
  <1>2. /\ vol \in Media /\ Mirrored /\ Agree(vol) /\ handle \in [Files -> Handles]
        /\ Dir(vol, f).name # "used"
    BY <1>1, HandleParts DEF Inv, Typed
  <1>6. vol' \in Media
    BY CreateWrites DEF EntryWritten
  <1>7. EntryPut(vol, vol', f, new)
    BY <1>6, CreateWrites, DirentWritten DEF EntryWritten
  <1>8. /\ \A g \in Files : Dir(vol', g) = IF g = f THEN new ELSE Dir(vol, g)
        /\ Agree(vol') /\ \A c \in FatIndex : Ent(vol', c) = Ent(vol, c)
    BY <1>2, <1>7 DEF EntryPut
  <1>9. HandleOf(new, async) \in Handles
    BY DEF HandleOf, Handles, NewDirent
  <1>10. /\ handle' \in [Files -> Handles] /\ handle'[f] = HandleOf(new, async)
         /\ \A g \in Files : g # f => handle'[g] = handle[g]
    BY <1>1, <1>2, <1>9
  <1>11. Typed'
    BY <1>1, <1>6, <1>10 DEF Inv, Typed
  <1>12. f \notin UsedFiles /\ UsedFiles' = UsedFiles \cup {f}
    BY <1>2, <1>8 DEF UsedFiles, NewDirent
  <1>13. /\ handle'[f].open /\ handle'[f].first = 0 /\ handle'[f].cur = 0
         /\ handle'[f].pos = 0 /\ handle'[f].size = 0
         /\ Dir(vol', f).first = 0 /\ Dir(vol', f).size = 0
    BY <1>8, <1>10 DEF HandleOf, NewDirent
  <1>14. \A g \in Files : HandleInv(g)' /\ EntryInv(g)'
    <2> TAKE g \in Files
    <2>1. CASE g = f
      BY <1>12, <1>13, <2>1 DEF HandleInv, EntryInv
    <2>2. CASE g # f
      BY <1>1, <1>8, <1>10, <1>12, <2>2 DEF Inv, HandleInv, EntryInv, Untold, InWrite
    <2> QED BY <2>1, <2>2
  <1>15. CallInv'
    BY <1>1 DEF CallInv, InWrite
  <1>16. Linked'
    <2>0. PICK own, rank : Owns(own, rank) /\ (Aligned => Measured(own, rank))
      BY DEF Inv, Linked
    <2>1. ChainsOf(Table, Starts, UsedFiles, own, rank)
      BY <2>0 DEF Owns
    <2>2. \A c \in Clusters : Table'[c] = Table[c]
      BY <1>8, Marks DEF Table
    <2>3. UsedFiles \in SUBSET Files /\ UsedFiles' \in SUBSET Files
      BY <1>12 DEF UsedFiles
    <2>4. \A g \in UsedFiles : Starts'[g] = Starts[g]
      BY <1>1, <1>8, <1>10, <1>12, <2>3 DEF Starts, Start
    <2>5. Starts'[f] = 0 /\ 0 \notin Clusters
      BY <1>1, <1>13, Marks DEF Starts, Start
    <2>6. PICK e2, s2 : e2 = Table' /\ s2 = Starts'
      OBVIOUS
    <2>7. PICK V \in SUBSET Files : V = UsedFiles'
      BY <2>3
    <2>8. ChainsOf(e2, s2, V, own, rank)
      BY <1>12, <2>1, <2>2, <2>3, <2>4, <2>5, <2>6, <2>7, FilesChange
    <2>9. ASSUME Measured(own, rank), NEW g \in UsedFiles'
          PROVE  Covers(own, rank, g, Starts'[g], Reach(g)')
      <3>1. CASE g = f
        <4>1. Reach(g)' = 0 /\ Starts'[g] \notin Clusters
          BY <1>1, <1>13, <2>5, <3>1 DEF Reach, Size, InWrite
        <4>2. \A c \in Clusters : own[c] # g
          BY <1>12, <2>1, <3>1, FilesNotZero DEF ChainsOf
        <4> QED BY <4>1, <4>2 DEF Covers
      <3>2. CASE g # f
        <4>1. g \in UsedFiles /\ g \in Files
          BY <1>12, <2>3, <3>2
        <4>2. Reach(g)' = Reach(g) /\ ~Unlinking(g)
          BY <1>1, <1>8, <1>10, <3>2, <4>1 DEF Reach, Size, InWrite, Unlinking
        <4> QED BY <2>4, <2>9, <4>1, <4>2 DEF Measured
      <3> QED BY <3>1, <3>2
    <2>10. Owns(own, rank)' /\ (Aligned => Measured(own, rank)')
      BY <1>1, <2>0, <2>6, <2>7, <2>8, <2>9 DEF Owns, Measured, InWrite
    <2> QED BY <2>10 DEF Linked, Aligned
  <1> QED BY <1>8, <1>11, <1>14, <1>15, <1>16 DEF Inv

LEMMA OpenStep ==
  ASSUME Inv, NEW f \in Files, NEW async \in BOOLEAN, Synced(f), Open(f, async)
  PROVE  Inv'
PROOF
  <1>1. /\ pc = "idle" /\ pc' = pc /\ call' = call /\ call = NoCall
        /\ Dirent(f).name = "used" /\ vol' = Search(vol, f)
        /\ handle' = [handle EXCEPT ![f] = HandleOf(Dirent(f), async)]
    BY DEF Open, Idle, Inv, Typed
  <1>2. /\ vol \in Media /\ Mirrored /\ Agree(vol) /\ handle \in [Files -> Handles]
        /\ Dirent(f) = Dir(vol, f) /\ Dir(vol, f) \in Dirents
    BY HandleParts DEF Inv, Typed
  <1>3. Stands(vol, vol')
    BY <1>1, <1>2, SearchKeeps, SameStands
  <1>4. /\ vol' \in Media /\ Agree(vol') /\ \A g \in Files : Dir(vol', g) = Dir(vol, g)
    BY <1>2, <1>3 DEF Stands
  <1>5. HandleOf(Dirent(f), async) \in Handles
    BY <1>2, Marks DEF HandleOf, Handles, Dirents
  <1>6. /\ handle' \in [Files -> Handles] /\ handle'[f] = HandleOf(Dir(vol, f), async)
        /\ \A g \in Files : g # f => handle'[g] = handle[g]
    BY <1>1, <1>2, <1>5
  <1>7. Typed'
    BY <1>1, <1>4, <1>6 DEF Inv, Typed
  <1>8. f \in UsedFiles /\ UsedFiles' = UsedFiles
    BY <1>1, <1>2, <1>4 DEF UsedFiles
  <1>9. /\ handle'[f].open /\ handle'[f].first = Dir(vol, f).first
        /\ handle'[f].cur = Dir(vol, f).first
        /\ handle'[f].pos = 0 /\ handle'[f].size = Dir(vol, f).size
    BY <1>6 DEF HandleOf
  <1>10. \A g \in Files : HandleInv(g)' /\ EntryInv(g)'
    <2> TAKE g \in Files
    <2>1. CASE g = f
      BY <1>4, <1>8, <1>9, <2>1 DEF Inv, HandleInv, EntryInv
    <2>2. CASE g # f
      BY <1>1, <1>4, <1>6, <1>8, <2>2 DEF Inv, HandleInv, EntryInv, Untold, InWrite
    <2> QED BY <2>1, <2>2
  <1>11. CallInv'
    BY <1>1 DEF CallInv, InWrite
  <1>12. \A g \in UsedFiles : Start(g)' = Start(g)
    <2> TAKE g \in UsedFiles
    <2>1. g \in Files
      BY DEF UsedFiles
    <2>2. CASE g = f
      BY <1>1, <1>2, <1>4, <1>9, <2>2 DEF Start, Synced
    <2>3. CASE g # f
      BY <1>1, <1>4, <1>6, <2>1, <2>3 DEF Start
    <2> QED BY <2>2, <2>3
  <1>14. MeasureKept
    <2>1. \A g \in UsedFiles : Reach(g)' = Reach(g)
      <3> TAKE g \in UsedFiles
      <3>1. g \in Files
        BY DEF UsedFiles
      <3>2. CASE g = f
        BY <1>1, <1>2, <1>4, <1>9, <3>2 DEF Reach, Size, InWrite, Synced
      <3>3. CASE g # f
        BY <1>1, <1>4, <1>6, <3>1, <3>3 DEF Reach, Size, InWrite
      <3> QED BY <3>2, <3>3
    <2>2. pc' # "write" /\ \A g \in Files : ~Unlinking(g)
      BY <1>1 DEF Unlinking
    <2> QED BY <1>8, <1>12, <2>1, <2>2, MeasureStands
  <1>13. Linked'
    BY <1>1, <1>3, <1>8, <1>12, <1>14, LinkedStands DEF Inv, Stands, InWrite
  <1> QED BY <1>4, <1>7, <1>10, <1>11, <1>13 DEF Inv

(* The directory is told what the handle says.                               *)
LEMMA Told ==
  ASSUME Inv, NEW f \in Files, NEW x, x.size \in Nat, x.first \in {0} \cup Clusters,
         vol' = FileSync(vol, f, x)
  PROVE  /\ vol' \in Media /\ Agree(vol') /\ \A c \in FatIndex : Ent(vol', c) = Ent(vol, c)
         /\ \A g \in Files : g # f => Dir(vol', g) = Dir(vol, g)
         /\ Dir(vol', f).name = Dir(vol, f).name
         /\ Dir(vol', f).size = x.size /\ Dir(vol', f).first = x.first
         /\ UsedFiles' = UsedFiles
         /\ \A n \in Sectors : n # DirentSector(f) => Content(vol', n) = Content(vol, n)
PROOF
  <1>1. vol \in Media /\ Dir(vol, f) \in Dirents /\ Agree(vol)
    BY HandleParts DEF Inv
  <1> DEFINE d == [Dir(vol, f) EXCEPT !.size = x.size, !.first = x.first]
  <1>2. /\ vol' \in Media
        /\ \A n \in Sectors : Content(vol', n) =
                                IF n = DirentSector(f)
                                THEN [Content(vol, n) EXCEPT !.size = x.size, !.first = x.first]
                                ELSE Content(vol, n)
    <2>1. PICK v \in Media : v = vol
      BY <1>1
    <2>2. DirentTold(v, FileSync(v, f, x), f, x)
      BY FileSyncKeeps
    <2> QED BY <2>1, <2>2 DEF DirentTold
  <1>3. \A n \in Sectors : Content(vol', n) = IF n = DirentSector(f) THEN d ELSE Content(vol, n)
    BY <1>2 DEF Dir
  <1>4. d.name = Dir(vol, f).name /\ d.size = x.size /\ d.first = x.first
    BY <1>1 DEF Dirents
  <1> HIDE DEF d
  <1>5. EntryPut(vol, vol', f, d)
    BY <1>2, <1>3, DirentWritten
  <1>6. UsedFiles' = UsedFiles
    BY <1>4, <1>5 DEF EntryPut, UsedFiles
  <1> QED BY <1>1, <1>3, <1>4, <1>5, <1>6 DEF EntryPut

LEMMA SyncStep ==
  ASSUME Inv, NEW f \in Files, Sync(f)
  PROVE  Inv'
PROOF
  <1>1. /\ pc = "idle" /\ pc' = pc /\ call' = call /\ call = NoCall /\ handle' = handle
        /\ handle[f].open /\ vol' = FileSync(vol, f, handle[f])
    BY DEF Sync, Idle, Inv, Typed
  <1>2. handle[f].size \in Nat /\ handle[f].first \in {0} \cup Clusters
    BY HandleParts
  <1>3. PICK x : x = handle[f]
    OBVIOUS
  <1>4. /\ vol' \in Media /\ Agree(vol') /\ \A c \in FatIndex : Ent(vol', c) = Ent(vol, c)
        /\ \A g \in Files : g # f => Dir(vol', g) = Dir(vol, g)
        /\ Dir(vol', f).size = handle[f].size /\ Dir(vol', f).first = handle[f].first
        /\ UsedFiles' = UsedFiles
    BY <1>1, <1>2, <1>3, Told
  <1>5. Typed'
    BY <1>1, <1>4 DEF Inv, Typed
  <1>6. \A g \in Files : HandleInv(g)' /\ EntryInv(g)'
    <2> TAKE g \in Files
    <2>1. CASE g = f
      BY <1>1, <1>4, <2>1 DEF Inv, HandleInv, EntryInv
    <2>2. CASE g # f
      BY <1>1, <1>4, <2>2 DEF Inv, HandleInv, EntryInv, Untold, InWrite
    <2> QED BY <2>1, <2>2
  <1>7. CallInv'
    BY <1>1 DEF CallInv, InWrite
  <1>8. \A g \in UsedFiles : Start(g)' = Start(g)
    BY <1>1, <1>4 DEF Start, UsedFiles
  <1>10. MeasureKept
    <2>1. \A g \in UsedFiles : Reach(g)' = Reach(g)
      BY <1>1, <1>4 DEF Reach, Size, InWrite, UsedFiles
    <2>2. pc' # "write" /\ \A g \in Files : ~Unlinking(g)
      BY <1>1 DEF Unlinking
    <2> QED BY <1>4, <1>8, <2>1, <2>2, MeasureStands
  <1>9. Linked'
    BY <1>1, <1>4, <1>8, <1>10, LinkedStands DEF Inv, InWrite
  <1> QED BY <1>4, <1>5, <1>6, <1>7, <1>9 DEF Inv

LEMMA TargetTyped ==
  ASSUME NEW x \in Handles, NEW offset \in SeekOffsets, NEW whence \in {"SET", "CUR", "END"}
  PROVE  Target(x, offset, whence) \in Nat /\ Target(x, offset, whence) \div ClusterSize \in Nat
PROOF
  <1>1. /\ offset \in Int /\ Word \in Nat \ {0} /\ x.pos \in Nat /\ x.size \in Nat
    BY FatVolumeAssumption DEF Handles
  <1>2. ClusterSize \in Nat \ {0}
    BY Regions DEF ClusterSize
  <1>3. \A y \in Int : y % Word \in Nat
    BY <1>1
  <1>4. Target(x, offset, whence) \in Nat
    <2> DEFINE to == CASE whence = "SET" -> offset % Word
                       [] whence = "CUR" -> (offset + x.pos) % Word
                       [] whence = "END" -> (offset + x.size) % Word
    <2>1. to \in Nat
      BY <1>1, <1>3
    <2>2. Target(x, offset, whence) = IF x.size # 0 /\ to > x.size THEN x.size ELSE to
      BY DEF Target
    <2> HIDE DEF to
    <2> QED BY <1>1, <2>1, <2>2
  <1> QED BY <1>2, <1>4

LEMMA SeekStep ==
  ASSUME Inv, NEW f \in Files, NEW offset \in SeekOffsets, NEW whence \in {"SET", "CUR", "END"},
         handle[f].size > 0, Seek(f, offset, whence)
  PROVE  Inv'
PROOF
  <1> DEFINE to == Target(handle[f], offset, whence)
             place == Walk(vol, handle[f].first, to \div ClusterSize)
  <1>1. /\ pc = "idle" /\ call' = call /\ call = NoCall /\ vol' = place.vol
        /\ handle' = [handle EXCEPT ![f].pos = to, ![f].cur = place.at]
        /\ pc' \in {"idle", "lost"}
    BY DEF Seek, Idle, Inv, Typed
  <1>2. /\ vol \in Media /\ Mirrored /\ handle[f] \in Handles /\ handle[f].first \in Int
        /\ handle \in [Files -> Handles] /\ handle[f].size \in Nat
    BY HandleParts DEF Inv, Typed
  <1>3. to \in Nat /\ to \div ClusterSize \in Nat
    BY <1>2, TargetTyped
  <1> HIDE DEF to
  <1>4. place.vol \in Media /\ Same(vol, place.vol) /\ place.at \in Int
    BY <1>2, <1>3, WalkKeeps
  <1> HIDE DEF place
  <1>5. vol' \in Media /\ Stands(vol, vol')
    BY <1>1, <1>4, SameStands
  <1>6. handle' = [handle EXCEPT ![f] = [handle[f] EXCEPT !.pos = to, !.cur = place.at]]
    BY <1>1, <1>2
  <1>7. PICK y : y = [handle[f] EXCEPT !.pos = to, !.cur = place.at]
    OBVIOUS
  <1>8. /\ y \in Handles /\ y.open = handle[f].open /\ y.async = handle[f].async
        /\ y.first = handle[f].first /\ y.size = handle[f].size
    BY <1>2, <1>3, <1>4, <1>7 DEF Handles
  <1>9. /\ handle' \in [Files -> Handles] /\ handle'[f] = y
        /\ \A g \in Files : g # f => handle'[g] = handle[g]
    BY <1>2, <1>6, <1>7, <1>8
  <1>10. Typed'
    BY <1>1, <1>5, <1>9 DEF Inv, Typed
  <1>11. CallInv'
    BY <1>1 DEF CallInv, InWrite
  <1>12. handle[f].first # 0
    BY <1>2 DEF Inv, HandleInv
  <1>13. \A g \in Files : /\ handle'[g].open = handle[g].open /\ handle'[g].async = handle[g].async
                          /\ handle'[g].first = handle[g].first /\ handle'[g].size = handle[g].size
                          /\ handle'[g].first = 0 => handle'[g].cur = 0 /\ handle'[g].pos = 0
                          /\ Untold(g) => Untold(g)'
    <2> TAKE g \in Files
    <2>1. ~Untold(g)
      BY <1>1 DEF Untold, InWrite
    <2>2. CASE g = f
      BY <1>8, <1>9, <1>12, <2>1, <2>2
    <2>3. CASE g # f
      BY <1>9, <2>1, <2>3 DEF Inv, HandleInv
    <2> QED BY <2>2, <2>3
  <1> QED BY <1>1, <1>5, <1>10, <1>11, <1>13, QuietStep DEF InWrite

LEMMA ReadStartStep ==
  ASSUME Inv, NEW f \in Files, NEW n \in ReadSizes, handle[f].size > 0, ReadStart(f, n)
  PROVE  Inv'
PROOF
  <1> DEFINE x == handle[f]
             size == IF x.size # 0 /\ x.pos + n > x.size THEN x.size - x.pos ELSE n
  <1>1. /\ pc = "idle" /\ pc' = "read" /\ vol' = vol /\ handle' = handle
        /\ call' = [NoCall EXCEPT !.f = f, !.size = size, !.start = x.pos, !.sector = SectorOf(x)]
    BY DEF ReadStart, Idle
  <1>2. /\ x.size \in Nat /\ x.pos \in Nat /\ x.cur \in Int /\ n \in Nat /\ vol \in Media
    BY HandleParts, FatVolumeAssumption
  <1>3. size \in Int
    BY <1>2
  <1>4. /\ SectorOf(x) \in Int
        /\ SectorOf(x) \in DataSectors => x.cur \in Clusters
    <2>1. SectorsPerCluster \in Nat \ {0} /\ BytesPerSector \in Nat \ {0}
      BY Regions
    <2>2. (x.pos \div BytesPerSector) \in Nat
      BY <1>2, <2>1
    <2>3. PICK j \in 0 .. SectorsPerCluster - 1 : j = (x.pos \div BytesPerSector) % SectorsPerCluster
      BY <2>1, <2>2
    <2>4. SectorOf(x) = FirstSector(x.cur) + j
      BY <2>3 DEF SectorOf
    <2> QED BY <1>2, <2>4, ClusterPlace
  <1> HIDE DEF size
  <1>5. call' = [f |-> f, v |-> 0, size |-> size, i |-> 0, sector |-> SectorOf(x),
                 start |-> x.pos, out |-> <<>>, cluster |-> 0]
    BY <1>1 DEF NoCall
  <1>6. Typed'
    BY <1>1, <1>3, <1>4, <1>5 DEF Inv, Typed
  <1>7. x.first # 0
    BY <1>2 DEF Inv, HandleInv
  <1>8. CallInv'
    BY <1>1, <1>4, <1>5, <1>7 DEF CallInv, InWrite
  <1>9. Stands(vol, vol')
    BY <1>1, <1>2, SameStands, SameSelf
  <1>10. \A g \in Files : /\ handle'[g].open = handle[g].open /\ handle'[g].async = handle[g].async
                          /\ handle'[g].first = handle[g].first /\ handle'[g].size = handle[g].size
                          /\ handle'[g].first = 0 => handle'[g].cur = 0 /\ handle'[g].pos = 0
                          /\ Untold(g) => Untold(g)'
    BY <1>1 DEF Inv, HandleInv, Untold, InWrite
  <1> QED BY <1>1, <1>6, <1>8, <1>9, <1>10, QuietStep DEF InWrite

LEMMA ReadDoneStep ==
  ASSUME Inv, ReadDone
  PROVE  Inv'
PROOF
  <1>1. /\ pc \in {"read", "readend"} /\ pc' = "idle" /\ vol' = vol /\ handle' = handle
        /\ call' = NoCall
    BY DEF ReadDone
  <1>2. vol \in Media
    BY DEF Inv, Typed
  <1>3. Typed'
    BY <1>1 DEF Inv, Typed, NoCall
  <1>4. CallInv'
    BY <1>1 DEF CallInv, InWrite
  <1>5. Stands(vol, vol')
    BY <1>1, <1>2, SameStands, SameSelf
  <1>6. \A g \in Files : /\ handle'[g].open = handle[g].open /\ handle'[g].async = handle[g].async
                         /\ handle'[g].first = handle[g].first /\ handle'[g].size = handle[g].size
                         /\ handle'[g].first = 0 => handle'[g].cur = 0 /\ handle'[g].pos = 0
                         /\ Untold(g) => Untold(g)'
    BY <1>1 DEF Inv, HandleInv, Untold, InWrite
  <1>7. ~InWrite' /\ pc' # "unlink" /\ pc # "unlink"
    BY <1>1 DEF InWrite
  <1> QED BY <1>1, <1>3, <1>4, <1>5, <1>6, <1>7, QuietStep DEF InWrite

(* What is read or written in one sector.                                    *)
LEMMA ChunkFits ==
  ASSUME Inv, call.f \in Files, call.i < call.size
  PROVE  /\ Chunk \in Nat \ {0} /\ OffsetOf(handle[call.f]) \in 0 .. BytesPerSector - 1
         /\ OffsetOf(handle[call.f]) + Chunk <= BytesPerSector
PROOF
  <1>1. /\ BytesPerSector \in Nat \ {0} /\ call.i \in Nat /\ call.size \in Int
        /\ handle[call.f].pos \in Nat
    BY Regions, HandleParts DEF Inv, Typed
  <1>2. OffsetOf(handle[call.f]) \in 0 .. BytesPerSector - 1
    BY <1>1 DEF OffsetOf
  <1> QED BY <1>1, <1>2 DEF Chunk

LEMMA ReadSectorStep ==
  ASSUME Inv, ReadSector
  PROVE  Inv'
PROOF
  <1> DEFINE f == call.f
             x == handle[call.f]
             read == Get(vol, call.sector)
             moved == [x EXCEPT !.pos = @ + Chunk]
             locals == [call EXCEPT !.i = @ + Chunk,
                          !.out = @ \o [k \in 1 .. Chunk |-> read.buf[OffsetOf(x) + k - 1]]]
             crosses == (call.sector + 1) % SectorsPerCluster = FirstDataSector % SectorsPerCluster
             next == GetNext(read, x.cur)
  <1>1. /\ pc = "read" /\ call.i < call.size /\ call.sector \in DataSectors
        /\ IF SectorEnds /\ crosses
           THEN /\ vol' = next.vol
                /\ handle' = [handle EXCEPT ![call.f] = [moved EXCEPT !.cur = next.at]]
                /\ call' = [locals EXCEPT !.sector = FirstSector(next.at)]
                /\ pc' = IF next.at = Eoc THEN "readend" ELSE "read"
           ELSE /\ vol' = read
                /\ handle' = [handle EXCEPT ![call.f] = moved]
                /\ call' = [locals EXCEPT !.sector = IF SectorEnds THEN @ + 1 ELSE @]
                /\ pc' = pc
    BY DEF ReadSector
  <1>2. /\ f \in Files /\ vol \in Media /\ Mirrored /\ handle \in [Files -> Handles]
        /\ call = [f |-> call.f, v |-> call.v, size |-> call.size, i |-> call.i,
                   sector |-> call.sector, start |-> call.start, out |-> call.out,
                   cluster |-> call.cluster]
        /\ call.v \in Nat /\ call.size \in Int /\ call.i \in Nat /\ call.sector \in Int
        /\ call.cluster \in Nat
        /\ x.first # 0 /\ x.cur \in Clusters /\ x.pos \in Nat /\ x \in Handles
    BY <1>1 DEF Inv, Typed, CallInv, Handles
  <1>3. Chunk \in Nat
    BY <1>1, <1>2, ChunkFits
  <1>4. read \in Media /\ Same(vol, read)
    BY <1>1, <1>2, DataPlace, GetKeeps
  <1>5. PICK d \in FatIndex : d = x.cur
    BY <1>2, Marks
  <1>6. next.vol \in Media /\ Same(vol, next.vol) /\ next.at \in Nat
    <2> HIDE DEF read
    <2>1. PICK y \in Media : y = read
      BY <1>4
    <2>2. GetNext(y, d).vol \in Media /\ Same(y, GetNext(y, d).vol) /\ GetNext(y, d).at = Ent(y, d)
      BY <1>2, GetNextReads
    <2>3. Ent(y, d) \in Nat
      BY EntTyped
    <2> QED BY <1>4, <1>5, <2>1, <2>2, <2>3, SameTwice
  <1> HIDE DEF next
  <1>7. /\ locals.i = call.i + Chunk /\ locals.f = call.f /\ locals.v = call.v
        /\ locals.size = call.size /\ locals.sector = call.sector /\ locals.cluster = call.cluster
        /\ locals = [f |-> locals.f, v |-> locals.v, size |-> locals.size, i |-> locals.i,
                     sector |-> locals.sector, start |-> locals.start, out |-> locals.out,
                     cluster |-> locals.cluster]
    <2>1. PICK out : out = call.out \o [k \in 1 .. Chunk |-> read.buf[OffsetOf(x) + k - 1]]
      OBVIOUS
    <2>2. locals = [call EXCEPT !.i = @ + Chunk, !.out = out]
      BY <2>1
    <2> HIDE DEF locals
    <2> QED BY <1>2, <2>2
  <1> HIDE DEF locals, read
  <1>8. PICK y \in Handles : /\ y.open = x.open /\ y.async = x.async /\ y.first = x.first
                             /\ y.size = x.size /\ y.pos \in Nat
                             /\ handle' = [handle EXCEPT ![call.f] = y]
                             /\ y.cur = x.cur \/ y.cur = next.at
                             /\ pc' = "read" /\ call'.sector \in DataSectors => y.cur \in Clusters
                             /\ call'.sector \in Int
                             /\ call' = [locals EXCEPT !.sector = call'.sector]
                             /\ pc' \in {"read", "readend"}
                             /\ vol' \in Media /\ Same(vol, vol')
    <2>1. CASE SectorEnds /\ crosses
      <3> DEFINE y == [moved EXCEPT !.cur = next.at]
      <3>1. /\ vol' = next.vol /\ handle' = [handle EXCEPT ![call.f] = y]
            /\ call' = [locals EXCEPT !.sector = FirstSector(next.at)]
            /\ pc' \in {"read", "readend"}
        BY <1>1, <2>1
      <3>2. /\ y \in Handles /\ y.open = x.open /\ y.async = x.async /\ y.first = x.first
            /\ y.size = x.size /\ y.pos \in Nat /\ y.cur = next.at
        <4>1. PICK p \in Nat, at \in Int : p = x.pos + Chunk /\ at = next.at
          BY <1>2, <1>3, <1>6
        <4>2. y = [open |-> x.open, size |-> x.size, first |-> x.first, pos |-> p,
                   cur |-> at, async |-> x.async]
          <5>1. PICK z \in Handles : z = x
            BY <1>2
          <5>2. y = [z EXCEPT !.pos = p, !.cur = at]
            BY <4>1, <5>1 DEF Handles
          <5> HIDE DEF y
          <5> QED BY <5>1, <5>2 DEF Handles
        <4> HIDE DEF y
        <4> QED BY <1>2, <4>1, <4>2 DEF Handles
      <3> HIDE DEF y
      <3>3. call'.sector = FirstSector(next.at)
        BY <1>7, <3>1
      <3>4. /\ FirstSector(next.at) \in Int
            /\ FirstSector(next.at) \in DataSectors => next.at \in Clusters
        <4>1. 0 \in 0 .. SectorsPerCluster - 1 /\ next.at \in Int
          BY <1>6, Regions
        <4>2. /\ FirstSector(next.at) + 0 \in Int
              /\ FirstSector(next.at) + 0 \in DataSectors <=> next.at \in Clusters
          BY <4>1, ClusterPlace
        <4>3. FirstSector(next.at) \in Int
          BY <4>1, Regions DEF FirstSector
        <4>4. FirstSector(next.at) + 0 = FirstSector(next.at)
          BY <4>3
        <4> QED BY <4>2, <4>3, <4>4
      <3>5. call' = [locals EXCEPT !.sector = call'.sector]
        BY <3>1, <3>3
      <3>6. pc' = "read" /\ call'.sector \in DataSectors => y.cur \in Clusters
        BY <3>2, <3>3, <3>4
      <3>7. vol' \in Media /\ Same(vol, vol') /\ call'.sector \in Int
        BY <1>6, <3>1, <3>3, <3>4
      <3> QED BY <3>1, <3>2, <3>5, <3>6, <3>7
    <2>2. CASE ~(SectorEnds /\ crosses)
      <3> DEFINE y == moved
      <3>1. /\ vol' = read /\ handle' = [handle EXCEPT ![call.f] = y] /\ pc' = "read"
            /\ call' = [locals EXCEPT !.sector = IF SectorEnds THEN @ + 1 ELSE @]
        BY <1>1, <2>2
      <3>2. /\ y \in Handles /\ y.open = x.open /\ y.async = x.async /\ y.first = x.first
            /\ y.size = x.size /\ y.pos \in Nat /\ y.cur = x.cur
        BY <1>2, <1>3 DEF Handles
      <3> HIDE DEF y
      <3>3. call'.sector = IF SectorEnds THEN call.sector + 1 ELSE call.sector
        BY <1>7, <3>1
      <3>4. call' = [locals EXCEPT !.sector = call'.sector] /\ call'.sector \in Int
        BY <1>2, <1>7, <3>1, <3>3
      <3>5. vol' \in Media /\ Same(vol, vol') /\ y.cur \in Clusters
        BY <1>2, <1>4, <3>1, <3>2
      <3> QED BY <3>1, <3>2, <3>4, <3>5
    <2> QED BY <2>1, <2>2
  <1>9. /\ call'.f = call.f /\ call'.v = call.v /\ call'.size = call.size
        /\ call'.i = call.i + Chunk /\ call'.cluster = call.cluster
        /\ call' = [f |-> call'.f, v |-> call'.v, size |-> call'.size, i |-> call'.i,
                    sector |-> call'.sector, start |-> call'.start, out |-> call'.out,
                    cluster |-> call'.cluster]
    <2>1. PICK n : n = call'.sector
      OBVIOUS
    <2>2. call' = [locals EXCEPT !.sector = n]
      BY <1>8, <2>1
    <2> QED BY <1>7, <2>2
  <1>10. /\ handle' \in [Files -> Handles] /\ handle'[f] = y
         /\ \A g \in Files : g # f => handle'[g] = handle[g]
    BY <1>2, <1>8
  <1>11. Typed'
    BY <1>2, <1>3, <1>8, <1>9, <1>10 DEF Typed
  <1>12. CallInv'
    BY <1>2, <1>8, <1>9, <1>10 DEF CallInv, InWrite
  <1>13. Stands(vol, vol')
    BY <1>8, SameStands
  <1>14. \A g \in Files : /\ handle'[g].open = handle[g].open /\ handle'[g].async = handle[g].async
                          /\ handle'[g].first = handle[g].first /\ handle'[g].size = handle[g].size
                          /\ handle'[g].first = 0 => handle'[g].cur = 0 /\ handle'[g].pos = 0
                          /\ Untold(g) => Untold(g)'
    <2> TAKE g \in Files
    <2>1. ~Untold(g)
      BY <1>1 DEF Untold, InWrite
    <2>2. CASE g = f
      BY <1>2, <1>8, <1>10, <2>1, <2>2
    <2>3. CASE g # f
      BY <1>10, <2>1, <2>3 DEF Inv, HandleInv
    <2> QED BY <2>2, <2>3
  <1> QED BY <1>1, <1>8, <1>11, <1>12, <1>13, <1>14, QuietStep DEF InWrite

-----------------------------------------------------------------------------
(* fat_unlink *)

LEMMA UnlinkStartStep ==
  ASSUME Inv, NEW f \in Files, f # HostFile, Synced(f), UnlinkStart(f)
  PROVE  Inv'
PROOF
  <1>1. /\ pc = "idle" /\ pc' = "unlink" /\ handle' = handle /\ vol' = Search(vol, f)
        /\ call' = [NoCall EXCEPT !.f = f, !.cluster = Dirent(f).first]
        /\ Dirent(f).name = "used"
    BY DEF UnlinkStart, Idle
  <1>2. /\ vol \in Media /\ Mirrored /\ Agree(vol)
        /\ Dirent(f) = Dir(vol, f) /\ Dir(vol, f) \in Dirents
    BY HandleParts DEF Inv, Typed
  <1>3. vol' \in Media /\ Stands(vol, vol')
    <2>1. Search(vol, f) \in Media /\ Same(vol, Search(vol, f))
      BY <1>2, SearchKeeps
    <2> QED BY <1>1, <2>1, SameStands
  <1>4. Agree(vol') /\ \A g \in Files : Dir(vol', g) = Dir(vol, g)
    BY <1>2, <1>3 DEF Stands
  <1>5. PICK c \in Nat : c = Dir(vol, f).first /\ c \in {0} \cup Clusters
    BY <1>2, Marks DEF Dirents
  <1>6. call' = [f |-> f, v |-> 0, size |-> 0, i |-> 0, sector |-> 0,
                 start |-> 0, out |-> <<>>, cluster |-> c]
    BY <1>1, <1>2, <1>5 DEF NoCall
  <1>7. Typed'
    <2>1. /\ call'.f = f /\ call'.v = 0 /\ call'.size = 0 /\ call'.i = 0 /\ call'.sector = 0
          /\ call'.cluster = c
      BY <1>6
    <2>2. call' = [f |-> call'.f, v |-> call'.v, size |-> call'.size, i |-> call'.i,
             sector |-> call'.sector, start |-> call'.start, out |-> call'.out,
             cluster |-> call'.cluster]
      BY <1>6
    <2>3. handle' \in [Files -> Handles]
      BY <1>1 DEF Inv, Typed
    <2>4. pc' = "unlink" /\ vol' \in Media
      BY <1>1, <1>3
    <2> QED BY <2>1, <2>2, <2>3, <2>4, <1>5 DEF Typed
  <1>8. UsedFiles' = UsedFiles /\ f \in UsedFiles
    BY <1>1, <1>2, <1>4 DEF UsedFiles
  <1>9. CallInv'
    <2>1. call'.f = f /\ call'.cluster = c
      BY <1>6
    <2>2. f \in UsedFiles' /\ c \in {0, Eoc} \cup Clusters
      BY <1>5, <1>8
    <2>3. pc' = "unlink"
      BY <1>1
    <2> QED BY <2>1, <2>2, <2>3 DEF CallInv, InWrite
  <1>10. \A g \in Files : HandleInv(g)' /\ EntryInv(g)'
    BY <1>1, <1>4, <1>8 DEF Inv, HandleInv, EntryInv, Untold, InWrite
  <1>11. \A g \in UsedFiles : Start(g)' = Start(g)
    <2> TAKE g \in UsedFiles
    <2>1. g \in Files
      BY DEF UsedFiles
    <2>2. CASE g = f
      BY <1>1, <1>2, <1>5, <1>6, <2>2 DEF Start, Synced
    <2>3. CASE g # f
      BY <1>1, <1>4, <1>6, <2>1, <2>3 DEF Start
    <2> QED BY <2>2, <2>3
  <1>13. MeasureKept
    <2>1. \A g \in UsedFiles : Reach(g)' = Reach(g)
      BY <1>1, <1>4 DEF Reach, Size, InWrite, UsedFiles
    <2>2. pc' # "write" /\ \A g \in Files : ~Unlinking(g)
      BY <1>1 DEF Unlinking
    <2> QED BY <1>8, <1>11, <2>1, <2>2, MeasureStands
  <1>12. Linked'
    BY <1>1, <1>3, <1>8, <1>11, <1>13, LinkedStands DEF Inv, Stands, InWrite
  <1> QED BY <1>4, <1>7, <1>9, <1>10, <1>12 DEF Inv

LEMMA UnlinkStepStep ==
  ASSUME Inv, UnlinkStep
  PROVE  Inv'
PROOF
  <1> DEFINE f == call.f
             next == GetNext(vol, call.cluster)
  <1>1. /\ pc = "unlink" /\ pc' = pc /\ handle' = handle
        /\ call.cluster \in FatIndex \ {0}
        /\ vol' = SetNext(next.vol, call.cluster, 0)
        /\ call' = [call EXCEPT !.cluster = next.at]
    BY DEF UnlinkStep
  <1>2. /\ f \in Files /\ vol \in Media /\ Mirrored /\ Agree(vol) /\ f \in UsedFiles /\ f # HostFile
        /\ call = [f |-> call.f, v |-> call.v, size |-> call.size, i |-> call.i,
                   sector |-> call.sector, start |-> call.start, out |-> call.out,
                   cluster |-> call.cluster]
        /\ call.cluster \in {0, Eoc} \cup Clusters
    BY <1>1 DEF Inv, Typed, CallInv
  <1>3. PICK c \in Clusters : c = call.cluster
    BY <1>1, <1>2, Marks
  <1>4. c \in FatIndex
    BY <1>1, <1>3
  <1>5. next.vol \in Media /\ Same(vol, next.vol) /\ next.at = Ent(vol, c) /\ Ent(vol, c) \in Nat
    BY <1>2, <1>3, <1>4, GetNextReads, EntTyped
  <1>6. Stands(vol, next.vol)
    BY <1>5, SameStands
  <1> HIDE DEF next
  <1>7. EntryIsSet(next.vol, vol', c, 0)
    <2>1. PICK u \in Media : u = next.vol
      BY <1>5
    <2>2. EntryIsSet(u, SetNext(u, c, 0), c, 0)
      BY <1>2, <1>4, Marks, SetNextKeeps
    <2> QED BY <1>1, <1>3, <2>1, <2>2
  <1>8. /\ vol' \in Media /\ Agree(vol')
        /\ \A d \in FatIndex : Ent(vol', d) = IF d = c THEN 0 ELSE Ent(vol, d)
        /\ \A g \in Files : Dir(vol', g) = Dir(vol, g)
    <2>1. \A g \in Files : Dir(vol', g) = Dir(next.vol, g)
      BY <1>7, DirentPlace DEF Dir, EntryIsSet
    <2> QED BY <1>2, <1>6, <1>7, <2>1 DEF Stands, EntryIsSet
  <1>9. UsedFiles' = UsedFiles
    BY <1>8 DEF UsedFiles
  <1>10. PICK n \in Nat : n = next.at /\ n = Ent(vol, c)
    BY <1>5
  <1>11. call' = [f |-> call.f, v |-> call.v, size |-> call.size, i |-> call.i,
                  sector |-> call.sector, start |-> call.start, out |-> call.out,
                  cluster |-> n]
    BY <1>1, <1>2, <1>10
  <1>12. Typed'
    BY <1>1, <1>8, <1>11 DEF Inv, Typed
  <1>20. PICK own, rank : Owns(own, rank) /\ (Aligned => Measured(own, rank))
    BY DEF Inv, Linked
  <1>13. ChainsOf(Table, Starts, UsedFiles, own, rank)
    BY <1>20 DEF Owns
  <1>14. Starts[f] = c /\ UsedFiles \in SUBSET Files
    BY <1>1, <1>2, <1>3 DEF Starts, Start, UsedFiles
  <1>15. Table[c] = n
    BY <1>10 DEF Table
  <1>16. n \in {0, Eoc} \cup Clusters
    <2>1. own[c] = f
      BY <1>2, <1>13, <1>14 DEF ChainsOf
    <2>2. n \in {0, Eoc, HostEoc} \cup Clusters /\ (n = HostEoc => own[c] = HostFile)
      BY <1>13, <1>15 DEF ChainsOf
    <2> QED BY <1>2, <2>1, <2>2
  <1>17. CallInv'
    BY <1>1, <1>2, <1>9, <1>11, <1>16 DEF CallInv, InWrite
  <1>18. \A g \in Files : HandleInv(g)' /\ EntryInv(g)'
    BY <1>1, <1>8, <1>9 DEF Inv, HandleInv, EntryInv, Untold, InWrite
  <1>19. Linked'
    <2>1. PICK e, e2, s, s2 : e = Table /\ e2 = Table' /\ s = Starts /\ s2 = Starts'
      OBVIOUS
    <2>2. PICK U \in SUBSET Files : U = UsedFiles
      BY <1>14
    <2>3. \A d \in Clusters : e2[d] = IF d = c THEN 0 ELSE e[d]
      BY <1>8, <2>1, Marks DEF Table
    <2>4. \A g \in U : s2[g] = IF g = f THEN e[c] ELSE s[g]
      <3> TAKE g \in U
      <3>1. g \in Files /\ s2[g] = Start(g)' /\ s[g] = Start(g)
        BY <2>1, <2>2 DEF Starts
      <3>2. CASE g = f
        BY <1>1, <1>11, <1>15, <2>1, <3>1, <3>2 DEF Start
      <3>3. CASE g # f
        BY <1>1, <1>8, <1>11, <3>1, <3>3 DEF Start
      <3> QED BY <3>2, <3>3
    <2>5. ChainsOf(e, s, U, own, rank) /\ f \in U /\ s[f] = c
      BY <1>2, <1>13, <1>14, <2>1, <2>2
    <2>6. PICK own2, rank2 : /\ ChainsOf(e2, s2, U, own2, rank2)
                             /\ Joined(own, rank, own2, rank2, c, 0, rank[c])
      BY <2>3, <2>4, <2>5, HeadFreed
    <2>7. ASSUME Measured(own, rank), NEW g \in U, g # f
          PROVE  Covers(own2, rank2, g, s2[g], Reach(g)')
      <3>1. g \in Files /\ g # 0 /\ own[c] = f /\ s2[g] = s[g]
        BY <2>4, <2>5, <2>7, FilesNotZero DEF ChainsOf
      <3>2. Reach(g)' = Reach(g)
        BY <1>1, <1>8, <3>1 DEF Reach, Size, InWrite
      <3>3. Covers(own, rank, g, s[g], Reach(g))
        BY <1>1, <2>1, <2>2, <2>7 DEF Measured, Unlinking
      <3>4. \A d \in Clusters : (own2[d] = g <=> own[d] = g) /\ rank2[d] = rank[d]
        BY <2>6, <2>7, <3>1 DEF Joined
      <3> QED BY <3>1, <3>2, <3>3, <3>4 DEF Covers
    <2>8. Owns(own2, rank2)' /\ (Aligned => Measured(own2, rank2)')
      <3>1. Owns(own2, rank2)'
        BY <1>1, <1>9, <2>1, <2>2, <2>6 DEF Owns, InWrite
      <3>2. call'.f = f
        BY <1>11
      <3>3. \A g \in Files : g = f => Unlinking(g)'
        BY <1>1, <3>2 DEF Unlinking
      <3>4. pc' # "write"
        BY <1>1
      <3>5. ASSUME Aligned PROVE Measured(own2, rank2)'
        BY <1>9, <1>14, <1>20, <2>1, <2>2, <2>7, <3>3, <3>4, <3>5 DEF Measured
      <3> QED BY <3>1, <3>5
    <2> QED BY <2>8 DEF Linked, Aligned
  <1> QED BY <1>8, <1>12, <1>17, <1>18, <1>19 DEF Inv

DeletedDirent(f) == [Dir(vol, f) EXCEPT !.name = "deleted"]

LEMMA UnlinkDoneWrites ==
  ASSUME Inv, UnlinkDone
  PROVE  EntryWritten(vol, vol', call.f, DeletedDirent(call.f))
PROOF
  <1> DEFINE f == call.f
             n == DirentSector(call.f)
             read == Get(vol, n)
             buf == [read.buf EXCEPT !.name = "deleted"]
  <1>1. pc = "unlink" /\ vol' = Put(read, read.sector, buf)
    BY DEF UnlinkDone
  <1>2. f \in Files /\ vol \in Media
    BY <1>1 DEF Inv, Typed
  <1>3. Dir(vol, f) \in Dirents
    BY <1>2, HandleParts
  <1>4. n \in Sectors /\ n \notin LastCopy /\ Fits(n) = Dirents
    BY <1>2, DirentPlace
  <1>5. Fresh(vol) \/ vol.sector # n
    BY <1>2, <1>4, Trusted
  <1>6. read \in Media /\ Same(vol, read) /\ read.sector = n /\ read.buf = Dir(vol, f)
    BY <1>2, <1>4, <1>5, GetKeeps DEF Dir
  <1> HIDE DEF read
  <1>7. buf \in Fits(n) /\ buf = DeletedDirent(f)
    BY <1>3, <1>4, <1>6 DEF Dirents, DeletedDirent
  <1> HIDE DEF buf
  <1>8. PICK u \in Media, m \in Sectors : u = read /\ m = n
    BY <1>4, <1>6
  <1>9. PICK b \in Fits(m) : b = buf
    BY <1>7, <1>8
  <1>10. /\ Put(u, m, b) \in Media
         /\ \A k \in Sectors : Content(Put(u, m, b), k) = IF k = m THEN b ELSE Content(u, k)
    BY <1>6, <1>8, PutWrites
  <1> QED BY <1>1, <1>6, <1>7, <1>8, <1>9, <1>10 DEF Same, EntryWritten

LEMMA UnlinkDoneStep ==
  ASSUME Inv, UnlinkDone
  PROVE  Inv'
PROOF
  <1> DEFINE f == call.f
             buf == DeletedDirent(call.f)
  <1>1. /\ pc = "unlink" /\ pc' = "idle" /\ call' = NoCall
        /\ call.cluster \in {0, Eoc}
        /\ handle' = [handle EXCEPT ![call.f] = NoHandle]
    BY DEF UnlinkDone
  <1>2. /\ f \in Files /\ vol \in Media /\ Mirrored /\ Agree(vol) /\ f \in UsedFiles
        /\ handle \in [Files -> Handles]
    BY <1>1 DEF Inv, Typed, CallInv
  <1>3. Dir(vol, f) \in Dirents
    BY <1>2, HandleParts
  <1>7. /\ buf.name = "deleted"
        /\ buf.size = Dir(vol, f).size /\ buf.first = Dir(vol, f).first
    BY <1>3 DEF Dirents, DeletedDirent
  <1>8. /\ vol' \in Media
        /\ \A m \in Sectors : Content(vol', m) = IF m = DirentSector(f) THEN buf ELSE Content(vol, m)
    BY UnlinkDoneWrites DEF EntryWritten
  <1> HIDE DEF buf
  <1>9. /\ Agree(vol') /\ \A c \in FatIndex : Ent(vol', c) = Ent(vol, c)
        /\ \A g \in Files : Dir(vol', g) = IF g = f THEN buf ELSE Dir(vol, g)
    <2>1. EntryPut(vol, vol', f, buf)
      BY <1>2, <1>8, DirentWritten
    <2> QED BY <1>2, <2>1 DEF EntryPut
  <1>10. UsedFiles' = UsedFiles \ {f}
    BY <1>2, <1>7, <1>9 DEF UsedFiles
  <1>11. NoHandle \in Handles
    BY DEF NoHandle, Handles
  <1>12. /\ handle' \in [Files -> Handles] /\ handle'[f] = NoHandle
         /\ \A g \in Files : g # f => handle'[g] = handle[g]
    BY <1>1, <1>2, <1>11
  <1>13. Typed'
    BY <1>1, <1>8, <1>12 DEF Inv, Typed, NoCall
  <1>14. CallInv'
    BY <1>1 DEF CallInv, InWrite
  <1>15. \A g \in Files : HandleInv(g)' /\ EntryInv(g)'
    <2> TAKE g \in Files
    <2>1. CASE g = f
      <3>1. HandleInv(f)
        BY <1>2 DEF Inv
      <3>2. /\ ~handle'[f].open /\ handle'[f].first = 0 /\ handle'[f].cur = 0
            /\ handle'[f].pos = 0 /\ handle'[f].size = 0
        BY <1>12 DEF NoHandle
      <3>3. Dir(vol', f).size = Dir(vol, f).size /\ Dir(vol', f).first = Dir(vol, f).first
        BY <1>2, <1>7, <1>9
      <3> QED BY <2>1, <3>1, <3>2, <3>3 DEF HandleInv, EntryInv
    <2>2. CASE g # f
      BY <1>1, <1>9, <1>10, <1>12, <2>2 DEF Inv, HandleInv, EntryInv, Untold, InWrite
    <2> QED BY <2>1, <2>2
  <1>16. Linked'
    <2>0. PICK own, rank : Owns(own, rank) /\ (Aligned => Measured(own, rank))
      BY DEF Inv, Linked
    <2>1. ChainsOf(Table, Starts, UsedFiles, own, rank)
      BY <2>0 DEF Owns
    <2>2. PICK e, e2, s, s2 : e = Table /\ e2 = Table' /\ s = Starts /\ s2 = Starts'
      OBVIOUS
    <2>3. PICK U \in SUBSET Files, V \in SUBSET Files : U = UsedFiles /\ V = UsedFiles'
      BY <1>10 DEF UsedFiles
    <2>4. \A d \in Clusters : e2[d] = e[d]
      BY <1>9, <2>2, Marks DEF Table
    <2>5. s[f] \notin Clusters
      BY <1>1, <1>2, <2>2, Marks DEF Starts, Start
    <2>6. \A g \in U \cap V : s2[g] = s[g]
      <3> TAKE g \in U \cap V
      <3>1. g \in Files /\ g # f
        BY <1>10, <2>3
      <3>2. Start(g)' = Start(g)
        BY <1>1, <1>9, <1>12, <3>1 DEF Start
      <3> QED BY <2>2, <3>1, <3>2 DEF Starts
    <2>7. ChainsOf(e2, s2, V, own, rank)
      BY <1>10, <2>1, <2>2, <2>3, <2>4, <2>5, <2>6, FilesChange
    <2>8. ASSUME Measured(own, rank), NEW g \in UsedFiles'
          PROVE  Covers(own, rank, g, Starts'[g], Reach(g)')
      <3>1. g \in UsedFiles /\ g \in Files /\ g # f
        BY <1>10 DEF UsedFiles
      <3>2. Reach(g)' = Reach(g) /\ ~Unlinking(g)
        BY <1>1, <1>9, <1>12, <3>1 DEF Reach, Size, InWrite, Unlinking
      <3>3. Starts'[g] = Starts[g]
        BY <1>10, <2>2, <2>3, <2>6, <3>1
      <3> QED BY <2>8, <3>1, <3>2, <3>3 DEF Measured
    <2>9. Owns(own, rank)' /\ (Aligned => Measured(own, rank)')
      BY <1>1, <2>0, <2>2, <2>3, <2>7, <2>8 DEF Owns, Measured, InWrite
    <2> QED BY <2>9 DEF Linked, Aligned
  <1> QED BY <1>9, <1>13, <1>14, <1>15, <1>16 DEF Inv

-----------------------------------------------------------------------------
(* Positions, sectors and clusters *)

LEMMA DividedBy ==
  ASSUME NEW n \in Nat \ {0}, NEW q \in Nat, NEW r \in 0 .. n - 1
  PROVE  (n * q + r) \div n = q /\ (n * q + r) % n = r
PROOF OBVIOUS

LEMMA ClusterHolds ==
  /\ ClusterSize \in Nat \ {0} /\ ClusterSize = BytesPerSector * SectorsPerCluster
  /\ SectorsPerCluster \in Nat \ {0} /\ BytesPerSector \in Nat \ {0}
PROOF
  BY Regions DEF ClusterSize

(* Byte o of sector j of the r-th cluster of a file.                         *)
LEMMA PlaceInCluster ==
  ASSUME NEW r \in Nat, NEW j \in 0 .. SectorsPerCluster - 1, NEW o \in 0 .. BytesPerSector - 1,
         NEW p, p = r * ClusterSize + j * BytesPerSector + o
  PROVE  /\ p \in Nat /\ p % BytesPerSector = o
         /\ p - o + BytesPerSector = r * ClusterSize + (j + 1) * BytesPerSector
         /\ j < SectorsPerCluster - 1 =>
              p - o + BytesPerSector <= (r + 1) * ClusterSize
         /\ j = SectorsPerCluster - 1 => p - o + BytesPerSector = (r + 1) * ClusterSize
PROOF
  <1> DEFINE b == BytesPerSector  n == SectorsPerCluster
  <1>1. b \in Nat \ {0} /\ n \in Nat \ {0} /\ ClusterSize = b * n /\ ClusterSize \in Nat
    BY ClusterHolds
  <1>2. j \in Nat /\ o \in Nat /\ j < n
    BY <1>1
  <1> HIDE DEF b, n
  <1>3. PICK q \in Nat : q = r * n + j
    BY <1>1, <1>2
  <1>4. r * (b * n) + j * b = b * (r * n + j)
    BY <1>1, <1>2
  <1>5. p = b * q + o
    <2>1. p = r * (b * n) + j * b + o
      BY <1>1 DEF b
    <2> QED BY <1>3, <1>4, <2>1
  <1>6. p % b = o /\ p \in Nat
    <2>1. o \in 0 .. b - 1
      BY DEF b
    <2>2. (b * q + o) % b = o
      BY <1>1, <2>1, DividedBy
    <2> QED BY <1>1, <1>2, <1>5, <2>2
  <1>7. (j + 1) * b = j * b + b /\ (r + 1) * ClusterSize = r * ClusterSize + b * n
        /\ r * ClusterSize \in Nat /\ j * b \in Nat
    BY <1>1, <1>2
  <1>8. p - o + b = r * ClusterSize + j * b + b
    <2>1. p = r * ClusterSize + j * b + o
      BY DEF b
    <2> QED BY <1>1, <1>2, <1>7, <2>1
  <1>9. j < n - 1 => j * b + b <= b * n
    <2> SUFFICES ASSUME j < n - 1 PROVE j * b + b <= b * n
      OBVIOUS
    <2>1. PICK d \in Nat : n = j + 1 + d
      <3>1. n - j - 1 \in Nat /\ n = j + 1 + (n - j - 1)
        BY <1>1, <1>2
      <3> QED BY <3>1
    <2>2. b * n = j * b + b + d * b /\ d * b \in Nat
      BY <1>1, <1>2, <2>1
    <2> QED BY <1>1, <1>7, <2>2
  <1>10. j = n - 1 => j * b + b = b * n
    BY <1>1, <1>2
  <1>11. b * n \in Nat /\ p - o \in Int
    BY <1>1, <1>2, <1>6
  <1> QED BY <1>1, <1>6, <1>7, <1>8, <1>9, <1>10, <1>11 DEF b, n

(* Where a position is in its cluster.                                       *)
LEMMA PlaceOf ==
  ASSUME NEW p \in Nat
  PROVE  \E j \in 0 .. SectorsPerCluster - 1, o \in 0 .. BytesPerSector - 1 :
           /\ p = (p \div ClusterSize) * ClusterSize + j * BytesPerSector + o
           /\ (p \div BytesPerSector) % SectorsPerCluster = j
PROOF
  <1> DEFINE b == BytesPerSector  n == SectorsPerCluster  s == ClusterSize
  <1>1. b \in Nat \ {0} /\ n \in Nat \ {0} /\ s = n * b /\ s \in Nat \ {0}
    BY Regions DEF ClusterSize
  <1> HIDE DEF b, n, s
  <1>2. PICK q \in Nat, r \in 0 .. s - 1 : p = s * q + r /\ q = p \div s
    <2>1. p \div s \in Nat /\ p % s \in 0 .. s - 1 /\ p = (s * (p \div s)) + (p % s)
      BY <1>1
    <2> QED BY <2>1
  <1>3. PICK j \in Nat, o \in 0 .. b - 1 : r = b * j + o /\ j = r \div b
    <2>1. r \in Nat
      BY <1>1
    <2>2. r \div b \in Nat /\ r % b \in 0 .. b - 1 /\ r = (b * (r \div b)) + (r % b)
      BY <1>1, <2>1
    <2> QED BY <2>2
  <1>4. j \in 0 .. n - 1
    <2>1. r \in 0 .. n * b - 1
      BY <1>1
    <2> QED BY <1>1, <1>3, <2>1, InFirst
  <1>5. p = b * (n * q + j) + o /\ n * q + j \in Nat
    <2>1. (n * b) * q + b * j = b * (n * q + j) /\ n * q + j \in Nat
      BY <1>1, <1>3
    <2>2. PICK t \in Int, u \in Int, w \in Int :
            t = (n * b) * q /\ u = b * j /\ w = b * (n * q + j)
      BY <1>1, <1>3, <2>1
    <2>3. p = t + r
      BY <1>1, <1>2, <2>2
    <2>4. r = u + o
      BY <1>3, <2>2
    <2>5. t + u = w
      BY <2>1, <2>2
    <2>6. o \in Int
      BY <1>1
    <2>7. p = w + o
      BY <2>3, <2>4, <2>5, <2>6
    <2> QED BY <2>1, <2>2, <2>7
  <1>6. p \div b = n * q + j
    BY <1>1, <1>5, DividedBy
  <1>7. (n * q + j) % n = j
    BY <1>1, <1>4, DividedBy
  <1>8. p = q * s + j * b + o
    <2>1. s \in Int /\ q \in Int /\ b \in Int /\ j \in Int /\ o \in Int
      BY <1>1
    <2>2. s * q = q * s /\ b * j = j * b /\ q * s \in Int /\ j * b \in Int
      BY <2>1
    <2>3. p = q * s + r
      BY <1>2, <2>2
    <2>4. r = j * b + o
      BY <1>3, <2>2
    <2> QED BY <2>1, <2>2, <2>3, <2>4
  <1> QED BY <1>2, <1>3, <1>4, <1>6, <1>7, <1>8 DEF b, n, s

(* The test of write.c:236 where the first cluster begins at a multiple of   *)
(* the cluster size.                                                         *)
LEMMA LastSector ==
  ASSUME Aligned, NEW c \in Clusters, NEW j \in 0 .. SectorsPerCluster - 1
  PROVE  (FirstSector(c) + j + 1) % SectorsPerCluster = 0 <=> j = SectorsPerCluster - 1
PROOF
  <1> DEFINE n == SectorsPerCluster
  <1>1. n \in Nat \ {0} /\ FirstDataSector \in Nat /\ FirstDataSector % n = 0 /\ c \in Nat /\ c >= 2
    BY Regions, Marks DEF Aligned
  <1>0. FirstSector(c) = (c - 2) * n + FirstDataSector
    BY DEF FirstSector
  <1>2. j \in 0 .. n - 1
    OBVIOUS
  <1> HIDE DEF n
  <1>3. PICK d \in Nat : FirstDataSector = n * d
    <2>1. FirstDataSector \div n \in Nat
          /\ FirstDataSector = (n * (FirstDataSector \div n)) + (FirstDataSector % n)
      BY <1>1
    <2>2. n * (FirstDataSector \div n) \in Nat
      BY <1>1, <2>1
    <2>3. FirstDataSector = n * (FirstDataSector \div n)
      BY <1>1, <2>1, <2>2
    <2> QED BY <2>1, <2>3
  <1>4. PICK q \in Nat : FirstSector(c) = n * q
    <2>1. c - 2 + d \in Nat /\ (c - 2) * n + n * d = n * (c - 2 + d)
      BY <1>1
    <2> QED BY <1>0, <1>3, <2>1
  <1>5. CASE j = n - 1
    <2>1. FirstSector(c) + j + 1 = n * (q + 1) + 0
      <3>1. n * (q + 1) = n * q + n /\ n * q \in Nat
        BY <1>1
      <3> QED BY <1>1, <1>4, <1>5, <3>1
    <2>2. (n * (q + 1) + 0) % n = 0
      <3>1. q + 1 \in Nat /\ 0 \in 0 .. n - 1
        BY <1>1
      <3> QED BY <1>1, <3>1, DividedBy
    <2> QED BY <1>5, <2>1, <2>2 DEF n
  <1>6. CASE j # n - 1
    <2>1. j + 1 \in 0 .. n - 1 /\ j + 1 # 0
      BY <1>1, <1>2, <1>6
    <2>2. (n * q + (j + 1)) % n = j + 1
      BY <1>1, <2>1, DividedBy
    <2>3. FirstSector(c) + j + 1 = n * q + (j + 1)
      <3>1. n * q \in Nat
        BY <1>1
      <3> QED BY <1>1, <1>2, <1>4, <3>1
    <2> QED BY <1>6, <2>1, <2>2, <2>3 DEF n
  <1> QED BY <1>5, <1>6

-----------------------------------------------------------------------------
(* fat_write *)

(* The bytes of a call go to its sector of data, and the rest of that sector *)
(* is what it was.                                                           *)
Overlaid(m) ==
  LET offset == OffsetOf(handle[call.f])
  IN  [k \in 0 .. BytesPerSector - 1 |->
         IF k \in offset .. offset + Chunk - 1 THEN call.v + call.i + k - offset
                                               ELSE Content(vol, m)[k]]

LEMMA WrittenIs ==
  ASSUME Inv, Writing
  PROVE  /\ Written \in Media /\ call.sector \in Sectors
         /\ \A m \in Sectors : Content(Written, m) =
                               IF m = call.sector THEN Overlaid(m) ELSE Content(vol, m)
PROOF
  <1> DEFINE n == call.sector
             offset == OffsetOf(handle[call.f])
             read == IF Chunk < BytesPerSector THEN Get(vol, n) ELSE Flush(vol)
             buf == [k \in 0 .. BytesPerSector - 1 |->
                       IF k \in offset .. offset + Chunk - 1 THEN call.v + call.i + k - offset
                                                             ELSE read.buf[k]]
  <1>1. /\ vol \in Media /\ call.f \in Files /\ call.i < call.size /\ n \in DataSectors
        /\ call.v \in Nat /\ call.i \in Nat
    BY DEF Inv, Typed, Writing
  <1>2. /\ Chunk \in Nat \ {0} /\ offset \in 0 .. BytesPerSector - 1
        /\ offset + Chunk <= BytesPerSector /\ BytesPerSector \in Nat \ {0}
    BY <1>1, ChunkFits, Regions
  <1>3. n \in Sectors /\ Fits(n) = [0 .. BytesPerSector - 1 -> Int] /\ n \notin LastCopy
    BY <1>1, DataPlace
  <1>4. /\ read \in Media /\ Same(vol, read)
        /\ read.sector = n \/ ~read.dirty
        /\ Chunk < BytesPerSector => read.buf = Content(vol, n)
    <2>1. CASE Chunk < BytesPerSector
      <3>1. Fresh(vol) \/ vol.sector # n
        BY <1>1, <1>3, Trusted
      <3>2. /\ Get(vol, n) \in Media /\ Same(vol, Get(vol, n)) /\ Get(vol, n).sector = n
            /\ Get(vol, n).buf = Content(vol, n)
        BY <1>1, <1>3, <3>1, GetKeeps
      <3>3. read = Get(vol, n)
        BY <2>1
      <3> HIDE DEF read
      <3> QED BY <2>1, <3>2, <3>3
    <2>2. CASE ~(Chunk < BytesPerSector)
      <3>1. Flush(vol) \in Media /\ Same(vol, Flush(vol)) /\ ~Flush(vol).dirty
        BY <1>1, FlushKeeps
      <3> QED BY <2>2, <3>1
    <2> QED BY <2>1, <2>2
  <1>5. buf = Overlaid(n)
    <2> HIDE DEF read, offset
    <2>1. ASSUME NEW k \in 0 .. BytesPerSector - 1, k \notin offset .. offset + Chunk - 1
          PROVE  read.buf[k] = Content(vol, n)[k]
      <3>1. Chunk < BytesPerSector
        BY <1>2, <2>1
      <3> QED BY <1>4, <3>1
    <2>2. Overlaid(n) = [k \in 0 .. BytesPerSector - 1 |->
                           IF k \in offset .. offset + Chunk - 1 THEN call.v + call.i + k - offset
                                                                 ELSE Content(vol, n)[k]]
      BY DEF Overlaid, offset
    <2> QED BY <2>1, <2>2
  <1>6. Overlaid(n) \in Fits(n)
    <2> HIDE DEF read
    <2>1. Content(vol, n) \in [0 .. BytesPerSector - 1 -> Int]
      BY <1>1, <1>3, MediaParts
    <2>2. \A k \in 0 .. BytesPerSector - 1 : call.v + call.i + k - offset \in Int
      BY <1>1, <1>2
    <2> QED BY <1>3, <2>1, <2>2 DEF Overlaid
  <1>7. Written = Put(read, n, Overlaid(n))
    <2>1. Written = Put(read, n, buf)
      BY DEF Written
    <2> HIDE DEF read, buf
    <2> QED BY <1>5, <2>1
  <1> HIDE DEF read, buf
  <1>8. PICK u \in Media, b \in Fits(n) : u = read /\ b = Overlaid(n)
    BY <1>4, <1>6
  <1>9. u.sector = n \/ ~u.dirty
    BY <1>4, <1>8
  <1>10. /\ Put(u, n, b) \in Media
         /\ \A m \in Sectors : Content(Put(u, n, b), m) = IF m = n THEN b ELSE Content(u, m)
    BY <1>3, <1>9, PutWrites
  <1>11. \A m \in Sectors : Content(u, m) = Content(vol, m)
    BY <1>4, <1>8 DEF Same
  <1>12. Written = Put(u, n, b)
    BY <1>7, <1>8
  <1> HIDE DEF n
  <1>13. \A m \in Sectors : Content(Written, m) = IF m = n THEN Overlaid(m) ELSE Content(vol, m)
    BY <1>8, <1>10, <1>11, <1>12
  <1> QED BY <1>3, <1>10, <1>12, <1>13 DEF n

LEMMA WrittenStands ==
  ASSUME Inv, Writing
  PROVE  Written \in Media /\ Stands(vol, Written)
PROOF
  <1>1. PICK w \in Media : w = Written
    BY WrittenIs
  <1>2. call.sector \in DataSectors
    BY DEF Writing
  <1>3. \A m \in Sectors \ DataSectors : Content(w, m) = Content(vol, m)
    BY <1>1, <1>2, WrittenIs
  <1> QED BY <1>1, <1>3, DataStands

(* A file reaches further, within a cluster that it has.                     *)
LEMMA ReachGrows ==
  ASSUME NEW own, NEW rank, \A d \in Clusters : rank[d] \in Nat,
         NEW f, NEW first, NEW reach \in Nat, Covers(own, rank, f, first, reach),
         NEW c \in Clusters, own[c] = f, NEW p \in Nat, p <= (rank[c] + 1) * ClusterSize
  PROVE  Covers(own, rank, f, first, IF p > reach THEN p ELSE reach)
PROOF
  <1>1. CASE p > reach
    <2>1. \A d \in Clusters : own[d] = f => rank[d] * ClusterSize <= p
      <3> TAKE d \in Clusters
      <3>1. rank[d] * ClusterSize \in Nat
        BY ClusterHolds
      <3>2. own[d] = f => rank[d] * ClusterSize <= reach
        BY DEF Covers
      <3> QED BY <1>1, <3>1, <3>2
    <2> QED BY <1>1, <2>1 DEF Covers
  <1>2. CASE ~(p > reach)
    BY <1>2
  <1> QED BY <1>1, <1>2

(* What fat_write has come to in a file that it leaves longer.               *)
LEMMA ReachOfWrite ==
  ASSUME Inv, InWrite, InWrite', NEW f \in Files, f = call.f, call'.f = f,
         handle'[f].open, handle'[f].size = handle[f].size,
         NEW p \in Nat, handle'[f].pos = p, p > handle[f].pos
  PROVE  Reach(f) \in Nat /\ Reach(f)' = IF p > Reach(f) THEN p ELSE Reach(f)
PROOF
  <1>1. handle[f].open /\ handle[f].size \in Nat /\ handle[f].pos \in Nat
    BY HandleParts DEF Inv, CallInv
  <1>2. Reach(f) = IF handle[f].pos > handle[f].size THEN handle[f].pos ELSE handle[f].size
    BY <1>1 DEF Reach, Size
  <1>3. Reach(f)' = IF p > handle[f].size THEN p ELSE handle[f].size
    BY DEF Reach, Size
  <1> QED BY <1>1, <1>2, <1>3

(* The place in its sector that fat_write is at, by its test of what is left *)
(* of the sector.                                                            *)
LEMMA WritePlace ==
  ASSUME Inv, Writing, NEW own, NEW rank, Owns(own, rank), Measured(own, rank)
  PROVE  /\ rank[handle[call.f].cur] \in Nat /\ own[handle[call.f].cur] = call.f
         /\ \E j \in 0 .. SectorsPerCluster - 1, o \in 0 .. BytesPerSector - 1 :
              /\ handle[call.f].pos =
                   rank[handle[call.f].cur] * ClusterSize + j * BytesPerSector + o
              /\ call.sector = FirstSector(handle[call.f].cur) + j
              /\ OffsetOf(handle[call.f]) = o
PROOF
  <1>1. pc = "write" /\ InWrite
    BY DEF Writing, InWrite
  <1>2. PICK x : x = handle[call.f] /\ x.cur \in Clusters
    BY <1>1 DEF Inv, CallInv
  <1>3. rank[x.cur] \in Nat /\ own[x.cur] = call.f
    BY <1>1, <1>2 DEF Owns, ChainsOf
  <1>4. InPlace(rank, x, call.sector)
    BY <1>1, <1>2 DEF Measured
  <1>5. PICK j \in 0 .. SectorsPerCluster - 1, o \in 0 .. BytesPerSector - 1 :
          /\ x.pos = rank[x.cur] * ClusterSize + j * BytesPerSector + o
          /\ call.sector = FirstSector(x.cur) + j
    BY <1>4 DEF InPlace
  <1>6. OffsetOf(x) = o
    BY <1>3, <1>5, PlaceInCluster DEF OffsetOf
  <1> QED BY <1>2, <1>3, <1>5, <1>6

LEMMA SectorMeasured ==
  ASSUME Inv, WriteSector, Stands(vol, vol')
  PROVE  MeasureKept
PROOF
  <1>1. /\ pc = "write" /\ pc' = pc /\ Writing /\ ~ClusterEnds /\ InWrite /\ InWrite'
        /\ call.i < call.size
    BY DEF WriteSector, Writing, InWrite
  <1>2. PICK f \in Files, x \in Handles : f = call.f /\ x = handle[call.f]
    BY <1>1 DEF Inv, Typed
  <1>3. /\ handle \in [Files -> Handles] /\ x.open /\ x.cur \in Clusters
        /\ x.pos \in Nat /\ x.size \in Nat
    BY <1>1, <1>2, HandleParts DEF Inv, Typed, CallInv
  <1>4. PICK chunk \in Nat \ {0} : chunk = Chunk /\ OffsetOf(x) + chunk <= BytesPerSector
    BY <1>1, <1>2, ChunkFits
  <1>5. /\ handle' = [handle EXCEPT ![f] = [x EXCEPT !.pos = x.pos + chunk]]
        /\ call' = [call EXCEPT !.i = @ + chunk, !.sector = IF SectorEnds THEN @ + 1 ELSE @]
    BY <1>2, <1>4 DEF WriteSector
  <1>6. PICK y \in Handles : y = [x EXCEPT !.pos = x.pos + chunk]
    <2>1. PICK p \in Nat : p = x.pos + chunk
      BY <1>3
    <2>2. [x EXCEPT !.pos = p] \in Handles
      BY DEF Handles
    <2> QED BY <2>1, <2>2
  <1>7. y.pos = x.pos + chunk /\ y.cur = x.cur /\ y.size = x.size /\ y.open
    BY <1>3, <1>6 DEF Handles
  <1>8. handle'[f] = y /\ \A g \in Files : g # f => handle'[g] = handle[g]
    BY <1>3, <1>5, <1>6
  <1>9. call'.f = f /\ call'.sector = IF SectorEnds THEN call.sector + 1 ELSE call.sector
    <2>1. call = [f |-> call.f, v |-> call.v, size |-> call.size, i |-> call.i,
                   sector |-> call.sector, start |-> call.start, out |-> call.out,
                   cluster |-> call.cluster]
      BY DEF Inv, Typed
    <2>2. PICK n, i : n = (IF SectorEnds THEN call.sector + 1 ELSE call.sector) /\ i = call.i + chunk
      OBVIOUS
    <2>3. call' = [call EXCEPT !.i = i, !.sector = n]
      BY <1>5, <2>2
    <2> QED BY <1>2, <2>1, <2>2, <2>3
  <1>10. SUFFICES ASSUME NEW own, NEW rank, Aligned, Owns(own, rank), Measured(own, rank)
                  PROVE  Measured(own, rank)'
    BY DEF MeasureKept
  <1>11. PICK r \in Nat, c \in Clusters, j \in 0 .. SectorsPerCluster - 1,
              o \in 0 .. BytesPerSector - 1 :
           /\ c = x.cur /\ r = rank[c] /\ own[c] = f
           /\ x.pos = r * ClusterSize + j * BytesPerSector + o
           /\ call.sector = FirstSector(c) + j /\ OffsetOf(x) = o
    BY <1>1, <1>2, <1>3, <1>10, WritePlace
  <1>12. o + chunk <= BytesPerSector /\ (SectorEnds <=> o + chunk = BytesPerSector)
    BY <1>2, <1>4, <1>11 DEF SectorEnds
  <1>13. FirstSector(c) \in Int /\ j \in Nat /\ o \in Nat /\ BytesPerSector \in Nat
         /\ SectorsPerCluster \in Nat /\ ClusterSize \in Nat
    BY ClusterHolds, Regions, Marks DEF FirstSector
  <1>14. SectorEnds => j < SectorsPerCluster - 1
    <2> SUFFICES ASSUME SectorEnds PROVE j < SectorsPerCluster - 1
      OBVIOUS
    <2>1. (FirstSector(c) + j + 1) % SectorsPerCluster # 0
      BY <1>1, <1>11 DEF ClusterEnds
    <2>2. j # SectorsPerCluster - 1
      BY <1>10, <2>1, LastSector
    <2> QED BY <1>13, <2>2
  <1>15. /\ x.pos - o + BytesPerSector = r * ClusterSize + (j + 1) * BytesPerSector
         /\ x.pos - o + BytesPerSector <= (r + 1) * ClusterSize
    <2>1. j = SectorsPerCluster - 1 \/ j < SectorsPerCluster - 1
      BY <1>13
    <2>2. (r + 1) * ClusterSize \in Nat
      BY <1>13
    <2> QED BY <1>11, <2>1, <2>2, PlaceInCluster
  <1>16. InPlace(rank, y, call'.sector)
    <2>1. CASE SectorEnds
      <3>1. j + 1 \in 0 .. SectorsPerCluster - 1 /\ 0 \in 0 .. BytesPerSector - 1
        BY <1>13, <1>14, <2>1, ClusterHolds
      <3>2. y.pos = r * ClusterSize + (j + 1) * BytesPerSector + 0
        <4>1. y.pos = x.pos - o + BytesPerSector
          BY <1>3, <1>7, <1>12, <1>13, <2>1
        <4>2. r * ClusterSize + (j + 1) * BytesPerSector \in Nat
          BY <1>13
        <4> QED BY <1>15, <4>1, <4>2
      <3>3. call'.sector = FirstSector(c) + (j + 1)
        BY <1>9, <1>11, <1>13, <2>1
      <3> QED BY <1>7, <1>11, <3>1, <3>2, <3>3 DEF InPlace
    <2>2. CASE ~SectorEnds
      <3>1. o + chunk \in 0 .. BytesPerSector - 1
        BY <1>12, <1>13, <2>2
      <3>2. y.pos = r * ClusterSize + j * BytesPerSector + (o + chunk)
        <4>1. r * ClusterSize \in Nat /\ j * BytesPerSector \in Nat
          BY <1>13
        <4> QED BY <1>7, <1>11, <1>13, <4>1
      <3>3. call'.sector = FirstSector(c) + j
        BY <1>9, <1>11, <2>2
      <3> QED BY <1>7, <1>11, <3>1, <3>2, <3>3 DEF InPlace
    <2> QED BY <2>1, <2>2
  <1>17. y.pos \in Nat /\ y.pos > x.pos /\ y.pos <= (r + 1) * ClusterSize
    <2>1. (r + 1) * ClusterSize \in Nat
      BY <1>13
    <2> QED BY <1>3, <1>7, <1>12, <1>13, <1>15, <2>1
  <1>18. Reach(f) \in Nat /\ Reach(f)' = IF y.pos > Reach(f) THEN y.pos ELSE Reach(f)
    BY <1>1, <1>2, <1>7, <1>8, <1>9, <1>17, ReachOfWrite
  <1>19. \A g \in Files : Dir(vol', g) = Dir(vol, g)
    BY DEF Stands
  <1>20. UsedFiles' = UsedFiles
    BY <1>19 DEF UsedFiles
  <1>21. ASSUME NEW g \in UsedFiles PROVE Covers(own, rank, g, Starts'[g], Reach(g)')
    <2>1. g \in Files /\ ~Unlinking(g)
      BY <1>1 DEF UsedFiles, Unlinking
    <2>2. Covers(own, rank, g, Starts[g], Reach(g))
      BY <1>10, <2>1 DEF Measured
    <2>3. Starts'[g] = Starts[g]
      <3>1. handle'[g].open = handle[g].open /\ handle'[g].first = handle[g].first
        <4>1. y.first = x.first /\ y.open = x.open
          BY <1>6 DEF Handles
        <4> QED BY <1>2, <1>8, <2>1, <4>1
      <3> QED BY <1>1, <1>19, <2>1, <3>1 DEF Starts, Start
    <2>4. CASE g = f
      <3>1. \A d \in Clusters : rank[d] \in Nat
        BY <1>10 DEF Owns, ChainsOf
      <3> QED BY <1>11, <1>17, <1>18, <2>2, <2>3, <2>4, <3>1, ReachGrows
    <2>5. CASE g # f
      <3>1. Reach(g)' = Reach(g)
        BY <1>2, <1>8, <1>9, <1>19, <2>1, <2>5 DEF Reach, Size
      <3> QED BY <2>2, <2>3, <3>1
    <2> QED BY <2>4, <2>5
  <1> QED BY <1>8, <1>9, <1>16, <1>20, <1>21 DEF Measured

LEMMA WriteSectorStep ==
  ASSUME Inv, WriteSector
  PROVE  Inv'
PROOF
  <1> DEFINE f == call.f
             x == handle[call.f]
             y == [handle[call.f] EXCEPT !.pos = @ + Chunk]
             sector == IF SectorEnds THEN call.sector + 1 ELSE call.sector
  <1>1. /\ pc = "write" /\ pc' = pc /\ call.i < call.size /\ call.sector \in DataSectors
        /\ vol' = Written /\ Writing
        /\ handle' = [handle EXCEPT ![call.f].pos = @ + Chunk]
        /\ call' = [call EXCEPT !.i = @ + Chunk, !.sector = IF SectorEnds THEN @ + 1 ELSE @]
    BY DEF WriteSector, Writing
  <1>2. /\ f \in Files /\ handle \in [Files -> Handles]
        /\ call = [f |-> call.f, v |-> call.v, size |-> call.size, i |-> call.i,
                   sector |-> call.sector, start |-> call.start, out |-> call.out,
                   cluster |-> call.cluster]
        /\ call.v \in Nat /\ call.size \in Int /\ call.i \in Nat /\ call.sector \in Int
        /\ call.cluster \in Nat
        /\ x.open /\ x.first # 0 /\ x.cur \in Clusters /\ f # HostFile /\ x \in Handles
    BY <1>1 DEF Inv, Typed, CallInv, InWrite
  <1>3. Chunk \in Nat \ {0} /\ x.pos \in Nat
    BY <1>1, <1>2, ChunkFits DEF Handles
  <1>4. vol' \in Media /\ Stands(vol, vol')
    BY <1>1, WrittenStands
  <1>5. /\ y \in Handles /\ y.open = x.open /\ y.async = x.async /\ y.first = x.first
        /\ y.size = x.size /\ y.pos > 0 /\ y.cur = x.cur
    <2>1. PICK p \in Nat : p = x.pos + Chunk /\ p > 0
      BY <1>3
    <2>2. PICK z \in Handles : z = x
      BY <1>2
    <2>3. y = [z EXCEPT !.pos = p]
      BY <2>1, <2>2
    <2> HIDE DEF y
    <2> QED BY <2>1, <2>2, <2>3 DEF Handles
  <1>6. handle' = [handle EXCEPT ![call.f] = y]
    BY <1>1, <1>2
  <1> HIDE DEF y
  <1>7. /\ handle' \in [Files -> Handles] /\ handle'[f] = y
        /\ \A g \in Files : g # f => handle'[g] = handle[g]
    BY <1>2, <1>5, <1>6
  <1>8. call' = [f |-> call.f, v |-> call.v, size |-> call.size, i |-> call.i + Chunk,
                 sector |-> sector, start |-> call.start, out |-> call.out,
                 cluster |-> call.cluster]
    BY <1>1, <1>2
  <1>9. sector \in Int
    BY <1>2
  <1> HIDE DEF sector
  <1>10. /\ call'.f = call.f /\ call'.v = call.v /\ call'.size = call.size
         /\ call'.i = call.i + Chunk /\ call'.cluster = call.cluster /\ call'.sector = sector
         /\ call' = [f |-> call'.f, v |-> call'.v, size |-> call'.size, i |-> call'.i,
                    sector |-> call'.sector, start |-> call'.start, out |-> call'.out,
                    cluster |-> call'.cluster]
    BY <1>8
  <1>11. Typed'
    BY <1>1, <1>2, <1>3, <1>4, <1>7, <1>9, <1>10 DEF Typed
  <1>12. CallInv'
    BY <1>1, <1>2, <1>5, <1>7, <1>10 DEF CallInv, InWrite
  <1>13. \A g \in Files : /\ handle'[g].open = handle[g].open /\ handle'[g].async = handle[g].async
                          /\ handle'[g].first = handle[g].first /\ handle'[g].size = handle[g].size
                          /\ handle'[g].first = 0 => handle'[g].cur = 0 /\ handle'[g].pos = 0
                          /\ Untold(g) => Untold(g)'
    <2> TAKE g \in Files
    <2>1. CASE g = f
      <3>1. /\ handle'[g].open = handle[g].open /\ handle'[g].async = handle[g].async
            /\ handle'[g].first = handle[g].first /\ handle'[g].size = handle[g].size
            /\ handle'[g].first # 0 /\ handle'[g].pos > 0
        BY <1>2, <1>3, <1>5, <1>7, <2>1
      <3>2. Untold(g) => Untold(g)'
        BY <1>1, <1>10, <3>1 DEF Untold, InWrite
      <3> QED BY <3>1, <3>2
    <2>2. CASE g # f
      BY <1>7, <2>2 DEF Inv, HandleInv, Untold
    <2> QED BY <2>1, <2>2
  <1>14. InWrite' /\ InWrite /\ call'.f = call.f /\ handle'[call.f].cur = handle[call.f].cur
    BY <1>1, <1>5, <1>7, <1>10 DEF InWrite
  <1>15. MeasureKept
    BY <1>4, SectorMeasured
  <1> QED BY <1>1, <1>4, <1>11, <1>12, <1>13, <1>14, <1>15, QuietStep

LEMMA WriteDoneStep ==
  ASSUME Inv, WriteDone
  PROVE  Inv'
PROOF
  <1>1. pc \in {"write", "written"} /\ pc' = "idle" /\ call' = NoCall
    BY DEF WriteDone
  <1>2. PICK f \in Files : f = call.f
    BY <1>1 DEF Inv, Typed
  <1>3. pc = "write" => ~(call.i < call.size)
    <2>1. call.i \in Nat /\ call.size \in Int
      BY DEF Inv, Typed
    <2> QED BY <2>1 DEF WriteDone
  <1> DEFINE x == [handle[f] EXCEPT !.size = IF @ < handle[f].pos THEN handle[f].pos ELSE @]
  <1>4. /\ handle' = [handle EXCEPT ![f] = x]
         /\ vol' = IF x.size # handle[f].size /\ ~x.async THEN FileSync(vol, f, x) ELSE vol
    BY <1>2 DEF WriteDone
  <1>5. /\ f \in Files /\ handle \in [Files -> Handles] /\ vol \in Media /\ Agree(vol)
        /\ handle[f].open /\ handle[f].first # 0 /\ handle[f] \in Handles
    BY <1>1, <1>2 DEF Inv, Typed, CallInv, InWrite
  <1>6. /\ x \in Handles /\ x.open = handle[f].open /\ x.async = handle[f].async
        /\ x.first = handle[f].first /\ x.cur = handle[f].cur /\ x.pos = handle[f].pos
        /\ x.size \in Nat /\ x.first \in {0} \cup Clusters
        /\ x.size = IF handle[f].size < handle[f].pos THEN handle[f].pos ELSE handle[f].size
    BY <1>5 DEF Handles
  <1> HIDE DEF x
  <1>7. /\ handle' \in [Files -> Handles] /\ handle'[f] = x
        /\ \A g \in Files : g # f => handle'[g] = handle[g]
    BY <1>4, <1>5, <1>6
  <1>8. /\ vol' \in Media /\ Agree(vol') /\ \A c \in FatIndex : Ent(vol', c) = Ent(vol, c)
        /\ \A g \in Files : g # f => Dir(vol', g) = Dir(vol, g)
        /\ \/ Dir(vol', f).size = x.size /\ Dir(vol', f).first = x.first
           \/ Dir(vol', f) = Dir(vol, f) /\ (x.async \/ x.size = handle[f].size)
        /\ UsedFiles' = UsedFiles
    <2>1. CASE x.size # handle[f].size /\ ~x.async
      BY <1>4, <1>5, <1>6, <2>1, Told
    <2>2. CASE ~(x.size # handle[f].size /\ ~x.async)
      <3>1. vol' = vol
        BY <1>4, <2>2
      <3> QED BY <1>5, <2>2, <3>1 DEF UsedFiles
    <2> QED BY <2>1, <2>2
  <1>9. Typed'
    BY <1>1, <1>7, <1>8 DEF Typed, NoCall
  <1>10. CallInv'
    BY <1>1 DEF CallInv, InWrite
  <1>11. \A g \in Files : HandleInv(g)' /\ EntryInv(g)'
    <2> TAKE g \in Files
    <2>1. CASE g = f
      <3>1. HandleInv(f) /\ EntryInv(f)
        BY <1>5 DEF Inv
      <3>2. HandleInv(f)'
        BY <1>5, <1>6, <1>7, <1>8, <3>1 DEF HandleInv
      <3>3. x.size = handle[f].size => ~Untold(f)
        <4>1. handle[f].size \in Nat /\ handle[f].pos \in Nat
          BY <1>5 DEF Handles
        <4> QED BY <1>3, <1>1, <1>2, <1>6, <4>1 DEF Untold
      <3>4. EntryInv(f)'
        BY <1>6, <1>7, <1>8, <3>1, <3>3 DEF EntryInv
      <3> QED BY <2>1, <3>2, <3>4
    <2>2. CASE g # f
      BY <1>1, <1>2, <1>7, <1>8, <2>2 DEF Inv, HandleInv, EntryInv, Untold, InWrite
    <2> QED BY <2>1, <2>2
  <1>12. \A g \in UsedFiles : Start(g)' = Start(g)
    <2> TAKE g \in UsedFiles
    <2>1. g \in Files
      BY DEF UsedFiles
    <2> QED BY <1>1, <1>5, <1>6, <1>7, <1>8, <2>1 DEF Start
  <1>14. MeasureKept
    <2>1. \A g \in UsedFiles : Reach(g)' = Reach(g)
      <3> TAKE g \in UsedFiles
      <3>1. g \in Files
        BY DEF UsedFiles
      <3>2. CASE g = f
        <4>1. Reach(f)' = x.size
          BY <1>1, <1>5, <1>6, <1>7 DEF Reach, Size, InWrite
        <4>2. Reach(f) = IF handle[f].pos > handle[f].size THEN handle[f].pos ELSE handle[f].size
          BY <1>1, <1>2, <1>5 DEF Reach, Size, InWrite
        <4>3. handle[f].pos \in Nat /\ handle[f].size \in Nat
          BY <1>5 DEF Handles
        <4> QED BY <1>6, <3>2, <4>1, <4>2, <4>3
      <3>3. CASE g # f
        BY <1>1, <1>2, <1>7, <1>8, <3>1, <3>3 DEF Reach, Size, InWrite
      <3> QED BY <3>2, <3>3
    <2>2. pc' # "write" /\ \A g \in Files : ~Unlinking(g)
      BY <1>1 DEF Unlinking
    <2> QED BY <1>8, <1>12, <2>1, <2>2, MeasureStands
  <1>13. Linked'
    BY <1>1, <1>8, <1>12, <1>14, LinkedStands DEF Inv, InWrite
  <1> QED BY <1>8, <1>9, <1>10, <1>11, <1>13 DEF Inv

LEMMA SectorTyped ==
  ASSUME NEW x \in Handles
  PROVE  SectorOf(x) \in Int
PROOF
  <1>1. SectorsPerCluster \in Nat \ {0} /\ BytesPerSector \in Nat \ {0}
    BY Regions
  <1>2. x.pos \in Nat /\ x.cur \in Int
    BY DEF Handles
  <1>3. (x.pos \div BytesPerSector) \in Nat
    BY <1>1, <1>2
  <1>4. PICK j \in 0 .. SectorsPerCluster - 1 : j = (x.pos \div BytesPerSector) % SectorsPerCluster
    BY <1>1, <1>3
  <1>5. SectorOf(x) = FirstSector(x.cur) + j
    BY <1>4 DEF SectorOf
  <1> QED BY <1>2, <1>5, ClusterPlace

(* Where a careful caller writes is a cluster of the file.                   *)
LEMMA RoomOwned ==
  ASSUME Inv, Idle, NEW f \in Files, handle[f].open, HasRoom(f), handle[f].first # 0,
         NEW own, NEW rank, ChainsOf(Table, Starts, UsedFiles, own, rank)
  PROVE  handle[f].cur \in Clusters /\ own[handle[f].cur] = f
PROOF
  <1>1. PICK k \in 1 .. Length : handle[f].cur \in Clusters /\ handle[f].cur = Chain(f)[k]
    BY DEF HasRoom, Length
  <1>2. vol \in Media /\ Mirrored /\ f \in UsedFiles /\ UsedFiles \in SUBSET Files
    BY DEF Inv, Typed, HandleInv, UsedFiles
  <1>3. FirstOf(f) = Starts[f]
    BY DEF Starts, Start, FirstOf, Idle
  <1>4. PICK t : t = Chain(f) /\ Follows(t, Starts[f], Table)
    BY <1>2, <1>3, SeenChain
  <1>5. GoesThrough(t, own, f, Starts[f])
    BY <1>2, <1>4, ChainFollows
  <1> QED BY <1>1, <1>4, <1>5 DEF GoesThrough

(* A position is not beyond the end of the cluster it is in.                 *)
LEMMA WithinCluster ==
  ASSUME NEW rank, NEW x, NEW n, rank[x.cur] \in Nat, InPlace(rank, x, n)
  PROVE  x.pos \in Nat /\ x.pos <= (rank[x.cur] + 1) * ClusterSize
PROOF
  <1>1. PICK j \in 0 .. SectorsPerCluster - 1, o \in 0 .. BytesPerSector - 1 :
          x.pos = rank[x.cur] * ClusterSize + j * BytesPerSector + o
    BY DEF InPlace
  <1>2. j < SectorsPerCluster - 1 \/ j = SectorsPerCluster - 1
    BY ClusterHolds
  <1>3. /\ x.pos \in Nat
        /\ j < SectorsPerCluster - 1 =>
             x.pos - o + BytesPerSector <= (rank[x.cur] + 1) * ClusterSize
        /\ j = SectorsPerCluster - 1 =>
             x.pos - o + BytesPerSector = (rank[x.cur] + 1) * ClusterSize
    BY <1>1, PlaceInCluster
  <1>4. (rank[x.cur] + 1) * ClusterSize \in Nat /\ o < BytesPerSector /\ o \in Nat
        /\ BytesPerSector \in Nat
    BY ClusterHolds
  <1> QED BY <1>2, <1>3, <1>4

(* Where a careful caller writes is where the position of his handle is.     *)
LEMMA RoomInPlace ==
  ASSUME Inv, Idle, NEW f \in Files, handle[f].open, HasRoom(f), handle[f].first # 0,
         NEW own, NEW rank, Owns(own, rank), Measured(own, rank)
  PROVE  InPlace(rank, handle[f], SectorOf(handle[f]))
PROOF
  <1>1. PICK x \in Handles : x = handle[f] /\ x.first \in Clusters /\ x.pos \in Nat
    BY DEF Inv, Typed, Handles
  <1>2. PICK k \in 1 .. Length : /\ k = 1 + x.pos \div ClusterSize
                                /\ x.cur \in Clusters /\ x.cur = Chain(f)[k]
    BY <1>1 DEF HasRoom, Length
  <1>3. vol \in Media /\ Mirrored /\ f \in UsedFiles /\ UsedFiles \in SUBSET Files
    BY DEF Inv, Typed, HandleInv, UsedFiles
  <1>4. FirstOf(f) = Starts[f] /\ Starts[f] = x.first
    BY <1>1 DEF Starts, Start, FirstOf, Idle
  <1>5. PICK t : t = Chain(f) /\ Follows(t, Starts[f], Table)
    BY <1>3, <1>4, SeenChain
  <1>6. ChainsOf(Table, Starts, UsedFiles, own, rank)
    BY DEF Owns
  <1>7. rank[x.cur] = rank[Starts[f]] + k - 1
    <2>1. \A i \in 1 .. Length : t[i] \in Clusters => rank[t[i]] = rank[Starts[f]] + i - 1
      <3>1. PICK e, s : e = Table /\ s = Starts
        OBVIOUS
      <3>2. ChainsOf(e, s, UsedFiles, own, rank) /\ Follows(t, s[f], e)
        BY <1>3, <1>5, <1>6, <3>1
      <3>3. \A i \in 1 .. Length :
              t[i] \in Clusters => /\ own[t[i]] = f /\ rank[t[i]] = rank[s[f]] + i - 1
                                   /\ \A h \in 1 .. i : t[h] \in Clusters
        BY <1>3, <3>2, StaysOwned
      <3> QED BY <3>1, <3>3
    <2> QED BY <1>2, <1>5, <2>1
  <1>8. rank[Starts[f]] = 0
    <2>1. ~Unlinking(f)
      BY DEF Unlinking, Idle
    <2>2. Covers(own, rank, f, Starts[f], Reach(f))
      BY <1>3, <2>1 DEF Measured
    <2> QED BY <1>1, <1>4, <2>2 DEF Covers
  <1>9. PICK q \in Nat : q = x.pos \div ClusterSize
    BY <1>1, ClusterHolds
  <1>10. rank[x.cur] = q
    BY <1>2, <1>7, <1>8, <1>9
  <1>11. PICK j \in 0 .. SectorsPerCluster - 1, o \in 0 .. BytesPerSector - 1 :
           /\ x.pos = q * ClusterSize + j * BytesPerSector + o
           /\ (x.pos \div BytesPerSector) % SectorsPerCluster = j
    BY <1>1, <1>9, PlaceOf
  <1>12. SectorOf(x) = FirstSector(x.cur) + j
    BY <1>11 DEF SectorOf
  <1> QED BY <1>1, <1>10, <1>11, <1>12 DEF InPlace

(* fat_write starts in a file that has a cluster, ...                        *)
LEMMA WriteOnStep ==
  ASSUME Inv, Idle, NEW f \in Files, NEW v \in Values, NEW n \in WriteSizes,
         f # HostFile, HasRoom(f), handle[f].open, handle[f].cur # 0,
         pc' = "write", vol' = vol, handle' = handle,
         call' = [f |-> f, v |-> v, size |-> n, i |-> 0, sector |-> SectorOf(handle[f]),
                  start |-> 0, out |-> <<>>, cluster |-> 0]
  PROVE  Inv'
PROOF
  <1>1. /\ vol \in Media /\ Agree(vol) /\ handle[f] \in Handles /\ pc = "idle"
        /\ handle[f].first # 0 /\ v \in Nat /\ n \in Int
    BY HandleParts, FatVolumeAssumption DEF Inv, HandleInv, Idle
  <1>2. PICK m \in Int : m = SectorOf(handle[f])
    BY <1>1, SectorTyped
  <1>3. call' = [f |-> f, v |-> v, size |-> n, i |-> 0, sector |-> m, start |-> 0,
                 out |-> <<>>, cluster |-> 0]
    BY <1>2
  <1>4. Typed'
    <2>1. /\ call'.f = f /\ call'.v = v /\ call'.size = n /\ call'.i = 0 /\ call'.sector = m
          /\ call'.cluster = 0
          /\ call' = [f |-> call'.f, v |-> call'.v, size |-> call'.size, i |-> call'.i,
                      sector |-> call'.sector, start |-> call'.start, out |-> call'.out,
                      cluster |-> call'.cluster]
      BY <1>3
    <2>2. handle' \in [Files -> Handles]
      BY DEF Inv, Typed
    <2> QED BY <1>1, <2>1, <2>2 DEF Typed
  <1>5. PICK own, rank : Owns(own, rank) /\ (Aligned => Measured(own, rank))
    BY DEF Inv, Linked
  <1>6. handle[f].cur \in Clusters /\ own[handle[f].cur] = f
    BY <1>1, <1>5, RoomOwned DEF Owns
  <1>7. call'.f = f
    BY <1>3
  <1>8. CallInv'
    BY <1>1, <1>6, <1>7 DEF CallInv, InWrite
  <1>9. UsedFiles' = UsedFiles /\ UsedFiles \in SUBSET Files
    BY DEF UsedFiles
  <1>10. \A g \in Files : HandleInv(g)' /\ EntryInv(g)'
    BY <1>1, <1>9 DEF Inv, HandleInv, EntryInv, Untold, InWrite
  <1>11. Table' = Table /\ Starts' = Starts
    <2>1. Table' = Table
      BY DEF Table
    <2>2. \A g \in Files : Start(g)' = Start(g)
      BY <1>1 DEF Start
    <2> QED BY <2>1, <2>2 DEF Starts
  <1>12. Owns(own, rank)'
    <2>1. handle'[call'.f].cur = handle[f].cur
      BY <1>7
    <2> QED BY <1>5, <1>6, <1>7, <1>9, <1>11, <2>1 DEF Owns
  <1>13. ASSUME Aligned PROVE Measured(own, rank)'
    <2>1. InPlace(rank, handle[f], m)
      BY <1>1, <1>2, <1>5, <1>13, RoomInPlace
    <2>2. InPlace(rank, handle'[call'.f], call'.sector)
      BY <1>3, <1>7, <2>1
    <2>3. \A c \in Clusters : rank[c] \in Nat
      BY <1>5 DEF Owns, ChainsOf
    <2>4. PICK x \in Handles : x = handle[f] /\ x.size \in Nat
      BY <1>1 DEF Handles
    <2>5. x.pos \in Nat /\ x.pos <= (rank[x.cur] + 1) * ClusterSize
      BY <1>6, <2>1, <2>3, <2>4, WithinCluster
    <2>6. ASSUME NEW g \in UsedFiles PROVE Covers(own, rank, g, Starts[g], Reach(g)')
      <3>1. ~Unlinking(g)
        BY <1>1 DEF Unlinking
      <3>2. Covers(own, rank, g, Starts[g], Reach(g))
        BY <1>5, <1>13, <3>1 DEF Measured
      <3>3. g # f => Reach(g)' = Reach(g)
        BY <1>1, <1>7 DEF Reach, Size, InWrite
      <3>4. Reach(f) = x.size
        BY <1>1, <2>4 DEF Reach, Size, InWrite
      <3>5. Reach(f)' = IF x.pos > x.size THEN x.pos ELSE x.size
        BY <1>7, <2>4 DEF Reach, Size, InWrite
      <3>6. CASE g = f
        <4>1. Covers(own, rank, g, Starts[g], IF x.pos > x.size THEN x.pos ELSE x.size)
          BY <1>6, <2>3, <2>4, <2>5, <3>2, <3>4, <3>6, ReachGrows
        <4> QED BY <3>5, <3>6, <4>1
      <3> QED BY <3>2, <3>3, <3>6
    <2> QED BY <1>9, <1>11, <2>2, <2>6 DEF Measured
  <1>14. Linked'
    BY <1>12, <1>13 DEF Linked, Aligned
  <1> QED BY <1>1, <1>4, <1>8, <1>10, <1>14 DEF Inv

(* A cluster that one file gets is none of the others'.                      *)
LEMMA CoversOther ==
  ASSUME NEW own, NEW rank, NEW own2, NEW rank2, NEW a \in Clusters, NEW f, NEW r,
         Joined(own, rank, own2, rank2, a, f, r), own[a] = 0,
         NEW g \in Files, g # f, NEW first, first \in Clusters => own[first] = g,
         NEW reach, Covers(own, rank, g, first, reach)
  PROVE  Covers(own2, rank2, g, first, reach)
PROOF
  <1>1. g # 0
    BY FilesNotZero
  <1>2. \A c \in Clusters : (own2[c] = g <=> own[c] = g) /\ (own[c] = g => rank2[c] = rank[c])
    BY <1>1 DEF Joined
  <1> QED BY <1>2 DEF Covers

(* The beginning of a cluster.                                               *)
LEMMA ClusterBegins ==
  ASSUME NEW rank, NEW x, rank[x.cur] \in Nat, x.pos = rank[x.cur] * ClusterSize,
         NEW n, n = FirstSector(x.cur), n \in Int
  PROVE  InPlace(rank, x, n)
PROOF
  <1>1. 0 \in 0 .. SectorsPerCluster - 1 /\ 0 \in 0 .. BytesPerSector - 1
    BY ClusterHolds
  <1>2. 0 * BytesPerSector = 0 /\ rank[x.cur] * ClusterSize \in Nat
    BY ClusterHolds
  <1>3. x.pos = rank[x.cur] * ClusterSize + 0 * BytesPerSector + 0
    BY <1>2
  <1>4. n = FirstSector(x.cur) + 0
    OBVIOUS
  <1> QED BY <1>1, <1>3, <1>4 DEF InPlace

LEMMA FirstOwned ==
  ASSUME Linked, NEW f \in UsedFiles, Starts[f] \notin Clusters,
         NEW a \in Clusters, Ent(vol, a) = 0,
         \A d \in FatIndex : Ent(vol', d) = IF d = a THEN Eoc ELSE Ent(vol, d),
         UsedFiles' = UsedFiles, \A g \in UsedFiles : Start(g)' = IF g = f THEN a ELSE Start(g),
         call'.f = f, handle'[f].cur = a, handle'[f].pos = 0, call'.sector = FirstSector(a),
         pc = "idle", Reach(f) = 0, \A g \in UsedFiles : Reach(g)' = Reach(g)
  PROVE  Linked'
PROOF
  <1>1. PICK own, rank : Owns(own, rank) /\ (Aligned => Measured(own, rank))
    BY DEF Linked
  <1>2. PICK e, e2, s, s2 : e = Table /\ e2 = Table' /\ s = Starts /\ s2 = Starts'
    OBVIOUS
  <1>3. PICK U \in SUBSET Files : U = UsedFiles
    BY DEF UsedFiles
  <1>4. e[a] = 0
    BY <1>2 DEF Table
  <1>5. EndsAt(e, e2, a)
    BY <1>2, Marks DEF Table, EndsAt
  <1>6. Begins(s, s2, U, f, a)
    BY <1>2, <1>3 DEF Starts, Begins
  <1>7. ChainsOf(e, s, U, own, rank) /\ f \in U /\ s[f] \notin Clusters
    BY <1>1, <1>2, <1>3 DEF Owns
  <1>8. PICK own2, rank2 : ChainsOf(e2, s2, U, own2, rank2) /\ Joined(own, rank, own2, rank2, a, f, 0)
    BY <1>4, <1>5, <1>6, <1>7, FirstLinked
  <1>9. own2[a] = f /\ rank2[a] = 0 /\ own[a] = 0
    BY <1>4, <1>7, <1>8 DEF Joined, ChainsOf
  <1>10. Owns(own2, rank2)'
    BY <1>2, <1>3, <1>8, <1>9 DEF Owns
  <1>11. ASSUME Aligned PROVE Measured(own2, rank2)'
    <2>1. InPlace(rank2, handle'[call'.f], call'.sector)
      <3>1. PICK x, n : x = handle'[f] /\ n = call'.sector
        OBVIOUS
      <3>2. x.cur = a /\ x.pos = 0 /\ n = FirstSector(a) /\ n \in Int
        BY <3>1, Regions, Marks DEF FirstSector
      <3>3. x.pos = rank2[x.cur] * ClusterSize
        BY <1>9, <3>2, ClusterHolds
      <3>4. InPlace(rank2, x, n)
        BY <1>9, <3>2, <3>3, ClusterBegins
      <3> QED BY <3>1, <3>4
    <2>2. ASSUME NEW g \in U PROVE Covers(own2, rank2, g, s2[g], Reach(g)')
      <3>1. Covers(own, rank, g, s[g], Reach(g)) /\ Reach(g)' = Reach(g) /\ g \in Files
        BY <1>1, <1>2, <1>3, <1>11 DEF Measured, Unlinking
      <3>2. CASE g # f
        <4>1. s2[g] = s[g] /\ (s[g] \in Clusters => own[s[g]] = g)
          BY <1>6, <1>7, <3>2 DEF Begins, ChainsOf
        <4>2. PICK reach, first : reach = Reach(g) /\ first = s[g]
          OBVIOUS
        <4>3. Covers(own2, rank2, g, first, reach)
          BY <1>8, <1>9, <3>1, <3>2, <4>1, <4>2, CoversOther
        <4> QED BY <3>1, <4>1, <4>2, <4>3
      <3>3. CASE g = f
        <4>1. s2[f] = a
          BY <1>6, <1>7 DEF Begins
        <4>2. \A c \in Clusters : own2[c] = f => c = a
          <5> TAKE c \in Clusters
          <5>1. own[c] # f
            <6> SUFFICES ASSUME own[c] = f PROVE FALSE
              OBVIOUS
            <6>1. own[c] # 0
              BY <1>7, FilesNotZero
            <6>2. s[own[c]] \in Clusters
              BY <1>7, <6>1, Rooted
            <6> QED BY <1>7, <6>2
          <5> QED BY <1>8, <5>1 DEF Joined
        <4>3. 0 * ClusterSize = 0
          BY ClusterHolds
        <4>4. Covers(own2, rank2, f, a, 0)
          BY <1>9, <4>2, <4>3 DEF Covers
        <4> QED BY <3>1, <3>3, <4>1, <4>4
      <3> QED BY <3>2, <3>3
    <2> QED BY <1>2, <1>3, <2>1, <2>2 DEF Measured
  <1> QED BY <1>10, <1>11 DEF Linked, Aligned

(* ... in one that gets its first, ...                                       *)
LEMMA WriteFirstStep ==
  ASSUME Inv, Idle, NEW f \in Files, NEW v \in Values, NEW n \in WriteSizes,
         f # HostFile, HasRoom(f), handle[f].open, handle[f].cur = 0,
         FindFree(vol).at # 0, vol' = SetNext(FindFree(vol).vol, FindFree(vol).at, Eoc),
         pc' = "write",
         handle' = [handle EXCEPT ![f].first = FindFree(vol).at, ![f].cur = FindFree(vol).at],
         call' = [f |-> f, v |-> v, size |-> n, i |-> 0, sector |-> SectorOf(handle'[f]),
                  start |-> 0, out |-> <<>>, cluster |-> 0]
  PROVE  Inv'
PROOF
  <1>1. /\ vol \in Media /\ Mirrored /\ Agree(vol) /\ handle \in [Files -> Handles]
        /\ handle[f] \in Handles /\ pc = "idle" /\ v \in Nat /\ n \in Nat \ {0}
    BY HandleParts, FatVolumeAssumption DEF Inv, Typed, Idle
  <1>2. handle[f].first = 0 /\ handle[f].pos = 0 /\ handle[f].size = 0
    <2>1. handle[f].first = 0
      BY Marks DEF HasRoom
    <2> QED BY <2>1 DEF Inv, HandleInv
  <1>3. PICK free : free = FindFree(vol)
    OBVIOUS
  <1>4. free.vol \in Media /\ Same(vol, free.vol) /\ free.at \in Clusters /\ Ent(vol, free.at) = 0
    BY <1>1, <1>3, FindFreeKeeps
  <1>5. PICK a \in Clusters, u \in Media : a = free.at /\ u = free.vol
    BY <1>4
  <1>6. a \in FatIndex /\ a # 0 /\ a \in Int /\ Ent(vol, a) = 0 /\ Stands(vol, u)
    BY <1>4, <1>5, Marks, SameStands
  <1>7. EntryIsSet(u, SetNext(u, a, Eoc), a, Eoc)
    BY <1>1, <1>6, Marks, SetNextKeeps
  <1>8. vol' = SetNext(u, a, Eoc)
    BY <1>3, <1>5
  <1>9. /\ vol' \in Media /\ Agree(vol')
        /\ \A d \in FatIndex : Ent(vol', d) = IF d = a THEN Eoc ELSE Ent(vol, d)
        /\ \A g \in Files : Dir(vol', g) = Dir(vol, g)
    <2>1. \A g \in Files : Dir(vol', g) = Dir(u, g)
      BY <1>7, <1>8, DirentPlace DEF Dir, EntryIsSet
    <2> QED BY <1>1, <1>6, <1>7, <1>8, <2>1 DEF Stands, EntryIsSet
  <1>10. UsedFiles' = UsedFiles /\ f \in UsedFiles /\ UsedFiles \in SUBSET Files
    BY <1>9 DEF Inv, HandleInv, UsedFiles
  <1> DEFINE y == [handle[f] EXCEPT !.first = a, !.cur = a]
  <1>11. /\ y \in Handles /\ y.open = handle[f].open /\ y.async = handle[f].async
         /\ y.first = a /\ y.cur = a /\ y.pos = 0 /\ y.size = 0
    BY <1>1, <1>2, <1>6 DEF Handles
  <1>12. handle' = [handle EXCEPT ![f] = y]
    BY <1>1, <1>3, <1>5
  <1> HIDE DEF y
  <1>13. /\ handle' \in [Files -> Handles] /\ handle'[f] = y
         /\ \A g \in Files : g # f => handle'[g] = handle[g]
    BY <1>1, <1>11, <1>12
  <1>14. PICK m \in Int : m = SectorOf(handle'[f])
    BY <1>11, <1>13, SectorTyped
  <1>15. call' = [f |-> f, v |-> v, size |-> n, i |-> 0, sector |-> m, start |-> 0,
                  out |-> <<>>, cluster |-> 0]
    BY <1>14
  <1>16. /\ call'.f = f /\ call'.v = v /\ call'.size = n /\ call'.i = 0 /\ call'.sector = m
         /\ call'.cluster = 0
         /\ call' = [f |-> call'.f, v |-> call'.v, size |-> call'.size, i |-> call'.i,
                     sector |-> call'.sector, start |-> call'.start, out |-> call'.out,
                     cluster |-> call'.cluster]
    BY <1>15
  <1>17. Typed'
    BY <1>1, <1>9, <1>13, <1>16 DEF Typed
  <1>18. CallInv'
    <2>1. /\ handle'[call'.f].open /\ handle'[call'.f].first # 0
          /\ handle'[call'.f].cur \in Clusters
      BY <1>6, <1>11, <1>13, <1>16
    <2> QED BY <1>16, <2>1 DEF CallInv
  <1>19. \A g \in Files : HandleInv(g)' /\ EntryInv(g)'
    <2> TAKE g \in Files
    <2>1. CASE g = f
      <3>1. 0 < n
        BY <1>1
      <3>2. /\ call'.f = f /\ handle'[f].size = 0 /\ pc' = "write"
            /\ call'.i < call'.size
        BY <1>11, <1>13, <1>16, <3>1
      <3>3. Untold(f)'
        BY <3>2 DEF Untold, InWrite
      <3> QED BY <1>6, <1>9, <1>10, <1>11, <1>13, <2>1, <3>3 DEF Inv, HandleInv, EntryInv
    <2>2. CASE g # f
      BY <1>1, <1>9, <1>10, <1>13, <2>2 DEF Inv, HandleInv, EntryInv, Untold, InWrite
    <2> QED BY <2>1, <2>2
  <1>20. Linked'
    <2>1. Starts[f] \notin Clusters
      BY <1>1, <1>2, Marks DEF Starts, Start
    <2>2. \A g \in UsedFiles : Start(g)' = IF g = f THEN a ELSE Start(g)
      <3> TAKE g \in UsedFiles
      <3>1. g \in Files
        BY <1>10
      <3>2. CASE g = f
        BY <1>11, <1>13, <3>1, <3>2 DEF Start
      <3>3. CASE g # f
        BY <1>1, <1>9, <1>13, <3>1, <3>3 DEF Start
      <3> QED BY <3>2, <3>3
    <2>3. handle'[f].cur = a /\ handle'[f].pos = 0 /\ call'.f = f
      BY <1>11, <1>13, <1>16
    <2>4. call'.sector = FirstSector(a)
      <3>1. (0 \div BytesPerSector) % SectorsPerCluster = 0 /\ FirstSector(a) \in Int
        <4>1. PICK b \in Nat \ {0}, k \in Nat \ {0} : b = BytesPerSector /\ k = SectorsPerCluster
          BY ClusterHolds
        <4>2. 0 \div b = 0 /\ 0 % k = 0
          OBVIOUS
        <4>3. FirstSector(a) \in Int
          <5>1. a \in Nat /\ FirstDataSector \in Nat
            BY Regions DEF Clusters
          <5>2. (a - 2) * k \in Int
            BY <5>1
          <5> QED BY <4>1, <5>1, <5>2 DEF FirstSector
        <4> QED BY <4>1, <4>2, <4>3
      <3>2. SectorOf(y) = FirstSector(a)
        BY <1>11, <3>1 DEF SectorOf
      <3> QED BY <1>13, <1>14, <1>16, <3>2
    <2>5. Reach(f) = 0 /\ \A g \in UsedFiles : Reach(g)' = Reach(g)
      <3>1. Reach(f) = 0 /\ Reach(f)' = 0
        BY <1>1, <1>2, <1>11, <1>13, <1>16 DEF Reach, Size, InWrite
      <3>2. ASSUME NEW g \in UsedFiles, g # f PROVE Reach(g)' = Reach(g)
        <4>1. g \in Files /\ handle'[g] = handle[g] /\ Dir(vol', g) = Dir(vol, g)
          BY <1>9, <1>10, <1>13, <3>2
        <4> QED BY <1>1, <1>16, <3>2, <4>1 DEF Reach, Size, InWrite
      <3> QED BY <3>1, <3>2
    <2> QED BY <1>1, <1>6, <1>9, <1>10, <2>1, <2>2, <2>3, <2>4, <2>5, FirstOwned DEF Inv
  <1> QED BY <1>1, <1>9, <1>17, <1>18, <1>19, <1>20 DEF Inv

(* ... or finds the volume full.                                             *)
LEMMA WriteStartStep ==
  ASSUME Inv, NEW f \in Files, NEW v \in Values, NEW n \in WriteSizes,
         f # HostFile, HasRoom(f), WriteStart(f, v, n)
  PROVE  Inv'
PROOF
  <1>1. Idle /\ handle[f].open
    BY DEF WriteStart
  <1>2. CASE /\ handle[f].cur # 0 /\ pc' = "write"
             /\ call' = [[NoCall EXCEPT !.f = f, !.v = v, !.size = n]
                           EXCEPT !.sector = SectorOf(handle[f])]
             /\ UNCHANGED <<vol, handle>>
    <2>1. call' = [f |-> f, v |-> v, size |-> n, i |-> 0, sector |-> SectorOf(handle[f]),
                   start |-> 0, out |-> <<>>, cluster |-> 0]
      BY <1>2 DEF NoCall
    <2> QED BY <1>1, <1>2, <2>1, WriteOnStep
  <1>3. CASE /\ handle[f].cur = 0 /\ FindFree(vol).at # 0
             /\ vol' = SetNext(FindFree(vol).vol, FindFree(vol).at, Eoc)
             /\ handle' = [handle EXCEPT ![f].first = FindFree(vol).at, ![f].cur = FindFree(vol).at]
             /\ pc' = "write"
             /\ call' = [[NoCall EXCEPT !.f = f, !.v = v, !.size = n]
                           EXCEPT !.sector = SectorOf(handle'[f])]
    <2>1. call' = [f |-> f, v |-> v, size |-> n, i |-> 0, sector |-> SectorOf(handle'[f]),
                   start |-> 0, out |-> <<>>, cluster |-> 0]
      BY <1>3 DEF NoCall
    <2> QED BY <1>1, <1>3, <2>1, WriteFirstStep
  <1>4. CASE vol' = FindFree(vol).vol /\ UNCHANGED <<handle, pc, call>>
    <2>1. vol \in Media /\ Mirrored /\ pc = "idle"
      BY <1>1 DEF Inv, Typed, Idle
    <2>2. vol' \in Media /\ Stands(vol, vol')
      <3>1. FindFree(vol).vol \in Media /\ Same(vol, FindFree(vol).vol)
        BY <2>1, FindFreeKeeps
      <3> QED BY <1>4, <3>1, SameStands
    <2>3. Typed'
      BY <1>4, <2>2 DEF Inv, Typed
    <2>4. CallInv'
      BY <1>4, <2>1 DEF CallInv, InWrite
    <2>5. \A g \in Files : /\ handle'[g].open = handle[g].open /\ handle'[g].async = handle[g].async
                           /\ handle'[g].first = handle[g].first /\ handle'[g].size = handle[g].size
                           /\ handle'[g].first = 0 => handle'[g].cur = 0 /\ handle'[g].pos = 0
                           /\ Untold(g) => Untold(g)'
      BY <1>4 DEF Inv, HandleInv, Untold, InWrite
    <2> QED BY <1>4, <2>1, <2>2, <2>3, <2>4, <2>5, QuietStep DEF InWrite
  <1> QED BY <1>2, <1>3, <1>4 DEF WriteStart

(* The cluster a file gets after its last one begins within its reach.       *)
LEMMA CoversMore ==
  ASSUME NEW own, NEW rank, NEW own2, NEW rank2, NEW a \in Clusters, NEW f \in Files, NEW r,
         Joined(own, rank, own2, rank2, a, f, r), own[a] = 0,
         NEW first, first \in Clusters => own[first] = f,
         NEW reach, Covers(own, rank, f, first, reach), r * ClusterSize <= reach
  PROVE  Covers(own2, rank2, f, first, reach)
PROOF
  <1>1. f # 0
    BY FilesNotZero
  <1>2. \A c \in Clusters : c # a => own2[c] = own[c] /\ rank2[c] = rank[c]
    BY DEF Joined
  <1>3. rank2[a] = r
    BY DEF Joined
  <1> QED BY <1>1, <1>2, <1>3 DEF Covers

(* At the end of a cluster fat_write has come to where the next one begins.  *)
EndsCluster(p, c) ==
  \A own, rank : Aligned /\ Owns(own, rank) /\ Measured(own, rank)
                   => p = (rank[c] + 1) * ClusterSize

LEMMA ClusterIsFull ==
  ASSUME Inv, Writing, ClusterEnds, NEW p, p = handle[call.f].pos + Chunk,
         NEW c, c = handle[call.f].cur
  PROVE  EndsCluster(p, c)
PROOF
  <1> SUFFICES ASSUME NEW own, NEW rank, Aligned, Owns(own, rank), Measured(own, rank)
               PROVE  p = (rank[c] + 1) * ClusterSize
    BY DEF EndsCluster
  <1>1. PICK x : x = handle[call.f] /\ x.cur \in Clusters
    BY DEF Inv, CallInv, InWrite, Writing
  <1>2. PICK j \in 0 .. SectorsPerCluster - 1, o \in 0 .. BytesPerSector - 1, r \in Nat :
          /\ r = rank[c] /\ x.pos = r * ClusterSize + j * BytesPerSector + o
          /\ call.sector = FirstSector(c) + j /\ OffsetOf(x) = o
    BY <1>1, WritePlace
  <1>3. (FirstSector(c) + j + 1) % SectorsPerCluster = 0
    BY <1>2 DEF ClusterEnds
  <1>4. j = SectorsPerCluster - 1
    BY <1>1, <1>3, LastSector
  <1>5. x.pos \in Nat /\ x.pos - o + BytesPerSector = (r + 1) * ClusterSize
    BY <1>2, <1>4, PlaceInCluster
  <1>6. PICK chunk \in Nat : chunk = Chunk
    BY ChunkFits DEF Inv, Typed, Writing
  <1>7. o + chunk = BytesPerSector
    BY <1>1, <1>2, <1>6 DEF ClusterEnds, SectorEnds
  <1>8. o \in Int
    BY ClusterHolds
  <1>9. x.pos + chunk = x.pos - o + BytesPerSector
    BY <1>5, <1>7, <1>8
  <1> QED BY <1>1, <1>2, <1>5, <1>6, <1>9

(* The file that is written goes on in the cluster after, or in a new one.   *)
LEMMA NextOwned ==
  ASSUME Linked, InWrite, NEW f \in UsedFiles, f # HostFile, f = call.f,
         NEW c \in Clusters, c = handle[f].cur, NEW a,
         \/ /\ Ent(vol, c) # Eoc /\ a = Ent(vol, c)
            /\ \A d \in FatIndex : Ent(vol', d) = Ent(vol, d)
         \/ /\ Ent(vol, c) = Eoc /\ a = 0
            /\ \A d \in FatIndex : Ent(vol', d) = Ent(vol, d)
         \/ /\ Ent(vol, c) = Eoc /\ a \in Clusters /\ Ent(vol, a) = 0 /\ a # c
            /\ \A d \in FatIndex :
                 Ent(vol', d) = IF d = c THEN a ELSE IF d = a THEN Eoc ELSE Ent(vol, d),
         UsedFiles' = UsedFiles, \A g \in UsedFiles : Start(g)' = Start(g),
         call'.f = f, handle'[f].cur = IF a # 0 THEN a ELSE c,
         NEW p \in Nat, handle'[f].pos = p, EndsCluster(p, c), Reach(f) \in Nat,
         \A g \in UsedFiles : Reach(g)' = IF g = f /\ p > Reach(f) THEN p ELSE Reach(g),
         pc' = IF a # 0 THEN "write" ELSE "written",
         a # 0 => call'.sector = FirstSector(a)
  PROVE  a \in {0} \cup Clusters /\ Linked'
PROOF
  <1>1. PICK own, rank : Owns(own, rank) /\ (Aligned => Measured(own, rank))
    BY DEF Linked
  <1>2. PICK e, e2, s, s2 : e = Table /\ e2 = Table' /\ s = Starts /\ s2 = Starts'
    OBVIOUS
  <1>3. PICK U \in SUBSET Files : U = UsedFiles
    BY DEF UsedFiles
  <1>4. ChainsOf(e, s, U, own, rank) /\ own[c] = f /\ f # 0 /\ f \in U /\ f \in Files
    BY <1>1, <1>2, <1>3, FilesNotZero DEF Owns
  <1>5. \A g \in U : s2[g] = s[g]
    BY <1>2, <1>3 DEF Starts
  <1>6. e[c] = Ent(vol, c)
    BY <1>2 DEF Table
  <1>9. PICK reach : \A g \in U : reach[g] = IF g = f /\ p > Reach(f) THEN p ELSE Reach(g)
    <2>1. \A g \in U : [h \in U |-> IF h = f /\ p > Reach(f) THEN p ELSE Reach(h)][g]
                         = IF g = f /\ p > Reach(f) THEN p ELSE Reach(g)
      OBVIOUS
    <2> QED BY <2>1
  <1>10. \A g \in U : Reach(g)' = reach[g]
    BY <1>3, <1>9
  <1>11. ASSUME Aligned
         PROVE  /\ p = (rank[c] + 1) * ClusterSize /\ p <= reach[f]
                /\ \A g \in U : Covers(own, rank, g, s[g], reach[g])
    <2>1. p = (rank[c] + 1) * ClusterSize
      BY <1>1, <1>11 DEF EndsCluster
    <2>2. p <= reach[f]
      BY <1>4, <1>9
    <2>3. ASSUME NEW g \in U PROVE Covers(own, rank, g, s[g], reach[g])
      <3>1. Covers(own, rank, g, s[g], Reach(g))
        BY <1>1, <1>2, <1>3, <1>11 DEF Measured, Unlinking, InWrite
      <3>2. CASE g # f
        BY <1>9, <3>1, <3>2
      <3>3. CASE g = f
        <4>1. \A d \in Clusters : rank[d] \in Nat
          BY <1>4 DEF ChainsOf
        <4>2. PICK n \in Nat : n = Reach(f)
          OBVIOUS
        <4>3. p <= (rank[c] + 1) * ClusterSize
          BY <2>1
        <4>4. Covers(own, rank, f, s[f], IF p > n THEN p ELSE n)
          BY <1>4, <3>1, <3>3, <4>1, <4>2, <4>3, ReachGrows
        <4> QED BY <1>4, <1>9, <3>3, <4>2, <4>4
      <3> QED BY <3>2, <3>3
    <2> QED BY <2>1, <2>2, <2>3
  <1>12. ASSUME NEW rank2, Aligned, a \in Clusters, rank2[a] = rank[c] + 1
         PROVE  InPlace(rank2, handle'[call'.f], call'.sector)
    <2>1. PICK x, n : x = handle'[f] /\ n = call'.sector
      OBVIOUS
    <2>2. x.cur = a /\ x.pos = p /\ n = FirstSector(a) /\ n \in Int
      BY <1>12, <2>1, Regions, Marks DEF FirstSector
    <2>3. rank2[x.cur] \in Nat /\ x.pos = rank2[x.cur] * ClusterSize
      BY <1>4, <1>11, <1>12, <2>2 DEF ChainsOf
    <2>4. InPlace(rank2, x, n)
      BY <2>2, <2>3, ClusterBegins
    <2> QED BY <2>1, <2>4
  <1>7. CASE /\ (a = Ent(vol, c) /\ a # Eoc) \/ a = 0
             /\ \A d \in FatIndex : Ent(vol', d) = Ent(vol, d)
    <2>1. \A d \in Clusters : e2[d] = e[d]
      BY <1>2, <1>7, Marks DEF Table
    <2>2. ChainsOf(e2, s2, U, own, rank)
      BY <1>4, <1>5, <2>1, FilesChange
    <2>3. /\ a \in {0} \cup Clusters
          /\ a # 0 => own[a] = f /\ rank[a] = rank[c] + 1
      <3>1. a = e[c] /\ e[c] # Eoc =>
              /\ a \in {0} \cup Clusters
              /\ a # 0 => own[a] = f /\ rank[a] = rank[c] + 1
        BY <1>4 DEF ChainsOf
      <3> QED BY <1>6, <1>7, <3>1
    <2>4. own[handle'[f].cur] = f
      BY <1>4, <2>3
    <2>5. Owns(own, rank)'
      BY <1>2, <1>3, <2>2, <2>4 DEF Owns
    <2>6. ASSUME Aligned PROVE Measured(own, rank)'
      <3>1. pc' = "write" => InPlace(rank, handle'[call'.f], call'.sector)
        BY <1>12, <2>3, <2>6
      <3>2. \A g \in U : Covers(own, rank, g, s2[g], Reach(g)')
        BY <1>5, <1>10, <1>11, <2>6
      <3> QED BY <1>2, <1>3, <3>1, <3>2 DEF Measured
    <2> QED BY <2>3, <2>5, <2>6 DEF Linked, Aligned
  <1>8. CASE /\ Ent(vol, c) = Eoc /\ a \in Clusters /\ Ent(vol, a) = 0 /\ a # c
             /\ \A d \in FatIndex :
                  Ent(vol', d) = IF d = c THEN a ELSE IF d = a THEN Eoc ELSE Ent(vol, d)
    <2>1. e[a] = 0 /\ e[c] = Eoc /\ a # 0
      BY <1>2, <1>8, Marks DEF Table
    <2>2. Continues(e, e2, c, a)
      BY <1>2, <1>8, Marks DEF Table, Continues
    <2>3. PICK own2, rank2 : ChainsOf(e2, s, U, own2, rank2)
                             /\ Joined(own, rank, own2, rank2, a, own[c], rank[c] + 1)
      BY <1>4, <1>8, <2>1, <2>2, NextLinked
    <2>4. ChainsOf(e2, s2, U, own2, rank2)
      BY <1>5, <2>3, FilesChange
    <2>5. own2[a] = f /\ rank2[a] = rank[c] + 1 /\ own[a] = 0
          /\ Joined(own, rank, own2, rank2, a, f, rank[c] + 1)
      BY <1>4, <1>8, <2>1, <2>3 DEF Joined, ChainsOf
    <2>6. Owns(own2, rank2)'
      BY <1>2, <1>3, <2>1, <2>4, <2>5 DEF Owns
    <2>7. ASSUME Aligned PROVE Measured(own2, rank2)'
      <3>1. InPlace(rank2, handle'[call'.f], call'.sector)
        BY <1>8, <1>12, <2>5, <2>7
      <3>2. ASSUME NEW g \in U PROVE Covers(own2, rank2, g, s2[g], Reach(g)')
        <4>1. /\ Covers(own, rank, g, s[g], reach[g]) /\ g \in Files
              /\ s[g] \in Clusters => own[s[g]] = g
          BY <1>4, <1>11, <2>7 DEF ChainsOf
        <4>2. g # f => Covers(own2, rank2, g, s[g], reach[g])
          BY <1>8, <2>5, <4>1, CoversOther
        <4>3. (rank[c] + 1) * ClusterSize <= reach[f]
          BY <1>11, <2>7
        <4>4. g = f => Covers(own2, rank2, g, s[g], reach[g])
          BY <1>4, <1>8, <2>5, <4>1, <4>3, CoversMore
        <4> QED BY <1>5, <1>10, <4>2, <4>4
      <3> QED BY <1>2, <1>3, <3>1, <3>2 DEF Measured
    <2> QED BY <1>8, <2>6, <2>7 DEF Linked, Aligned
  <1> QED BY <1>7, <1>8

LEMMA WriteAcrossStep ==
  ASSUME Inv, WriteAcross
  PROVE  Inv'
PROOF
  <1>1. Writing /\ pc = "write" /\ call.i < call.size
    BY DEF WriteAcross, Writing
  <1>2. PICK f \in Files : f = call.f
    BY <1>1 DEF Inv, Typed
  <1>3. /\ handle \in [Files -> Handles] /\ handle[f] \in Handles /\ Mirrored /\ Agree(vol)
        /\ call = [f |-> call.f, v |-> call.v, size |-> call.size, i |-> call.i,
                   sector |-> call.sector, start |-> call.start, out |-> call.out,
                   cluster |-> call.cluster]
        /\ call.v \in Nat /\ call.size \in Int /\ call.i \in Nat /\ call.sector \in Int
        /\ call.cluster \in Nat
        /\ handle[f].open /\ handle[f].first # 0 /\ handle[f].cur \in Clusters /\ f # HostFile
        /\ f \in UsedFiles
    BY <1>1, <1>2 DEF Inv, Typed, CallInv, InWrite, HandleInv
  <1>4. PICK chunk \in Nat \ {0} : chunk = Chunk
    BY <1>1, <1>2, ChunkFits
  <1>5. PICK c \in Clusters : c = handle[f].cur
    BY <1>3
  <1>6. PICK w \in Media : w = Written /\ Stands(vol, w)
    BY <1>1, WrittenStands
  <1>7. PICK next : next = AllocNext(w, c, handle[f].size = 0)
    OBVIOUS
  <1>8. PICK a : a = next.at
    OBVIOUS
  <1>9. /\ vol' = next.vol
        /\ IF a # 0
           THEN /\ handle' = [handle EXCEPT ![f].pos = @ + chunk, ![f].cur = a]
                /\ call' = [call EXCEPT !.i = @ + chunk, !.sector = FirstSector(a)]
                /\ pc' = "write"
           ELSE /\ handle' = [handle EXCEPT ![f].pos = @ + chunk]
                /\ call' = [call EXCEPT !.i = @ + chunk]
                /\ pc' = "written"
    BY <1>2, <1>4, <1>5, <1>6, <1>7, <1>8 DEF WriteAcross
  <1>10. /\ next.vol \in Media /\ (Agree(w) => Agree(next.vol))
         /\ \A n \in Sectors \ (AllTables \cup DataSectors) : Content(next.vol, n) = Content(w, n)
         /\ \/ /\ Ent(w, c) # Eoc /\ a = Ent(w, c)
               /\ \A d \in FatIndex : Ent(next.vol, d) = Ent(w, d)
            \/ /\ Ent(w, c) = Eoc /\ a = 0
               /\ \A d \in FatIndex : Ent(next.vol, d) = Ent(w, d)
            \/ /\ Ent(w, c) = Eoc /\ a \in Clusters /\ Ent(w, a) = 0 /\ a # c
               /\ \A d \in FatIndex :
                    Ent(next.vol, d) = IF d = c THEN a ELSE IF d = a THEN Eoc ELSE Ent(w, d)
    BY <1>3, <1>7, <1>8, AllocNextKeeps
  <1>11. /\ Agree(w) /\ \A d \in FatIndex : Ent(w, d) = Ent(vol, d)
         /\ \A g \in Files : Dir(w, g) = Dir(vol, g)
    BY <1>3, <1>6 DEF Stands
  <1>12. /\ vol' \in Media /\ Agree(vol')
         /\ \A g \in Files : Dir(vol', g) = Dir(vol, g)
    <2>1. \A g \in Files : Dir(vol', g) = Dir(w, g)
      BY <1>9, <1>10, DirentPlace DEF Dir
    <2> QED BY <1>9, <1>10, <1>11, <2>1
  <1>13. \/ /\ Ent(vol, c) # Eoc /\ a = Ent(vol, c)
            /\ \A d \in FatIndex : Ent(vol', d) = Ent(vol, d)
         \/ /\ Ent(vol, c) = Eoc /\ a = 0
            /\ \A d \in FatIndex : Ent(vol', d) = Ent(vol, d)
         \/ /\ Ent(vol, c) = Eoc /\ a \in Clusters /\ Ent(vol, a) = 0 /\ a # c
            /\ \A d \in FatIndex :
                 Ent(vol', d) = IF d = c THEN a ELSE IF d = a THEN Eoc ELSE Ent(vol, d)
    <2>1. c \in FatIndex /\ (a \in Clusters => a \in FatIndex)
      BY Marks
    <2> QED BY <1>9, <1>10, <1>11, <2>1
  <1>14. /\ UsedFiles' = UsedFiles /\ UsedFiles \in SUBSET Files
    BY <1>12 DEF UsedFiles
  <1>15. a \in {0} \cup Clusters \/ a = Ent(vol, c)
    BY <1>13
  <1>16. a \in Int /\ FirstSector(a) \in Int
    <2>1. a \in Int
      <3>1. vol \in Media /\ c \in FatIndex
        BY Marks DEF Inv, Typed
      <3>2. Ent(vol, c) \in Nat
        BY <3>1, EntTyped
      <3> QED BY <1>15, <3>2, Marks
    <2> QED BY <2>1, Regions DEF FirstSector
  <1>17. PICK y \in Handles : /\ handle' = [handle EXCEPT ![f] = y]
                              /\ y.open = handle[f].open /\ y.async = handle[f].async
                              /\ y.first = handle[f].first /\ y.size = handle[f].size
                              /\ y.pos = handle[f].pos + chunk /\ handle[f].pos \in Nat
                              /\ y.pos > 0 /\ y.cur = IF a # 0 THEN a ELSE c
    <2>1. PICK p \in Nat : p = handle[f].pos + chunk /\ p > 0 /\ handle[f].pos \in Nat
      BY <1>3 DEF Handles
    <2>2. PICK x \in Handles : x = handle[f]
      BY <1>3
    <2>3. CASE a # 0
      <3>1. handle' = [handle EXCEPT ![f] = [x EXCEPT !.pos = p, !.cur = a]]
        BY <1>3, <1>9, <2>1, <2>2, <2>3
      <3>2. PICK y : y = [x EXCEPT !.pos = p, !.cur = a]
        OBVIOUS
      <3>3. /\ y \in Handles /\ y.open = x.open /\ y.async = x.async
            /\ y.first = x.first /\ y.size = x.size /\ y.pos = p /\ y.cur = a
        BY <1>16, <3>2 DEF Handles
      <3> QED BY <2>1, <2>2, <2>3, <3>1, <3>2, <3>3
    <2>4. CASE a = 0
      <3>1. handle' = [handle EXCEPT ![f] = [x EXCEPT !.pos = p]]
        BY <1>3, <1>9, <2>1, <2>2, <2>4
      <3>2. PICK y : y = [x EXCEPT !.pos = p]
        OBVIOUS
      <3>3. /\ y \in Handles /\ y.open = x.open /\ y.async = x.async
            /\ y.first = x.first /\ y.size = x.size /\ y.pos = p /\ y.cur = x.cur
        BY <3>2 DEF Handles
      <3> QED BY <1>5, <2>1, <2>2, <2>4, <3>1, <3>2, <3>3
    <2> QED BY <2>3, <2>4
  <1>18. /\ handle' \in [Files -> Handles] /\ handle'[f] = y
         /\ \A g \in Files : g # f => handle'[g] = handle[g]
    BY <1>3, <1>17
  <1>19. /\ call'.f = call.f /\ call'.v = call.v /\ call'.size = call.size
         /\ call'.i \in Nat /\ call'.cluster = call.cluster /\ call'.sector \in Int
         /\ call' = [f |-> call'.f, v |-> call'.v, size |-> call'.size, i |-> call'.i,
                    sector |-> call'.sector, start |-> call'.start, out |-> call'.out,
                    cluster |-> call'.cluster]
         /\ pc' \in {"write", "written"}
    <2>1. PICK i \in Nat : i = call.i + chunk
      BY <1>3
    <2>2. PICK n \in Int : n = IF a # 0 THEN FirstSector(a) ELSE call.sector
      BY <1>3, <1>16
    <2>3. call' = [f |-> call.f, v |-> call.v, size |-> call.size, i |-> i,
                   sector |-> n, start |-> call.start, out |-> call.out,
                   cluster |-> call.cluster]
      <3>1. CASE a # 0
        BY <1>3, <1>9, <2>1, <2>2, <3>1
      <3>2. CASE a = 0
        BY <1>3, <1>9, <2>1, <2>2, <3>2
      <3> QED BY <3>1, <3>2
    <2> QED BY <1>9, <2>3
  <1>20. \A g \in UsedFiles : Start(g)' = Start(g)
    <2> TAKE g \in UsedFiles
    <2>1. g \in Files /\ pc' # "unlink"
      BY <1>14, <1>19
    <2>2. CASE g = f
      <3>1. handle'[f].open /\ handle[f].open /\ handle'[f].first = handle[f].first
        BY <1>3, <1>17, <1>18
      <3> QED BY <1>1, <2>1, <2>2, <3>1 DEF Start
    <2>3. CASE g # f
      <3>1. handle'[g] = handle[g] /\ Dir(vol', g) = Dir(vol, g)
        BY <1>12, <1>18, <2>1, <2>3
      <3> QED BY <1>1, <2>1, <3>1 DEF Start
    <2> QED BY <2>2, <2>3
  <1>21. a \in {0} \cup Clusters /\ Linked'
    <2>1. InWrite /\ call'.f = f /\ handle'[f].cur = IF a # 0 THEN a ELSE c
      BY <1>1, <1>2, <1>17, <1>18, <1>19 DEF InWrite
    <2>2. Linked
      BY DEF Inv
    <2>3. PICK p \in Nat : p = handle[f].pos + chunk /\ p > handle[f].pos
      BY <1>17
    <2>4. EndsCluster(p, c)
      BY <1>1, <1>2, <1>4, <1>5, <2>3, ClusterIsFull DEF WriteAcross
    <2>5. handle'[f].pos = p /\ handle'[f].size = handle[f].size /\ handle'[f].open /\ InWrite'
      BY <1>3, <1>17, <1>18, <1>19, <2>3 DEF InWrite
    <2>6. Reach(f) \in Nat /\ Reach(f)' = IF p > Reach(f) THEN p ELSE Reach(f)
      BY <1>2, <2>1, <2>3, <2>5, ReachOfWrite
    <2>7. \A g \in UsedFiles : Reach(g)' = IF g = f /\ p > Reach(f) THEN p ELSE Reach(g)
      <3> TAKE g \in UsedFiles
      <3>1. CASE g # f
        <4>1. g \in Files /\ handle'[g] = handle[g] /\ Dir(vol', g) = Dir(vol, g)
          BY <1>12, <1>14, <1>18, <3>1
        <4> QED BY <1>2, <2>1, <3>1, <4>1 DEF Reach, Size
      <3> QED BY <2>6, <3>1
    <2>8. pc' = (IF a # 0 THEN "write" ELSE "written") /\ (a # 0 => call'.sector = FirstSector(a))
      BY <1>9, <1>19
    <2> QED BY <1>2, <1>3, <1>5, <1>13, <1>14, <1>20, <2>1, <2>2, <2>4, <2>5, <2>6, <2>7, <2>8, NextOwned
  <1>22. Typed'
    BY <1>2, <1>3, <1>12, <1>18, <1>19 DEF Typed
  <1>23. CallInv'
    <2>1. pc' # "unlink" /\ pc' # "read" /\ pc' # "readend" /\ call'.f = f
      BY <1>2, <1>19
    <2>2. /\ handle'[f].open /\ handle'[f].first # 0 /\ handle'[f].cur \in Clusters
      BY <1>3, <1>17, <1>18, <1>21
    <2> QED BY <1>3, <2>1, <2>2 DEF CallInv
  <1>24. \A g \in Files : HandleInv(g)' /\ EntryInv(g)'
    <2> TAKE g \in Files
    <2>1. CASE g = f
      <3>1. HandleInv(f) /\ EntryInv(f)
        BY DEF Inv
      <3>2. HandleInv(f)'
        BY <1>3, <1>12, <1>14, <1>17, <1>18, <3>1 DEF HandleInv
      <3>3. Untold(f) => Untold(f)'
        BY <1>2, <1>17, <1>18, <1>19 DEF Untold, InWrite
      <3>4. EntryInv(f)'
        BY <1>12, <1>14, <1>17, <1>18, <3>1, <3>3 DEF EntryInv
      <3> QED BY <2>1, <3>2, <3>4
    <2>2. CASE g # f
      BY <1>1, <1>2, <1>12, <1>14, <1>18, <2>2 DEF Inv, HandleInv, EntryInv, Untold, InWrite
    <2> QED BY <2>1, <2>2
  <1> QED BY <1>3, <1>12, <1>21, <1>22, <1>23, <1>24 DEF Inv

-----------------------------------------------------------------------------
(* How many clusters a file has *)

(* The clusters of file f are t[1] .. t[n], in the order of their distance.   *)
LinedUp(t, own, rank, f, n) ==
  /\ \A k \in 1 .. n : t[k] \in Clusters /\ own[t[k]] = f /\ rank[t[k]] = k - 1
  /\ \A c \in Clusters : own[c] = f => \E k \in 1 .. n : t[k] = c

LEMMA PlacesOfFile ==
  ASSUME NEW e, NEW s, NEW U \in SUBSET Files, NEW own, NEW rank,
         ChainsOf(e, s, U, own, rank), NEW f \in U, NEW t, Follows(t, s[f], e),
         s[f] \in Clusters, rank[s[f]] = 0
  PROVE  \E n \in 1 .. Length - 1 : LinedUp(t, own, rank, f, n)
PROOF
  <1>1. Length \in Nat /\ Length >= 2
    BY Regions DEF Length
  <1>2. \A k \in 1 .. Length :
          t[k] \in Clusters => /\ own[t[k]] = f /\ rank[t[k]] = rank[s[f]] + k - 1
                               /\ \A j \in 1 .. k : t[j] \in Clusters
    BY StaysOwned
  <1>3. t[Length] \notin Clusters
    BY ComesToAnEnd
  <1>4. t[1] = s[f]
    BY <1>1 DEF Follows
  <1> DEFINE T == {k \in 1 .. Length : t[k] \notin Clusters}
  <1>5. T \in SUBSET Nat /\ T # {}
    BY <1>1, <1>3
  <1>6. PICK x \in T : \A y \in T : x <= y
    BY <1>5, SetLoop!NatLeast
  <1>7. x \in 1 .. Length /\ x # 1 /\ t[x] \notin Clusters
    BY <1>4, <1>6
  <1>8. PICK n \in 1 .. Length - 1 : n = x - 1
    BY <1>1, <1>7
  <1>9. \A k \in 1 .. n : k \in 1 .. Length /\ t[k] \in Clusters
    <2> TAKE k \in 1 .. n
    <2>1. k \in 1 .. Length /\ k < x
      BY <1>1, <1>7, <1>8
    <2>2. k \notin T
      BY <1>6, <1>7, <2>1
    <2> QED BY <2>1, <2>2
  <1> HIDE DEF T
  <1>10. \A k \in 1 .. n : t[k] \in Clusters /\ own[t[k]] = f /\ rank[t[k]] = k - 1
    <2> TAKE k \in 1 .. n
    <2>1. rank[t[k]] = 0 + k - 1 /\ own[t[k]] = f /\ t[k] \in Clusters
      BY <1>2, <1>9
    <2> QED BY <2>1
  <1>11. ASSUME NEW c \in Clusters, own[c] = f PROVE \E k \in 1 .. n : t[k] = c
    <2>1. PICK k \in 1 .. Length : t[k] = c
      <3>1. GoesThrough(t, own, f, s[f])
        BY ChainFollows
      <3> QED BY <1>11, <3>1 DEF GoesThrough
    <2>2. \A j \in 1 .. k : t[j] \in Clusters
      BY <1>2, <2>1
    <2>3. ~(x <= k)
      BY <1>7, <2>2
    <2>4. k \in 1 .. n
      BY <1>7, <1>8, <2>3
    <2> QED BY <2>1, <2>4
  <1> QED BY <1>10, <1>11 DEF LinedUp

LEMMA PlacesCounted ==
  ASSUME NEW t, NEW own, NEW rank, NEW f, NEW n \in Nat, LinedUp(t, own, rank, f, n)
  PROVE  Cardinality({c \in Clusters : own[c] = f}) = n
PROOF
  <1> DEFINE S == {c \in Clusters : own[c] = f}
             g == [k \in 1 .. n |-> t[k]]
  <1>1. g \in [1 .. n -> S]
    BY DEF LinedUp
  <1>2. \A j, k \in 1 .. n : g[j] = g[k] => j = k
    <2> SUFFICES ASSUME NEW j \in 1 .. n, NEW k \in 1 .. n, t[j] = t[k] PROVE j = k
      OBVIOUS
    <2>1. rank[t[j]] = j - 1 /\ rank[t[k]] = k - 1
      BY DEF LinedUp
    <2> QED BY <2>1
  <1>3. \A c \in S : \E k \in 1 .. n : g[k] = c
    BY DEF LinedUp
  <1> HIDE DEF S, g
  <1>4. g \in Bijection(1 .. n, S)
    BY <1>1, <1>2, <1>3 DEF Bijection, Injection, Surjection, IsInjective
  <1>5. ExistsBijection(1 .. n, S)
    BY <1>4 DEF ExistsBijection
  <1> QED BY <1>5, FS_CountingElements DEF S

LEMMA PlacesFit ==
  ASSUME NEW t, NEW own, NEW rank, NEW f, NEW n \in Nat \ {0}, LinedUp(t, own, rank, f, n),
         NEW first, NEW reach \in Nat, Covers(own, rank, f, first, reach)
  PROVE  n * ClusterSize \in reach .. reach + ClusterSize
PROOF
  <1>1. ClusterSize \in Nat \ {0} /\ n * ClusterSize \in Nat
    BY ClusterHolds
  <1>2. (n - 1) * ClusterSize <= reach
    <2>1. t[n] \in Clusters /\ own[t[n]] = f /\ rank[t[n]] = n - 1
      BY DEF LinedUp
    <2> QED BY <2>1 DEF Covers
  <1>3. n * ClusterSize = (n - 1) * ClusterSize + ClusterSize /\ (n - 1) * ClusterSize \in Int
    BY <1>1
  <1>4. n * ClusterSize <= reach + ClusterSize
    BY <1>1, <1>2, <1>3
  <1>5. CASE reach > 0
    <2>1. PICK c \in Clusters : own[c] = f /\ reach <= (rank[c] + 1) * ClusterSize
      BY <1>5 DEF Covers
    <2>2. PICK k \in 1 .. n : t[k] = c /\ rank[c] = k - 1
      BY <2>1 DEF LinedUp
    <2>3. PICK d \in Nat : n = k + d
      <3>1. n - k \in Nat /\ n = k + (n - k)
        OBVIOUS
      <3> QED BY <3>1
    <2>4. n * ClusterSize = k * ClusterSize + d * ClusterSize
          /\ d * ClusterSize \in Nat /\ k * ClusterSize \in Nat
      BY <1>1, <2>3
    <2>5. (rank[c] + 1) = k
      BY <2>2
    <2> QED BY <1>1, <1>4, <2>1, <2>4, <2>5
  <1>6. CASE reach = 0
    BY <1>1, <1>4, <1>6
  <1> QED BY <1>5, <1>6

(* What the file f owns, as the properties see it.                           *)
LEMMA OwnedByFile ==
  ASSUME Inv, Idle, NEW f \in UsedFiles, NEW own, NEW rank,
         ChainsOf(Table, Starts, UsedFiles, own, rank)
  PROVE  /\ Starts[f] \in {0} \cup Clusters /\ Starts[f] = FirstOf(f)
         /\ Follows(Chain(f), Starts[f], Table)
         /\ Owned(f) = {c \in Clusters : own[c] = f}
PROOF
  <1>1. vol \in Media /\ Mirrored /\ handle \in [Files -> Handles] /\ pc = "idle"
        /\ f \in Files /\ UsedFiles \in SUBSET Files
    BY DEF Inv, Typed, Idle, UsedFiles
  <1>2. Dirent(f) = Dir(vol, f) /\ Dirent(f) \in Dirents
    BY <1>1, SeenDirent
  <1>3. Starts[f] = IF handle[f].open THEN handle[f].first ELSE Dir(vol, f).first
    BY <1>1 DEF Starts, Start
  <1>4. FirstOf(f) = Starts[f] /\ Starts[f] \in {0} \cup Clusters
    BY <1>1, <1>2, <1>3 DEF FirstOf, Handles, Dirents
  <1>5. PICK t : t = Chain(f) /\ Follows(t, Starts[f], Table)
    BY <1>1, <1>4, SeenChain
  <1>6. GoesThrough(t, own, f, Starts[f])
    BY <1>1, <1>5, ChainFollows
  <1>7. Range(t) = {t[k] : k \in 1 .. Length}
    <2>1. DOMAIN t = 1 .. Length
      BY <1>5 DEF Follows
    <2> QED BY <2>1 DEF Range
  <1>8. Range(t) \cap Clusters = {c \in Clusters : own[c] = f}
    BY <1>6, <1>7 DEF GoesThrough
  <1> QED BY <1>4, <1>5, <1>8 DEF Owned

LEMMA InvSizeFitsChain == Inv /\ Aligned => SizeFitsChain
PROOF
  <1> SUFFICES ASSUME Inv, Aligned, Idle, NEW f \in Used
               PROVE  Cardinality(Owned(f)) * ClusterSize
                        \in (IF handle[f].open THEN handle[f].size ELSE Dirent(f).size)
                              .. (IF handle[f].open THEN handle[f].size ELSE Dirent(f).size)
                                   + ClusterSize
    BY DEF SizeFitsChain
  <1>1. vol \in Media /\ handle \in [Files -> Handles] /\ pc = "idle" /\ f \in UsedFiles
        /\ f \in Files /\ Dirent(f) = Dir(vol, f) /\ Dirent(f) \in Dirents
    BY SeenDirent DEF Inv, Typed, Idle, Used, UsedFiles
  <1>2. PICK size \in Nat : /\ size = IF handle[f].open THEN handle[f].size ELSE Dirent(f).size
                            /\ size = Reach(f)
    <2>1. Reach(f) = IF handle[f].open THEN handle[f].size ELSE Dirent(f).size
      BY <1>1 DEF Reach, Size, InWrite
    <2>2. handle[f].size \in Nat /\ Dirent(f).size \in Nat
      BY <1>1 DEF Handles, Dirents
    <2> QED BY <2>1, <2>2
  <1>3. PICK own, rank : Owns(own, rank) /\ Measured(own, rank)
    BY DEF Inv, Linked
  <1>4. PICK e, s : e = Table /\ s = Starts /\ ChainsOf(e, s, UsedFiles, own, rank)
    BY <1>3 DEF Owns
  <1>5. /\ s[f] \in {0} \cup Clusters /\ Follows(Chain(f), s[f], e)
        /\ Owned(f) = {c \in Clusters : own[c] = f}
    BY <1>1, <1>4, OwnedByFile
  <1>6. Covers(own, rank, f, s[f], size)
    BY <1>1, <1>2, <1>3, <1>4 DEF Measured, Unlinking
  <1>7. ClusterSize \in Nat \ {0} /\ UsedFiles \in SUBSET Files
    BY ClusterHolds DEF UsedFiles
  <1>8. CASE s[f] \notin Clusters
    <2>1. \A c \in Clusters : own[c] # f
      <3> SUFFICES ASSUME NEW c \in Clusters, own[c] = f PROVE FALSE
        OBVIOUS
      <3>1. own[c] # 0
        BY <1>1, FilesNotZero
      <3>2. s[own[c]] \in Clusters
        BY <1>4, <1>7, <3>1, Rooted
      <3> QED BY <1>8, <3>2
    <2>2. Owned(f) = {} /\ ~(size > 0)
      BY <1>5, <1>6, <2>1 DEF Covers
    <2>3. Cardinality(Owned(f)) * ClusterSize = 0 /\ size = 0
      BY <1>7, <2>2, FS_EmptySet
    <2> QED BY <1>2, <1>7, <2>3
  <1>9. CASE s[f] \in Clusters
    <2>1. rank[s[f]] = 0
      BY <1>6, <1>9 DEF Covers
    <2>2. PICK n \in 1 .. Length - 1 : LinedUp(Chain(f), own, rank, f, n)
      BY <1>1, <1>4, <1>5, <1>7, <1>9, <2>1, PlacesOfFile
    <2>3. n \in Nat \ {0}
      OBVIOUS
    <2>4. Cardinality(Owned(f)) = n
      BY <1>5, <2>2, <2>3, PlacesCounted
    <2>5. n * ClusterSize \in size .. size + ClusterSize
      BY <1>6, <2>2, <2>3, PlacesFit
    <2> QED BY <1>2, <2>4, <2>5
  <1> QED BY <1>8, <1>9

-----------------------------------------------------------------------------
(* Theorems *)

(* Every step of a careful caller, and of the call he has made.              *)
LEMMA NextStep == Inv /\ [Next]_vars => Inv'
PROOF
  <1> SUFFICES ASSUME Inv, [Next]_vars PROVE Inv'
    OBVIOUS
  <1>1. CASE Counted /\ \E f \in Files : Careful(f)
    <2>1. PICK f \in Files : Careful(f)
      BY <1>1
    <2>2. CASE \E async \in BOOLEAN : Create(f, async) \/ (Synced(f) /\ Open(f, async))
      BY <2>2, CreateStep, OpenStep
    <2>3. CASE Sync(f)
      BY <2>3, SyncStep
    <2>4. CASE /\ handle[f].size > 0
               /\ \E offset \in SeekOffsets, whence \in {"SET", "CUR", "END"} : Seek(f, offset, whence)
      BY <2>4, SeekStep
    <2>5. CASE /\ f # HostFile /\ HasRoom(f)
               /\ \E v \in Values, n \in WriteSizes : WriteStart(f, v, n)
      BY <2>5, WriteStartStep
    <2>6. CASE handle[f].size > 0 /\ \E n \in ReadSizes : ReadStart(f, n)
      BY <2>6, ReadStartStep
    <2>7. CASE f # HostFile /\ Synced(f) /\ UnlinkStart(f)
      BY <2>7, UnlinkStartStep
    <2> QED BY <2>1, <2>2, <2>3, <2>4, <2>5, <2>6, <2>7 DEF Careful
  <1>2. CASE Internal
    BY <1>2, WriteSectorStep, WriteAcrossStep, WriteDoneStep, ReadSectorStep, ReadDoneStep,
       UnlinkStepStep, UnlinkDoneStep DEF Internal
  <1>3. CASE UNCHANGED vars
    <2>1. vol' = vol /\ handle' = handle /\ pc' = pc /\ call' = call
      BY <1>3 DEF vars
    <2>2. vol \in Media
      BY DEF Inv, Typed
    <2>3. Stands(vol, vol')
      BY <2>1, <2>2, SameStands, SameSelf
    <2>4. Typed'
      BY <2>1 DEF Inv, Typed
    <2>5. UsedFiles' = UsedFiles
      BY <2>1 DEF UsedFiles
    <2>6. CallInv'
      BY <2>1, <2>5 DEF Inv, CallInv, InWrite
    <2>7. InWrite' = InWrite
      BY <2>1 DEF InWrite
    <2>8. \A f \in Files : /\ handle'[f].open = handle[f].open /\ handle'[f].async = handle[f].async
                           /\ handle'[f].first = handle[f].first /\ handle'[f].size = handle[f].size
                           /\ handle'[f].first = 0 => handle'[f].cur = 0 /\ handle'[f].pos = 0
                           /\ Untold(f) => Untold(f)'
      BY <2>1, <2>7 DEF Inv, HandleInv, Untold
    <2>9. MeasureKept
      <3>1. \A f \in UsedFiles : Start(f)' = Start(f) /\ Reach(f)' = Reach(f)
        BY <2>1, <2>7 DEF Start, Reach, Size
      <3>2. \A f \in Files : Unlinking(f) => Unlinking(f)'
        BY <2>1 DEF Unlinking
      <3> QED BY <2>1, <2>5, <3>1, <3>2, MeasureStands
    <2> QED BY <2>1, <2>3, <2>4, <2>6, <2>7, <2>8, <2>9, QuietStep
  <1> QED BY <1>1, <1>2, <1>3 DEF Next, Rest

LEMMA Invariance == Mirrored /\ Spec => []Inv
PROOF
  <1>1. Init /\ Mirrored => Inv
    BY InitInv
  <1>2. Inv /\ [Next]_vars => Inv'
    BY NextStep
  <1> QED BY <1>1, <1>2, PTL DEF Spec

(* The buffer, the disk, the handles and the locals of a call stay what      *)
(* their types say, however calls of careful programs follow one another.    *)
THEOREM VolumeTyped == Mirrored /\ Spec => []TypeOK
PROOF
  BY Invariance, InvTypeOK, PTL

(* fat_set_next_cluster leaves the copies of the table equal, though every   *)
(* cell of every copy goes through the one buffer.                           *)
THEOREM CopiesStayEqual == Mirrored /\ Spec => []CopiesAgree
PROOF
  BY Invariance, InvCopiesAgree, PTL

(* The zeros that fat_alloc_next_cluster makes in the buffer are never read  *)
(* back as a sector of the table that GetNext reads.                         *)
THEOREM ZerosNotRead == Mirrored /\ Spec => []TableNotStale
PROOF
  BY Invariance, InvTableNotStale, PTL

(* Between calls no cluster is in two files, every chain comes to an end and *)
(* a cluster is marked taken if and only if a file has it, wherever          *)
(* fat_write stopped for want of room and whatever fat_unlink has freed.     *)
THEOREM ChainsStaySound == Mirrored /\ Spec => []FatSound
PROOF
  BY Invariance, InvFatSound, PTL

(* After fat_write without O_ASYNC the directory says what the handle says.  *)
THEOREM EntriesToldInTime == Mirrored /\ Spec => []EntryUpToDate
PROOF
  BY Invariance, InvEntryUpToDate, PTL

(* SizeFitsChain: what fat_write adds to a file and what fat_lseek, fat_read *)
(* and fat_unlink leave of it, however its calls are cut, keep the number of *)
(* its clusters at what its bytes need, and at most one more. For volumes    *)
(* whose data begins at a multiple of the cluster size: on others the test   *)
(* of write.c:236 sends fat_write out of its cluster (StaysInCluster).       *)
THEOREM SizesFitChains == Mirrored /\ Aligned /\ Spec => []SizeFitsChain
PROOF
  <1>1. Inv /\ Aligned => SizeFitsChain
    BY InvSizeFitsChain
  <1>2. Aligned => Aligned'
    BY DEF Aligned
  <1> QED BY <1>1, <1>2, Invariance, PTL
=============================================================================
