---------------------------- MODULE FatDirectory ----------------------------
(***************************************************************************)
(* Directories of a FAT12 or FAT16 volume: direntry.c and the part of       *)
(* write.c that makes, finds and removes entries.                           *)
(*                                                                          *)
(* A directory is a sequence of slots of 32 bytes. The root directory has   *)
(* a fixed number of them, the others grow by a cluster; which clusters     *)
(* they are, and how they are cached, is the subject of FatVolume. A name   *)
(* is a sequence of ASCII codes, because the short names made from two long *)
(* ones, and their checksums, may be the same. Files stay empty here. A     *)
(* call is one step, but a program that lists a directory calls             *)
(* fat_readdir for each entry, and may change directories between.          *)
(***************************************************************************)
EXTENDS Integers, Sequences, FiniteSets, SequencesExt

CONSTANTS
  NewNames,         (* names that programs create                           *)
  OtherNames,       (* names they only look for, such as short ones         *)
  PerLong,          (* characters of a name in a long entry; 13 in the code *)
  ShortTries,       (* short names tried for one name; 9                    *)
  HostRoot,         (* the root directory as the host's tools left it       *)
  SlotsPerCluster,
  FreeClusters,     (* clusters of the volume nobody has yet                *)
  MaxCalls          (* how many calls programs make (bound)                 *)

Dot == 46
Space == 32
Tilde == 126
Slash == 47
DotDot == <<Dot, Dot>>

(* A careful program's names are not empty, are ASCII, neither begin with a *)
(* dot or a space nor end in a dot, and have no "/", and no "~", which      *)
(* build_short_name uses itself.                                            *)
ASSUME FatDirectoryAssumption ==
  /\ \A n \in NewNames : /\ n # <<>> /\ n[1] \notin {Dot, Space} /\ n[Len(n)] # Dot
                         /\ \A i \in DOMAIN n : n[i] \in 1 .. 125 \ {Slash}
  /\ PerLong \in Nat \ {0} /\ ShortTries \in 1 .. 9
  /\ SlotsPerCluster \in Nat \ 0 .. 2
  /\ FreeClusters \in Nat /\ MaxCalls \in Nat

VARIABLES
  dirs,     (* the slots of each directory; 0 is the root                   *)
  free,     (* how many clusters are free                                   *)
  cwd,      (* vol->cwd: the directory and the position in it               *)
  reader,   (* the handle of a program that lists a directory, and what it  *)
            (* has seen of it                                               *)
  last,     (* the last call and whether it returned 0                      *)
  calls     (* how many calls have been made                                *)

vars == <<dirs, free, cwd, reader, last, calls>>

-----------------------------------------------------------------------------
(* Slots: struct fat_sdirent and struct fat_ldirent. *)

Empty == [kind |-> "empty"]
Deleted == [kind |-> "deleted"]
VolumeId == [kind |-> "volume"]
Long(ord, final, part, sum) ==
  [kind |-> "long", ord |-> ord, final |-> final, part |-> part, sum |-> sum]
Short(sname, isdir, first) ==
  [kind |-> "short", sname |-> sname, isdir |-> isdir, first |-> first]

Cluster == [i \in 1 .. SlotsPerCluster |-> Empty]

toupper(c) == IF c \in 97 .. 122 THEN c - 32 ELSE c
tolower(c) == IF c \in 65 .. 90 THEN c + 32 ELSE c

Padded(s) == [i \in 1 .. 11 |-> IF i <= Len(s) THEN s[i] ELSE Space]

Positions(s, c) == {i \in DOMAIN s : s[i] = c}
FirstDot(s) ==
  IF Positions(s, Dot) = {} THEN Len(s) + 1
  ELSE CHOOSE i \in Positions(s, Dot) : \A j \in Positions(s, Dot) : i <= j

(* strrchr: the place of c in s, counted from 1, or 0. It is the place after *)
(* the last c, where s++ has come to.                                        *)
strrchr(s, c) ==
  IF Positions(s, c) = {} THEN 0
  ELSE 1 + CHOOSE i \in Positions(s, c) : \A j \in Positions(s, c) : i >= j

(* _fat_dirent_chksum *)
Checksum(sname) ==
  FoldLeft(LAMBDA sum, c : ((IF sum % 2 = 1 THEN 128 ELSE 0) + (sum \div 2) + c) % 256,
           0, sname)

(* build_short_name: eight letters before the first dot, three of what       *)
(* follows the last, and a number if that is not the name itself.            *)
PlainShort(name) ==
  LET base == SubSeq(name, 1, Min({8, FirstDot(name) - 1}))
      suffix == strrchr(name, Dot)
  IN  [i \in 1 .. 11 |->
         IF i <= Len(base) THEN toupper(base[i])
         ELSE IF i > 8 /\ suffix # 0 /\ suffix + i - 8 <= Len(name)
              THEN toupper(name[suffix + i - 8])
         ELSE Space]

BuildShort(name, n) ==
  LET length == Min({8, FirstDot(name) - 1})
      cut == Min({6, length})
      numbered == [PlainShort(name) EXCEPT ![cut + 1] = Tilde, ![cut + 2] = 48 + n]
  IN  IF (length = 8 /\ FirstDot(name) # 9) \/ strrchr(name, Dot) - 1 # length
      THEN numbered ELSE PlainShort(name)

(* The long entries of a name: its end first, and an entry more than needed  *)
(* if its length is a multiple of PerLong.                                   *)
LongSlots(name, sname) ==
  LET n == Len(name) \div PerLong + 1
      Part(k) == SubSeq(name, (k - 1) * PerLong + 1, Min({k * PerLong, Len(name)}))
  IN  [i \in 1 .. n |-> Long(n + 1 - i, i = 1, Part(n + 1 - i), Checksum(sname))]

-----------------------------------------------------------------------------
(* fat_readdir *)

(* A short name for the user: it skips the first character after spaces.     *)
Display(sname) ==
  LET AfterSpaces(i) == CHOOSE k \in i + 1 .. 12 :
                          /\ k = 12 \/ sname[k] # Space
                          /\ \A j \in i + 1 .. k - 1 : sname[j] = Space
      shown[i \in 1 .. 13] ==
        IF i > 11 THEN <<>>
        ELSE IF sname[i] = Space THEN <<Dot>> \o shown[AfterSpaces(i) + 1]
        ELSE <<tolower(sname[i])>> \o shown[i + 1]
  IN  IF Last(shown[1]) = Dot THEN Front(shown[1]) ELSE shown[1]

(* ascii_from_utf16 gives up on any other character before the end.           *)
NotAscii(part) == \E i \in DOMAIN part : part[i] > 127

(* The short names there can be, their checksums and their looks.             *)
ShortNames ==
  {BuildShort(n, k) : n \in NewNames, k \in 1 .. ShortTries}
    \cup {Padded(<<Dot>>), Padded(DotDot)}
    \cup {HostRoot[i].sname : i \in {j \in DOMAIN HostRoot : HostRoot[j].kind = "short"}}
SumOf == [sname \in ShortNames |-> Checksum(sname)]
DisplayOf == [sname \in ShortNames |-> Display(sname)]

(* The end of the directory, or the slot after its last one.                  *)
EndOf(slots) ==
  LET empties == {i \in DOMAIN slots : slots[i].kind = "empty"}
  IN  IF empties = {} THEN Len(slots) + 1 ELSE Min(empties)

(* The short entries that calls of fat_readdir come to from position pos on, *)
(* each with the long ones before it since the last one marked final, and the *)
(* parts of the name they give. Deleted entries and the volume label are      *)
(* passed over, in a row of long entries too. A part is read up to its first  *)
(* 0; one that is not there is 0.                                             *)
Rows(slots, pos) ==
  LET shorts == {i \in pos + 1 .. EndOf(slots) - 1 : slots[i].kind = "short"}
      Start(i) == Max({pos} \cup {j \in shorts : j < i}) + 1
      Longs(i) == {j \in Start(i) .. i - 1 : slots[j].kind = "long"}
      Finals(i) == {j \in Longs(i) : slots[j].final}
      Part(longs, k) ==
        IF \A j \in longs : slots[j].ord # k THEN <<>>
        ELSE slots[Max({j \in longs : slots[j].ord = k})].part
      chains == {[at |-> i, longs |-> {j \in Longs(i) : j >= Max(Finals(i))}]
                   : i \in {h \in shorts : Finals(h) # {}}}
  IN  {[at |-> i, longs |-> {}, parts |-> << <<>> >>] : i \in {h \in shorts : Finals(h) = {}}}
        \cup {[at |-> c.at, longs |-> c.longs,
               parts |-> SubSeq([k \in 1 .. Cardinality(c.longs) + 1 |-> Part(c.longs, k)],
                                1, Cardinality(c.longs) + 1)] : c \in chains}

(* The name of a row: what its long entries say, up to the first part that is *)
(* not full, if all have the checksum of the short one and can be converted.  *)
NameOf(slots, row) ==
  LET sname == slots[row.at].sname
      full == {k \in DOMAIN row.parts : \A l \in 1 .. k : Len(row.parts[l]) = PerLong}
      length == Cardinality(full) * PerLong + Len(row.parts[Cardinality(full) + 1])
  IN  IF \/ length = 0
         \/ \E j \in row.longs : NotAscii(slots[j].part) \/ slots[j].sum # SumOf[sname]
      THEN DisplayOf[sname]
      ELSE SubSeq([c \in 1 .. length |->
                     row.parts[((c - 1) \div PerLong) + 1][((c - 1) % PerLong) + 1]], 1, length)

(* What the calls return.                                                     *)
ReadFrom(slots, pos) ==
  {[name |-> NameOf(slots, row), sname |-> slots[row.at].sname,
    isdir |-> slots[row.at].isdir, first |-> slots[row.at].first, at |-> row.at]
     : row \in Rows(slots, pos)}

(* Where the handle is left when there is no other entry.                     *)
PosAtEnd(slots) == Min({EndOf(slots), Len(slots)})

First(entries) == CHOOSE e \in entries : \A f \in entries : e.at <= f.at

-----------------------------------------------------------------------------
(* fat_open *)

(* fat_comparesfn: the name as it would stand in a short entry, and where in  *)
(* the name that ends.                                                        *)
Canonical(name) ==
  LET Step(r, i) ==
        LET k == IF r.k <= Len(name) /\ name[r.k] = Dot /\ i = 9 THEN r.k + 1 ELSE r.k
        IN  IF k > Len(name) \/ (name[k] = Dot /\ i < 9) THEN r
            ELSE [out |-> [r.out EXCEPT ![i] = toupper(name[k])], k |-> k + 1]
  IN  FoldLeft(Step, [out |-> Padded(<<>>), k |-> 1], [i \in 1 .. 11 |-> i])

AllNames == NewNames \cup OtherNames \cup {DotDot}
CanonicalOf == [name \in AllNames \cup ShortNames |-> Canonical(name)]

ComparesSfn(name, sname) ==
  IF name[1] = Dot THEN Padded(name) = sname
  ELSE CanonicalOf[name].out = sname /\ CanonicalOf[name].k > Len(name)

(* The entries that answer to a name; fat_open takes the first one.           *)
Hits(entries, name) == {e \in entries : name = e.name \/ ComparesSfn(name, e.sname)}

Here == dirs[cwd.dir]

(* Where fat_open leaves vol->cwd.                                            *)
PosAfter(slots, name) ==
  LET hits == Hits(ReadFrom(slots, 0), name)
  IN  IF hits = {} THEN PosAtEnd(slots) ELSE First(hits).at

-----------------------------------------------------------------------------
(* Writing entries *)

(* _fat_dir_seek_empty: behind an entry that is not deleted, or at the very    *)
(* beginning, the first run of deleted entries that is long enough; else the   *)
(* place after the last entry that is not deleted.                            *)
Runs_AnyLength(slots, entries) ==
  {i \in 0 .. EndOf(slots) - 2 : slots[i + 1].kind = "deleted"}

Runs(slots, entries) ==
  {i \in 0 .. EndOf(slots) - 1 - entries :
     \A j \in i + 1 .. i + entries : slots[j].kind = "deleted"}

SeekEmpty(slots, entries) ==
  IF Runs(slots, entries) # {} THEN Min(Runs(slots, entries))
  ELSE Max({0} \cup {i \in 1 .. EndOf(slots) - 1 : slots[i].kind # "deleted"})

(* fat_write of one entry. The root directory does not grow. Any other gets a *)
(* cluster when its last slot is written; without one to get, w.full tells    *)
(* that the next write will go over the beginning of the last cluster.        *)
WriteSlot_NoCheck(w, slot) ==
  LET n == w.pos + 1
      written == [w EXCEPT !.slots = [@ EXCEPT ![n] = slot], !.pos = n]
  IN  IF ~w.ok THEN w
      ELSE IF w.root THEN IF n > Len(w.slots) THEN [w EXCEPT !.ok = FALSE] ELSE written
      ELSE IF n < Len(w.slots) THEN written
      ELSE [written EXCEPT !.slots = @ \o Cluster, !.free = @ - 1]

WriteSlot(w, slot) ==
  LET n == w.pos + 1
      written == [w EXCEPT !.slots = [@ EXCEPT ![n] = slot], !.pos = n]
  IN  IF ~w.ok \/ w.full THEN w
      ELSE IF w.root THEN IF n > Len(w.slots) THEN [w EXCEPT !.ok = FALSE] ELSE written
      ELSE IF n < Len(w.slots) THEN written
      ELSE IF w.free = 0 THEN [written EXCEPT !.full = TRUE]
      ELSE [written EXCEPT !.slots = @ \o Cluster, !.free = @ - 1]

(* _fat_dir_create_file after the looks for the name: the long entries, a     *)
(* cluster if it is a directory, the short entry.                             *)
Numbers_AnyNumber(name) == 1 .. ShortTries

Numbers(name) ==
  LET entries == ReadFrom(Here, 0)
  IN  {n \in 1 .. ShortTries : Hits(entries, BuildShort(name, n)) = {}}

Written_NoSeek(name, isdir) ==
  LET sname == BuildShort(name, Min(Numbers(name)))
      begun == [slots |-> Here, pos |-> cwd.pos,
                root |-> cwd.dir = 0, free |-> free, ok |-> TRUE, full |-> FALSE]
      longs == FoldLeft(WriteSlot, begun, LongSlots(name, sname))
      taken == IF ~longs.ok \/ ~isdir THEN longs
               ELSE IF longs.free = 0 THEN [longs EXCEPT !.ok = FALSE]
               ELSE [longs EXCEPT !.free = @ - 1]
  IN  WriteSlot(taken, Short(sname, isdir, IF isdir THEN Cardinality(DOMAIN dirs) ELSE 0))

Written(name, isdir) ==
  LET sname == BuildShort(name, Min(Numbers(name)))
      begun == [slots |-> Here, pos |-> SeekEmpty(Here, Len(name) \div PerLong + 2),
                root |-> cwd.dir = 0, free |-> free, ok |-> TRUE, full |-> FALSE]
      longs == FoldLeft(WriteSlot, begun, LongSlots(name, sname))
      taken == IF ~longs.ok \/ ~isdir THEN longs
               ELSE IF longs.free = 0 THEN [longs EXCEPT !.ok = FALSE]
               ELSE [longs EXCEPT !.free = @ - 1]
  IN  WriteSlot(taken, Short(sname, isdir, IF isdir THEN Cardinality(DOMAIN dirs) ELSE 0))

(* fat_mkdir fills the cluster of the new directory.                          *)
NewDirectory(first, parent) ==
  [Cluster EXCEPT ![1] = Short(Padded(<<Dot>>), TRUE, first),
                  ![2] = Short(Padded(DotDot), TRUE, parent)]

(* What an entry stands for: a file is told apart by its slot.                *)
Thing(e) == [dir |-> e.isdir, id |-> IF e.isdir THEN e.first ELSE e.at]
Nothing == [dir |-> FALSE, id |-> 0]

Begin == calls < MaxCalls /\ calls' = calls + 1
Done(op, name, e) == last' = [op |-> op, name |-> name, ok |-> TRUE, thing |-> Thing(e)]
Failed(op, name) == last' = [op |-> op, name |-> name, ok |-> FALSE, thing |-> Nothing]

(* What fat_open returns, and the handle it fills.                            *)
Found(op, name, hits) == IF hits = {} THEN Failed(op, name) ELSE Done(op, name, First(hits))

-----------------------------------------------------------------------------
(* Calls *)

Known(name) == Hits(ReadFrom(Here, 0), name)
Wanted(name) == Known(name) = {} /\ Numbers(name) # {}

(* fat_create and fat_mkdir, of a name that is there or for which there is no *)
(* short name.                                                                *)
CreateRefused(op, name) ==
  /\ Begin
  /\ ~Wanted(name)
  /\ cwd' = [cwd EXCEPT !.pos = PosAfter(Here, IF Known(name) # {} THEN name
                                               ELSE BuildShort(name, ShortTries))]
  /\ Failed(op, name)
  /\ UNCHANGED <<dirs, free, reader>>

(* A root directory that is full, or a volume without a cluster, is noticed   *)
(* when some of the entries have been written.                                *)
CreateFails(op, name) ==
  /\ Begin
  /\ Wanted(name)
  /\ \E w \in {Written(name, op = "mkdir")} :
       /\ ~w.ok /\ ~w.full
       /\ dirs' = [dirs EXCEPT ![cwd.dir] = w.slots]
       /\ free' = w.free
       /\ cwd' = [cwd EXCEPT !.pos = w.pos]
  /\ Failed(op, name)
  /\ UNCHANGED reader

(* What fat_open finds at the end is what the caller gets.                    *)
CreateFile(name) ==
  /\ Begin
  /\ Wanted(name)
  /\ \E w \in {Written(name, FALSE)} :
       /\ w.ok /\ ~w.full
       /\ dirs' = [dirs EXCEPT ![cwd.dir] = w.slots]
       /\ free' = w.free
       /\ cwd' = [cwd EXCEPT !.pos = PosAfter(w.slots, name)]
       /\ Found("create", name, Hits(ReadFrom(w.slots, 0), name))
  /\ UNCHANGED reader

(* fat_mkdir fills the cluster of the directory it finds under the name.      *)
MakeDirectory(name) ==
  /\ Begin
  /\ Wanted(name)
  /\ \E w \in {Written(name, TRUE)} :
       LET hits == Hits(ReadFrom(w.slots, 0), name)
           filled == {First(hits).first : e \in hits}
       IN  /\ w.ok /\ ~w.full
           /\ dirs' = [d \in filled |-> NewDirectory(d, cwd.dir)]
                        @@ [dirs EXCEPT ![cwd.dir] = w.slots]
           /\ free' = w.free
           /\ cwd' = [cwd EXCEPT !.pos = PosAfter(w.slots, name)]
           /\ Found("mkdir", name, hits)
  /\ UNCHANGED reader

Open(name) ==
  /\ Begin
  /\ cwd' = [cwd EXCEPT !.pos = PosAfter(Here, name)]
  /\ Found("open", name, Known(name))
  /\ UNCHANGED <<dirs, free, reader>>

(* fat_chdir. A careful program does not change to a file, which the code     *)
(* does not refuse.                                                           *)
Chdir(name) ==
  /\ Begin
  /\ Known(name) # {} /\ First(Known(name)).isdir
  /\ cwd' = [dir |-> First(Known(name)).first, pos |-> 0]
  /\ Done("chdir", name, First(Known(name)))
  /\ UNCHANGED <<dirs, free, reader>>

ChdirFails(name) ==
  /\ Begin
  /\ Known(name) = {}
  /\ cwd' = [cwd EXCEPT !.pos = PosAtEnd(Here)]
  /\ Failed("chdir", name)
  /\ UNCHANGED <<dirs, free, reader>>

(* fat_unlink: only the short entry goes.                                     *)
Unlink(name) ==
  /\ Begin
  /\ Known(name) # {}
  /\ \E e \in {First(Known(name))} :
       /\ ~e.isdir
       /\ cwd' = [cwd EXCEPT !.pos = e.at]
       /\ dirs' = [dirs EXCEPT ![cwd.dir][e.at] = Deleted]
       /\ reader' = IF cwd.dir = reader.dir THEN [reader EXCEPT !.stays = @ \ {e.sname}]
                    ELSE reader
       /\ Done("unlink", name, e)
  /\ UNCHANGED free

(* There is no such name (-ENOENT), or it is a directory (-EISDIR).           *)
UnlinkFails(name) ==
  /\ Begin
  /\ Known(name) # {} => First(Known(name)).isdir
  /\ cwd' = [cwd EXCEPT !.pos = PosAfter(Here, name)]
  /\ Failed("unlink", name)
  /\ UNCHANGED <<dirs, free, reader>>

(* A program lists a directory as print_tree does: fat_open of "." copies     *)
(* vol->cwd, with its position, and fat_readdir goes on from there. stays     *)
(* are the entries behind that position that have been there ever since. A    *)
(* careful program does not list a directory after a search that failed in    *)
(* the last slot of its last cluster: vol->cwd.cur_cluster is the end mark    *)
(* then, and fat_readdir would take that for a cluster.                       *)
NoReader == [open |-> FALSE, dir |-> 0, pos |-> 0, seen |-> <<>>, stays |-> {}]

OpenDot ==
  /\ Begin
  /\ ~reader.open
  /\ cwd.dir = 0 \/ cwd.pos < Len(Here)
  /\ reader' = [NoReader EXCEPT !.open = TRUE, !.dir = cwd.dir, !.pos = cwd.pos,
                                !.stays = {e.sname : e \in ReadFrom(Here, cwd.pos)}]
  /\ UNCHANGED <<dirs, free, cwd, last>>

ReadNext_OneSlot ==
  /\ reader.open
  /\ \E entries \in {ReadFrom(dirs[reader.dir], reader.pos)} :
       reader' = IF entries = {} THEN NoReader
                 ELSE [reader EXCEPT !.pos = @ + 1, !.seen = Append(@, First(entries).sname)]
  /\ UNCHANGED <<dirs, free, cwd, last, calls>>

ReadNext ==
  /\ reader.open
  /\ \E entries \in {ReadFrom(dirs[reader.dir], reader.pos)} :
       reader' = IF entries = {} THEN NoReader
                 ELSE [reader EXCEPT !.pos = First(entries).at,
                                     !.seen = Append(@, First(entries).sname)]
  /\ UNCHANGED <<dirs, free, cwd, last, calls>>

-----------------------------------------------------------------------------
Init ==
  /\ dirs = (0 :> HostRoot)
  /\ free = FreeClusters
  /\ cwd = [dir |-> 0, pos |-> 0]
  /\ reader = NoReader
  /\ last = [op |-> "none", name |-> <<>>, ok |-> TRUE, thing |-> Nothing]
  /\ calls = 0

Next ==
  \/ \E name \in NewNames :
       \/ \E op \in {"create", "mkdir"} : CreateRefused(op, name) \/ CreateFails(op, name)
       \/ CreateFile(name)
       \/ MakeDirectory(name)
  \/ \E name \in AllNames :
       Open(name) \/ Chdir(name) \/ ChdirFails(name) \/ Unlink(name) \/ UnlinkFails(name)
  \/ OpenDot
  \/ ReadNext

Spec == Init /\ [][Next]_vars

-----------------------------------------------------------------------------
(* Properties *)

Entries(d) == ReadFrom(dirs[d], 0)
IsDots(e) == e.sname \in {Padded(<<Dot>>), Padded(DotDot)}
Listed(d) == {e \in Entries(d) : ~IsDots(e)}

(* What fat_open makes of a name that fat_readdir has given.                  *)
Opens(entries, name) ==
  First({e \in entries : name = e.name \/ (Canonical(name).out = e.sname
                                           /\ Canonical(name).k > Len(name))})

(* Directories are numbered as they are made, the root keeps its size and the *)
(* others are whole clusters, of which no more are taken than fat_find_free_  *)
(* cluster has; vol->cwd and a program's handle stand within a directory.     *)
TypeOK ==
  /\ DOMAIN dirs = 0 .. Cardinality(DOMAIN dirs) - 1
  /\ Len(dirs[0]) = Len(HostRoot)
  /\ \A d \in DOMAIN dirs \ {0} : Len(dirs[d]) % SlotsPerCluster = 0
  /\ free \in 0 .. FreeClusters
  /\ cwd.dir \in DOMAIN dirs /\ cwd.pos \in 0 .. Len(Here)
  /\ reader.dir \in DOMAIN dirs /\ reader.pos \in 0 .. Len(dirs[reader.dir])

(* Whatever is created, removed and created again over what was removed, or  *)
(* fails half way: the entries of a directory have different short names,    *)
(* and a program that opens a name that fat_readdir has given it gets that   *)
(* entry, not one that happens to answer to the name too.                    *)
ListedOpens ==
  \A d \in DOMAIN dirs :
    LET entries == Entries(d)
    IN  \A e \in entries :
          /\ Opens(entries, e.name) = e
          /\ \A f \in entries : e.sname = f.sname => e = f

(* The first empty slot is the end for fat_readdir: _fat_dir_seek_empty and   *)
(* fat_write put nothing behind it, where nobody would find it; and a         *)
(* directory that can grow has an end, or a search would leave it.            *)
EndMarked ==
  \A d \in DOMAIN dirs :
    /\ \A i \in DOMAIN dirs[d] :
         dirs[d][i] = Empty => \A j \in i .. Len(dirs[d]) : dirs[d][j] = Empty
    /\ d # 0 => Last(dirs[d]) = Empty

(* A program that lists a directory while others create and remove entries   *)
(* in it sees each entry that was there all the time, and sees it once.      *)
ReadsEach ==
  [][(reader.open /\ ~reader'.open) =>
       \A sname \in reader.stays :
         Cardinality({i \in DOMAIN reader.seen : reader.seen[i] = sname}) = 1]_vars

(* The directories implement NamedDirectories: whatever short names, runs of  *)
(* deleted entries and half-written entries there are, a name stands for one  *)
(* thing, a call that succeeds adds or removes that one alone, a call that    *)
(* fails changes nothing that can be seen, and ".." leads back.               *)
Promise == INSTANCE NamedDirectories WITH
  Names <- AllNames, Up <- DotDot,
  tree <- [d \in DOMAIN dirs |->
             {[name |-> e.name, thing |-> Thing(e)] : e \in Listed(d)}],
  parent <- [d \in DOMAIN dirs \ {0} |->
               (CHOOSE e \in Entries(d) : e.sname = Padded(DotDot)).first],
  cwd <- cwd.dir

KeepsTree == Promise!Spec
=============================================================================
