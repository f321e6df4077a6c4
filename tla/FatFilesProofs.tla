--------------------------- MODULE FatFilesProofs ---------------------------
(***************************************************************************)
(* What follows from the invariant of FatVolume on a volume whose data      *)
(* begin at a multiple of the cluster size (Aligned): every step of a call  *)
(* leaves less to do, and FatVolume implements ByteFiles.                   *)
(*                                                                         *)
(* For the last, every byte of a file is in a place of its own (BytePlace), *)
(* so a step that leaves the clusters of a file alone leaves its text       *)
(* (TextStands), fat_write changes the bytes it means to (WriteText), and   *)
(* fat_read has what lies between where it began and where it is (Heard).   *)
(***************************************************************************)
EXTENDS FatVolumeProofs, SequenceTheorems

-----------------------------------------------------------------------------
(* Every call comes to its end *)

(* Where fat_lseek is after each step along the chain.                       *)
WalkRun(v, c, n) ==
  \E r : /\ r[0] = [vol |-> v, at |-> c] /\ r[n] = Walk(v, c, n)
        /\ \A k \in 1 .. n : r[k] = WalkStep(k, r[k - 1], 0, 0)

LEMMA WalkRuns ==
  ASSUME NEW v, NEW c, NEW n \in Nat
  PROVE  WalkRun(v, c, n)
PROOF
  BY WalkFold DEF WalkRun

(* fat_lseek follows the chain as long as it leads to clusters.              *)
LEMMA WalkFollows ==
  ASSUME NEW v \in Media, Mirrored, NEW e, \A c \in Clusters : e[c] = Ent(v, c),
         NEW a \in Clusters, NEW t, Follows(t, a, e),
         NEW n \in Nat, n < Length, \A k \in 1 .. n : t[k] \in Clusters
  PROVE  Walk(v, a, n).at \in Nat /\ Walk(v, a, n).at = t[n + 1]
PROOF
  <1>1. PICK r : /\ r[0] = [vol |-> v, at |-> a] /\ r[n] = Walk(v, a, n)
                 /\ \A k \in 1 .. n : r[k] = WalkStep(k, r[k - 1], 0, 0)
    <2>1. WalkRun(v, a, n)
      BY WalkRuns
    <2> QED BY <2>1 DEF WalkRun
  <1>2. Length \in Nat /\ Length >= 1
    BY Regions DEF Length
  <1>3. \A k \in 1 .. Length : t[k] = IF k = 1 THEN a
                                      ELSE IF t[k - 1] \in Clusters THEN e[t[k - 1]] ELSE 0
    BY DEF Follows
  <1> DEFINE Kept_(k) == /\ r[k].vol \in Media /\ Same(v, r[k].vol)
                         /\ r[k].at = t[k + 1] /\ r[k].at \in Nat
             G == {k \in 0 .. n : Kept_(k)}
  <1>4. Kept_(0)
    <2>1. t[1] = a /\ a \in Nat
      BY <1>2, <1>3, Marks
    <2> QED BY <1>1, <2>1, SameSelf
  <1>5. ASSUME NEW k \in 1 .. n, Kept_(k - 1) PROVE Kept_(k)
    <2>1. r[k] = WalkStep(k, r[k - 1], 0, 0)
      BY <1>1
    <2>2. /\ r[k - 1].vol \in Media /\ Same(v, r[k - 1].vol) /\ r[k - 1].at = t[k]
          /\ t[k] \in Clusters
      BY <1>5
    <2>3. PICK y \in Media, d \in Clusters : y = r[k - 1].vol /\ d = t[k]
      BY <2>2
    <2>4. d \in FatIndex
      BY Marks
    <2>5. r[k] = GetNext(y, d)
      BY <2>1, <2>2, <2>3, <2>4 DEF WalkStep
    <2>6. GetNext(y, d).at = Ent(y, d) /\ GetNext(y, d).vol \in Media /\ Same(y, GetNext(y, d).vol)
      BY <2>4, GetNextReads
    <2>7. Ent(y, d) = Ent(v, d) /\ Ent(v, d) \in Nat
      BY <2>2, <2>3, <2>4, SameEntries, EntTyped
    <2>8. t[k + 1] = e[d]
      <3>1. k + 1 \in 1 .. Length /\ k + 1 # 1 /\ (k + 1) - 1 = k
        BY <1>2
      <3>2. t[k + 1] = IF t[(k + 1) - 1] \in Clusters THEN e[t[(k + 1) - 1]] ELSE 0
        BY <1>3, <3>1
      <3> QED BY <2>3, <3>1, <3>2
    <2>9. Same(v, r[k].vol)
      BY <2>2, <2>3, <2>5, <2>6, SameTwice
    <2> QED BY <2>5, <2>6, <2>7, <2>8, <2>9
  <1> HIDE DEF Kept_
  <1>6. 0 \in G /\ \A k \in 1 .. n : k - 1 \in G => k \in G
    BY <1>4, <1>5
  <1> HIDE DEF G
  <1>7. \A k \in 0 .. n : k \in G
    BY <1>6, SetLoop!UpTo
  <1>8. Kept_(n)
    BY <1>7 DEF G
  <1> QED BY <1>1, <1>8 DEF Kept_

(* A position within a file is in one of its clusters, or just after the last. *)
LEMMA SeekFinds ==
  ASSUME Inv, Aligned, Idle, NEW f \in Files, handle[f].open, handle[f].size > 0,
         NEW to \in Nat, to <= handle[f].size
  PROVE  /\ Walk(vol, handle[f].first, to \div ClusterSize).at \in Nat
         /\ Walk(vol, handle[f].first, to \div ClusterSize).at = Chain(f)[to \div ClusterSize + 1]
PROOF
  <1>1. /\ handle[f].first \in {0} \cup Clusters /\ handle[f].size \in Nat /\ vol \in Media
        /\ Mirrored
    BY HandleParts
  <1>2. handle[f].first \in Clusters /\ f \in UsedFiles
    BY <1>1 DEF Inv, HandleInv
  <1>3. PICK a \in Clusters, size \in Nat : a = handle[f].first /\ size = handle[f].size
    BY <1>1, <1>2
  <1>4. PICK own, rank : Owns(own, rank) /\ Measured(own, rank)
    BY DEF Inv, Linked
  <1>5. PICK e, s : e = Table /\ s = Starts /\ ChainsOf(e, s, UsedFiles, own, rank)
    BY <1>4 DEF Owns
  <1>6. s[f] = a /\ Reach(f) = size
    BY <1>3, <1>5 DEF Starts, Start, Reach, Size, Idle, InWrite
  <1>7. Covers(own, rank, f, a, size)
    BY <1>2, <1>4, <1>5, <1>6 DEF Measured, Unlinking, Idle
  <1>8. PICK t : Follows(t, a, e) /\ t = Chain(f)
    <2>1. Follows(Chain(f), s[f], e)
      BY <1>2, <1>5, OwnedByFile
    <2> QED BY <1>6, <2>1
  <1>9. PICK n \in 1 .. Length - 1 : LinedUp(t, own, rank, f, n)
    <2>1. rank[s[f]] = 0
      BY <1>6, <1>7 DEF Covers
    <2>2. UsedFiles \in SUBSET Files
      BY DEF UsedFiles
    <2> QED BY <1>2, <1>5, <1>6, <1>8, <2>1, <2>2, PlacesOfFile
  <1>10. n \in Nat \ {0} /\ Length \in Nat /\ n < Length
    BY Regions DEF Length
  <1>11. to <= n * ClusterSize
    <2>1. n * ClusterSize \in size .. size + ClusterSize
      BY <1>7, <1>9, <1>10, PlacesFit
    <2>2. ClusterSize \in Nat /\ n * ClusterSize \in Nat
      BY <1>10, ClusterHolds
    <2> QED BY <1>3, <2>1, <2>2
  <1>12. PICK q \in Nat : q = to \div ClusterSize /\ q <= n
    <2>1. PICK c \in Nat \ {0} : c = ClusterSize
      BY ClusterHolds
    <2>2. PICK q \in Nat, m \in Nat : q = to \div c /\ to = c * q + m
      <3>1. to \div c \in Nat /\ to % c \in Nat /\ to = (c * (to \div c)) + (to % c)
        OBVIOUS
      <3> QED BY <3>1
    <2>3. q <= n
      <3> SUFFICES ASSUME q > n PROVE FALSE
        BY <1>10, <2>2
      <3>1. PICK d \in Nat : q = n + 1 + d
        <4>1. q - n - 1 \in Nat /\ q = n + 1 + (q - n - 1)
          BY <1>10
        <4> QED BY <4>1
      <3>2. c * q = n * c + c + c * d /\ c * d \in Nat /\ n * c \in Nat
        BY <1>10, <2>1, <3>1
      <3> QED BY <1>11, <2>1, <2>2, <3>2
    <2> QED BY <2>1, <2>2, <2>3
  <1>13. q < Length /\ \A k \in 1 .. q : t[k] \in Clusters
    <2>1. \A k \in 1 .. q : k \in 1 .. n
      BY <1>10, <1>12
    <2> QED BY <1>9, <1>10, <1>12, <2>1 DEF LinedUp
  <1>14. \A c \in Clusters : e[c] = Ent(vol, c)
    BY <1>5 DEF Table
  <1> QED BY <1>1, <1>3, <1>8, <1>12, <1>13, <1>14, WalkFollows

(* Handles stand within their files, but for the one that fat_write has      *)
(* brought further, and no loop of fat_read or fat_write does more than it   *)
(* was asked to.                                                             *)
Within(f) == (InWrite /\ call.f = f) \/ handle[f].pos <= handle[f].size

Bounded ==
  /\ \A f \in Files : Within(f)
  /\ pc \in {"write", "read"} => call.i <= call.size
  /\ pc = "read" => handle[call.f].pos + call.size - call.i <= handle[call.f].size

Ends == (~Idle => StepsLeft' < StepsLeft) /\ pc' # "lost" /\ Bounded'

LEMMA InitBounded == Init => Bounded
PROOF
  <1> SUFFICES ASSUME Init PROVE Bounded
    OBVIOUS
  <1>1. pc = "idle" /\ \A f \in Files : handle[f] = NoHandle
    BY DEF Init
  <1>2. \A f \in Files : handle[f].pos = 0 /\ handle[f].size = 0
    BY <1>1 DEF NoHandle
  <1> QED BY <1>1, <1>2 DEF Bounded, Within

LEMMA StillWithin ==
  ASSUME Bounded, NEW f \in Files, pc = "idle", handle' = handle
  PROVE  handle'[f].pos <= handle'[f].size
PROOF
  BY DEF Bounded, Within, InWrite

(* A new handle, one that is gone, and one that fat_lseek has moved.          *)
LEMMA HandleWithin ==
  ASSUME Inv, Bounded, NEW f \in Files, NEW y, handle' = [handle EXCEPT ![f] = y],
         pc = "idle" \/ call.f = f, y.pos <= y.size, pc' \notin {"write", "read"}
  PROVE  Bounded'
PROOF
  <1>1. handle \in [Files -> Handles]
    BY DEF Inv, Typed
  <1>2. \A g \in Files : handle'[g].pos <= handle'[g].size
    <2> TAKE g \in Files
    <2>1. CASE g = f
      BY <1>1, <2>1
    <2>2. CASE g # f
      BY <1>1, <2>2 DEF Bounded, Within, InWrite
    <2> QED BY <2>1, <2>2
  <1> QED BY <1>2 DEF Bounded, Within

LEMMA OpenEnds ==
  ASSUME Inv, Bounded, NEW f \in Files, NEW async \in BOOLEAN, Create(f, async) \/ Open(f, async)
  PROVE  Ends
PROOF
  <1>1. pc = "idle" /\ pc' = "idle" /\ Dirent(f) \in Dirents
    BY HandleParts DEF Create, Open, Idle
  <1>2. PICK d : handle' = [handle EXCEPT ![f] = HandleOf(d, async)] /\ d.size \in Nat
    <2>1. [name |-> "used", size |-> 0, first |-> 0].size \in Nat /\ Dirent(f).size \in Nat
      BY <1>1 DEF Dirents
    <2> QED BY <2>1 DEF Create, Open
  <1>3. PICK y : y = HandleOf(d, async) /\ y.pos = 0 /\ y.size = d.size
    <2>1. HandleOf(d, async).pos = 0 /\ HandleOf(d, async).size = d.size
      BY DEF HandleOf
    <2> QED BY <2>1
  <1>4. handle' = [handle EXCEPT ![f] = y] /\ y.pos <= y.size /\ pc' \notin {"write", "read"}
    BY <1>1, <1>2, <1>3
  <1>5. Bounded'
    BY <1>1, <1>4, HandleWithin
  <1> QED BY <1>1, <1>5 DEF Ends, Idle

LEMMA SyncEnds ==
  ASSUME Inv, Bounded, NEW f \in Files, Sync(f) \/ UnlinkStart(f)
  PROVE  Ends
PROOF
  <1>1. pc = "idle" /\ handle' = handle /\ pc' \in {"idle", "unlink"}
    BY DEF Sync, UnlinkStart, Idle
  <1>2. \A g \in Files : handle'[g].pos <= handle'[g].size
    BY <1>1, StillWithin
  <1> QED BY <1>1, <1>2 DEF Ends, Bounded, Within, Idle

LEMMA TargetWithin ==
  ASSUME NEW x \in Handles, NEW offset \in SeekOffsets, NEW whence \in {"SET", "CUR", "END"},
         x.size > 0
  PROVE  Target(x, offset, whence) \in Nat /\ Target(x, offset, whence) <= x.size
PROOF
  <1>1. Target(x, offset, whence) \in Nat
    BY TargetTyped
  <1>2. PICK to : Target(x, offset, whence) = IF x.size # 0 /\ to > x.size THEN x.size ELSE to
    BY DEF Target
  <1>3. x.size # 0 /\ x.size \in Nat
    BY DEF Handles
  <1> QED BY <1>1, <1>2, <1>3

LEMMA SeekEnds ==
  ASSUME Inv, Bounded, Aligned, NEW f \in Files, NEW offset \in SeekOffsets,
         NEW whence \in {"SET", "CUR", "END"}, handle[f].size > 0, Seek(f, offset, whence)
  PROVE  Ends
PROOF
  <1>1. pc = "idle" /\ Idle /\ handle[f].open /\ handle \in [Files -> Handles]
    BY DEF Seek, Idle, Inv, Typed
  <1>2. PICK x \in Handles : x = handle[f]
    BY <1>1
  <1>3. PICK to \in Nat : to = Target(x, offset, whence) /\ to <= x.size
    BY <1>2, TargetWithin
  <1>4. PICK place : place = Walk(vol, x.first, to \div ClusterSize)
    OBVIOUS
  <1>5. place.at \in Nat
    BY <1>1, <1>2, <1>3, <1>4, SeekFinds
  <1>6. /\ handle' = [handle EXCEPT ![f].pos = to, ![f].cur = place.at]
        /\ pc' = IF place.at = Stray THEN "lost" ELSE "idle"
    BY <1>2, <1>3, <1>4 DEF Seek
  <1>7. pc' = "idle"
    BY <1>5, <1>6 DEF Stray
  <1>8. PICK y : y = [x EXCEPT !.pos = to, !.cur = place.at]
    OBVIOUS
  <1>9. handle' = [handle EXCEPT ![f] = y] /\ y.pos = to /\ y.size = x.size
    BY <1>1, <1>2, <1>6, <1>8 DEF Handles
  <1>10. Bounded'
    BY <1>1, <1>3, <1>7, <1>9, HandleWithin
  <1> QED BY <1>1, <1>7, <1>10 DEF Ends

LEMMA WriteStartEnds ==
  ASSUME Inv, Bounded, NEW f \in Files, NEW v \in Values, NEW n \in WriteSizes, WriteStart(f, v, n)
  PROVE  Ends
PROOF
  <1>1. /\ pc = "idle" /\ Idle /\ handle \in [Files -> Handles] /\ n \in Nat
    BY FatVolumeAssumption DEF WriteStart, Idle, Inv, Typed
  <1>2. CASE /\ pc' = "write" /\ call'.f = f /\ call'.size = n /\ call'.i = 0
             /\ \A g \in Files : g # f => handle'[g] = handle[g]
    <2>1. \A g \in Files : g # f => handle'[g].pos <= handle'[g].size
      BY <1>1, <1>2 DEF Bounded, Within, InWrite
    <2> QED BY <1>1, <1>2, <2>1 DEF Ends, Bounded, Within, InWrite
  <1>3. CASE UNCHANGED <<handle, pc, call>>
    <2>1. \A g \in Files : handle'[g].pos <= handle'[g].size
      BY <1>1, <1>3, StillWithin
    <2> QED BY <1>1, <1>3, <2>1 DEF Ends, Bounded, Within
  <1>4. CASE \E m : call' = [[NoCall EXCEPT !.f = f, !.v = v, !.size = n] EXCEPT !.sector = m]
    <2>1. PICK m : call' = [f |-> f, v |-> v, size |-> n, i |-> 0, sector |-> m,
                            start |-> 0, out |-> <<>>, cluster |-> 0]
      BY <1>4 DEF NoCall
    <2>2. call'.f = f /\ call'.size = n /\ call'.i = 0
      BY <2>1
    <2>3. CASE UNCHANGED <<handle, pc, call>>
      BY <1>3, <2>3
    <2>4. CASE ~UNCHANGED <<handle, pc, call>>
      <3>1. pc' = "write" /\ \A g \in Files : g # f => handle'[g] = handle[g]
        BY <1>1, <2>4 DEF WriteStart
      <3> QED BY <1>2, <2>2, <3>1
    <2> QED BY <2>3, <2>4
  <1>5. \/ UNCHANGED <<handle, pc, call>>
        \/ \E m : call' = [[NoCall EXCEPT !.f = f, !.v = v, !.size = n] EXCEPT !.sector = m]
    BY DEF WriteStart
  <1> QED BY <1>3, <1>4, <1>5

LEMMA ReadStartEnds ==
  ASSUME Inv, Bounded, NEW f \in Files, NEW n \in ReadSizes, handle[f].size > 0, ReadStart(f, n)
  PROVE  Ends
PROOF
  <1> DEFINE x == handle[f]
             size == IF x.size # 0 /\ x.pos + n > x.size THEN x.size - x.pos ELSE n
  <1>1. /\ pc = "idle" /\ Idle /\ pc' = "read" /\ handle' = handle
        /\ call' = [NoCall EXCEPT !.f = f, !.size = size, !.start = x.pos, !.sector = SectorOf(x)]
    BY DEF ReadStart, Idle
  <1>2. x.size \in Nat /\ x.pos \in Nat /\ n \in Nat
    BY HandleParts, FatVolumeAssumption
  <1>3. x.pos <= x.size
    BY <1>1 DEF Bounded, Within, InWrite
  <1>4. size \in Nat /\ x.pos + size <= x.size
    BY <1>2, <1>3
  <1> HIDE DEF size
  <1>5. call'.f = f /\ call'.size = size /\ call'.i = 0
    BY <1>1 DEF NoCall
  <1>6. \A g \in Files : handle'[g].pos <= handle'[g].size
    BY <1>1, StillWithin
  <1>7. handle'[f].pos + size - 0 <= handle'[f].size
    BY <1>1, <1>2, <1>4
  <1> QED BY <1>1, <1>4, <1>5, <1>6, <1>7 DEF Ends, Bounded, Within

(* What a step over one sector, or a part of it, does to the locals.         *)
MovesOn ==
  /\ call'.f = call.f /\ call'.size = call.size /\ call'.i = call.i + Chunk
  /\ Chunk \in Nat \ {0} /\ Chunk <= call.size - call.i

LEMMA ChunkLeft ==
  ASSUME Inv, call.f \in Files, call.i < call.size
  PROVE  Chunk \in Nat \ {0} /\ Chunk <= call.size - call.i
PROOF
  <1>1. /\ BytesPerSector \in Nat \ {0} /\ call.i \in Nat /\ call.size \in Int
        /\ Chunk \in Nat \ {0} /\ OffsetOf(handle[call.f]) \in 0 .. BytesPerSector - 1
    BY ChunkFits, Regions DEF Inv, Typed
  <1> QED BY <1>1 DEF Chunk

LEMMA LocalsMove ==
  ASSUME Inv, call.f \in Files, call.i < call.size,
         NEW n, NEW o, \/ call' = [call EXCEPT !.i = @ + Chunk]
                       \/ call' = [call EXCEPT !.i = @ + Chunk, !.sector = n]
                       \/ call' = [[call EXCEPT !.i = @ + Chunk, !.out = o] EXCEPT !.sector = n]
  PROVE  MovesOn
PROOF
  <1>1. PICK chunk \in Nat \ {0} : chunk = Chunk /\ chunk <= call.size - call.i
    BY ChunkLeft
  <1>2. PICK i : i = call.i + chunk
    OBVIOUS
  <1>3. call = [f |-> call.f, v |-> call.v, size |-> call.size, i |-> call.i,
                sector |-> call.sector, start |-> call.start, out |-> call.out,
                cluster |-> call.cluster]
    BY DEF Inv, Typed
  <1>4. \/ call' = [call EXCEPT !.i = i]
        \/ call' = [call EXCEPT !.i = i, !.sector = n]
        \/ call' = [[call EXCEPT !.i = i, !.out = o] EXCEPT !.sector = n]
    BY <1>1, <1>2
  <1>5. call'.f = call.f /\ call'.size = call.size /\ call'.i = i
    BY <1>3, <1>4
  <1> QED BY <1>1, <1>2, <1>5 DEF MovesOn

LEMMA WriteStepEnds ==
  ASSUME Inv, Bounded, WriteSector \/ WriteAcross
  PROVE  Ends
PROOF
  <1>1. /\ pc = "write" /\ call.i < call.size /\ call.f \in Files /\ pc' \in {"write", "written"}
        /\ handle \in [Files -> Handles]
    BY DEF WriteSector, WriteAcross, Writing, Inv, Typed
  <1>2. MovesOn
    <2>1. \E n, o : \/ call' = [call EXCEPT !.i = @ + Chunk]
                    \/ call' = [call EXCEPT !.i = @ + Chunk, !.sector = n]
                    \/ call' = [[call EXCEPT !.i = @ + Chunk, !.out = o] EXCEPT !.sector = n]
      <3>1. CASE WriteSector
        <4>1. call' = [call EXCEPT !.i = @ + Chunk,
                                   !.sector = IF SectorEnds THEN call.sector + 1 ELSE call.sector]
          BY <3>1 DEF WriteSector
        <4> QED BY <4>1
      <3>2. CASE WriteAcross
        BY <3>2 DEF WriteAcross
      <3> QED BY <3>1, <3>2
    <2> QED BY <1>1, <2>1, LocalsMove
  <1>3. \A g \in Files : g # call.f => handle'[g] = handle[g]
    BY <1>1 DEF WriteSector, WriteAcross
  <1>4. call.i \in Nat /\ call.size \in Int
    BY DEF Inv, Typed
  <1>5. call'.i <= call'.size /\ call'.size - call'.i < call.size - call.i
    BY <1>2, <1>4 DEF MovesOn
  <1>6. Bounded'
    <2>1. \A g \in Files : Within(g)'
      BY <1>1, <1>2, <1>3 DEF Bounded, Within, InWrite, MovesOn
    <2> QED BY <1>1, <1>5, <2>1 DEF Bounded
  <1>7. StepsLeft' < StepsLeft
    <2>1. StepsLeft = 1 + call.size - call.i
      BY <1>1 DEF StepsLeft
    <2>2. StepsLeft' = IF pc' = "write" THEN 1 + call'.size - call'.i ELSE 1
      BY <1>1 DEF StepsLeft
    <2>3. call'.size \in Int /\ call'.i \in Int
      BY <1>2, <1>4 DEF MovesOn
    <2> QED BY <1>1, <1>4, <1>5, <2>1, <2>2, <2>3
  <1> QED BY <1>1, <1>6, <1>7 DEF Ends

LEMMA ReadStepEnds ==
  ASSUME Inv, Bounded, ReadSector
  PROVE  Ends
PROOF
  <1>1. /\ pc = "read" /\ call.i < call.size /\ pc' \in {"read", "readend"}
        /\ handle \in [Files -> Handles]
    BY DEF ReadSector, Inv, Typed
  <1>2. PICK f \in Files, x \in Handles : f = call.f /\ x = handle[f]
    BY <1>1 DEF Inv, Typed
  <1>3. MovesOn
    <2>1. \E n, o : \/ call' = [call EXCEPT !.i = @ + Chunk]
                    \/ call' = [call EXCEPT !.i = @ + Chunk, !.sector = n]
                    \/ call' = [[call EXCEPT !.i = @ + Chunk, !.out = o] EXCEPT !.sector = n]
      <3> DEFINE read == Get(vol, call.sector)
                 out == call.out \o [k \in 1 .. Chunk |-> read.buf[OffsetOf(handle[call.f]) + k - 1]]
                 locals == [call EXCEPT !.i = @ + Chunk, !.out = out]
      <3>1. PICK m : \/ call' = [locals EXCEPT !.sector = m]
                     \/ call' = [locals EXCEPT !.sector = IF SectorEnds THEN @ + 1 ELSE @]
        BY DEF ReadSector
      <3>2. locals.sector = call.sector
        BY DEF Inv, Typed
      <3>3. \E n : call' = [locals EXCEPT !.sector = n]
        BY <3>1
      <3> QED BY <3>3
    <2> QED BY <1>1, <1>2, <2>1, LocalsMove
  <1>4. PICK chunk \in Nat \ {0} : /\ chunk = Chunk /\ chunk <= call.size - call.i
                                  /\ call'.i = call.i + chunk
    BY <1>3 DEF MovesOn
  <1>5. PICK y : /\ handle' = [handle EXCEPT ![f] = y] /\ y.pos = x.pos + chunk /\ y.size = x.size
    <2>1. PICK m : m = [x EXCEPT !.pos = x.pos + chunk]
      OBVIOUS
    <2>2. \/ handle' = [handle EXCEPT ![f] = m]
          \/ \E at : handle' = [handle EXCEPT ![f] = [m EXCEPT !.cur = at]]
      BY <1>2, <1>4, <2>1 DEF ReadSector
    <2>3. m.pos = x.pos + chunk /\ m.size = x.size
          /\ \A at : [m EXCEPT !.cur = at].pos = m.pos /\ [m EXCEPT !.cur = at].size = m.size
      BY <2>1 DEF Handles
    <2>4. CASE handle' = [handle EXCEPT ![f] = m]
      BY <2>3, <2>4
    <2>5. CASE \E at : handle' = [handle EXCEPT ![f] = [m EXCEPT !.cur = at]]
      <3>1. PICK at : handle' = [handle EXCEPT ![f] = [m EXCEPT !.cur = at]]
        BY <2>5
      <3>2. PICK y : y = [m EXCEPT !.cur = at]
        OBVIOUS
      <3>3. y.pos = x.pos + chunk /\ y.size = x.size
        BY <2>3, <3>2
      <3> QED BY <3>1, <3>2, <3>3
    <2> QED BY <2>2, <2>4, <2>5
  <1>6. /\ call.i \in Nat /\ call.size \in Int /\ x.pos \in Nat /\ x.size \in Nat
        /\ call'.f = f /\ call'.size = call.size
    BY <1>2, <1>3 DEF Inv, Typed, Handles, MovesOn
  <1>7. x.pos + call.size - call.i <= x.size
    BY <1>1, <1>2 DEF Bounded
  <1>8. y.pos <= y.size /\ y.pos + call'.size - call'.i <= y.size
        /\ call'.i <= call'.size /\ call'.size - call'.i < call.size - call.i
    BY <1>4, <1>5, <1>6, <1>7
  <1>9. handle'[f] = y /\ \A g \in Files : g # f => handle'[g] = handle[g]
    BY <1>1, <1>5
  <1>10. Bounded'
    <2>1. \A g \in Files : handle'[g].pos <= handle'[g].size
      BY <1>1, <1>8, <1>9 DEF Bounded, Within, InWrite
    <2> QED BY <1>6, <1>8, <1>9, <2>1 DEF Bounded, Within
  <1>11. StepsLeft' < StepsLeft
    <2>1. StepsLeft = 1 + call.size - call.i
      BY <1>1 DEF StepsLeft
    <2>2. StepsLeft' = IF pc' = "read" THEN 1 + call'.size - call'.i ELSE 1
      BY <1>1 DEF StepsLeft
    <2>3. call'.size \in Int /\ call'.i \in Int
      BY <1>4, <1>6
    <2> QED BY <1>1, <1>6, <1>8, <2>1, <2>2, <2>3
  <1> QED BY <1>1, <1>10, <1>11 DEF Ends

LEMMA DoneEnds ==
  ASSUME Inv, Bounded, WriteDone \/ ReadDone
  PROVE  Ends
PROOF
  <1>1. pc \in {"write", "written", "read", "readend"} /\ pc' = "idle" /\ handle \in [Files -> Handles]
    BY DEF WriteDone, ReadDone, Inv, Typed
  <1>2. PICK f \in Files, x \in Handles : f = call.f /\ x = handle[f]
    BY <1>1 DEF Inv, Typed
  <1>3. Bounded'
    <2>1. CASE WriteDone
      <3>1. x.pos \in Nat /\ x.size \in Nat
        BY DEF Handles
      <3>2. PICK size \in Nat : size = (IF x.size < x.pos THEN x.pos ELSE x.size) /\ x.pos <= size
        BY <3>1
      <3>3. PICK y : y = [x EXCEPT !.size = size]
        OBVIOUS
      <3>4. handle' = [handle EXCEPT ![f] = y]
        BY <1>2, <2>1, <3>2, <3>3 DEF WriteDone
      <3>5. y.pos <= y.size
        BY <3>2, <3>3 DEF Handles
      <3>6. pc' \notin {"write", "read"}
        BY <1>1
      <3> QED BY <1>2, <3>4, <3>5, <3>6, HandleWithin
    <2>2. CASE ReadDone
      <3>1. handle' = handle /\ pc \in {"read", "readend"}
        BY <2>2 DEF ReadDone
      <3>2. \A g \in Files : handle'[g].pos <= handle'[g].size
        BY <3>1 DEF Bounded, Within, InWrite
      <3> QED BY <1>1, <3>2 DEF Bounded, Within
    <2> QED BY <2>1, <2>2
  <1>4. StepsLeft' < StepsLeft
    <2>1. StepsLeft' = 0
      BY <1>1 DEF StepsLeft
    <2>2. StepsLeft = IF pc \in {"write", "read"} THEN 1 + call.size - call.i ELSE 1
      BY <1>1 DEF StepsLeft
    <2>3. pc \in {"write", "read"} => call.i <= call.size
      BY DEF Bounded
    <2>4. call.i \in Nat /\ call.size \in Int
      BY DEF Inv, Typed
    <2> QED BY <2>1, <2>2, <2>3, <2>4
  <1> QED BY <1>1, <1>3, <1>4 DEF Ends

(* The entries that are taken: fat_unlink makes them one less with each step. *)
Taken == {c \in Clusters : Ent(vol, c) # 0}

LEMMA SeenTaken == Inv => {c \in Clusters : Entry(c) # 0} = Taken
PROOF
  <1> SUFFICES ASSUME Inv PROVE {c \in Clusters : Entry(c) # 0} = Taken
    OBVIOUS
  <1>1. vol \in Media /\ Mirrored
    BY DEF Inv, Typed
  <1>2. \A c \in Clusters : Entry(c) = Ent(vol, c)
    BY <1>1, SeenEntry, Marks
  <1> QED BY <1>2 DEF Taken

UnlinkLeft == pc = "unlink" => StepsLeft = 1 + Cardinality(Taken)

LEMMA InvUnlinkLeft == Inv => UnlinkLeft
PROOF
  <1> SUFFICES ASSUME Inv, pc = "unlink" PROVE StepsLeft = 1 + Cardinality(Taken)
    BY DEF UnlinkLeft
  <1>1. {c \in Clusters : Entry(c) # 0} = Taken
    BY SeenTaken
  <1> QED BY <1>1 DEF StepsLeft

LEMMA TakenFinite == IsFiniteSet(Taken) /\ Cardinality(Taken) \in Nat
PROOF
  <1>1. IsFiniteSet(Clusters)
    BY Regions, FS_Interval DEF Clusters
  <1>2. IsFiniteSet(Taken)
    BY <1>1, FS_Subset DEF Taken
  <1> QED BY <1>2, FS_CardinalityType

LEMMA UnlinkStepEnds ==
  ASSUME Inv, Bounded, UnlinkStep, UnlinkLeft'
  PROVE  Ends
PROOF
  <1>1. /\ pc = "unlink" /\ pc' = "unlink" /\ handle' = handle
        /\ call.cluster \in FatIndex \ {0}
        /\ vol' = SetNext(GetNext(vol, call.cluster).vol, call.cluster, 0)
    BY DEF UnlinkStep
  <1>2. /\ call.f \in UsedFiles /\ call.cluster \in {0, Eoc} \cup Clusters /\ vol \in Media /\ Mirrored
        /\ UsedFiles \in SUBSET Files
    BY <1>1 DEF Inv, Typed, CallInv, UsedFiles
  <1>3. PICK c \in Clusters : c = call.cluster /\ c \in FatIndex
    BY <1>1, <1>2, Marks
  <1>4. PICK u \in Media : u = GetNext(vol, c).vol /\ Same(vol, u)
    BY <1>2, <1>3, GetNextReads
  <1>5. EntryIsSet(u, SetNext(u, c, 0), c, 0)
    BY <1>2, <1>3, Marks, SetNextKeeps
  <1>6. \A d \in FatIndex : Ent(vol', d) = IF d = c THEN 0 ELSE Ent(vol, d)
    <2>1. \A d \in FatIndex : Ent(u, d) = Ent(vol, d)
      BY <1>4, SameEntries
    <2>2. vol' = SetNext(u, c, 0)
      BY <1>1, <1>3, <1>4
    <2> QED BY <1>5, <2>1, <2>2 DEF EntryIsSet
  <1>7. Ent(vol, c) # 0
    <2>1. PICK own, rank : ChainsOf(Table, Starts, UsedFiles, own, rank)
      BY DEF Inv, Linked, Owns
    <2>2. Starts[call.f] = c
      BY <1>1, <1>2, <1>3 DEF Starts, Start
    <2>3. own[c] = call.f /\ call.f # 0
      BY <1>2, <2>1, <2>2, FilesNotZero DEF ChainsOf
    <2>4. Table[c] # 0
      BY <2>1, <2>3 DEF ChainsOf
    <2> QED BY <2>4 DEF Table
  <1>8. Taken' = Taken \ {c} /\ c \in Taken
    BY <1>6, <1>7, Marks DEF Taken
  <1>9. Cardinality(Taken') = Cardinality(Taken) - 1 /\ Cardinality(Taken) \in Nat
    BY <1>8, TakenFinite, FS_RemoveElement
  <1>10. StepsLeft = 1 + Cardinality(Taken) /\ StepsLeft' = 1 + Cardinality(Taken')
    BY <1>1, InvUnlinkLeft DEF UnlinkLeft
  <1>11. Bounded'
    <2>1. \A g \in Files : handle'[g].pos <= handle'[g].size
      BY <1>1 DEF Bounded, Within, InWrite
    <2> QED BY <1>1, <2>1 DEF Bounded, Within
  <1> QED BY <1>1, <1>9, <1>10, <1>11 DEF Ends

LEMMA UnlinkDoneEnds ==
  ASSUME Inv, Bounded, UnlinkDone
  PROVE  Ends
PROOF
  <1>1. /\ pc = "unlink" /\ pc' = "idle" /\ handle' = [handle EXCEPT ![call.f] = NoHandle]
        /\ call.f \in Files
    BY DEF UnlinkDone, Inv, Typed
  <1>2. PICK f \in Files : f = call.f
    BY <1>1
  <1>6. PICK y : y = NoHandle /\ y.pos <= y.size
    <2>1. NoHandle.pos = 0 /\ NoHandle.size = 0
      BY DEF NoHandle
    <2>2. NoHandle.pos <= NoHandle.size
      BY <2>1
    <2> QED BY <2>2
  <1>3. Bounded'
    <2>1. handle' = [handle EXCEPT ![f] = y] /\ pc' \notin {"write", "read"}
      BY <1>1, <1>2, <1>6
    <2> QED BY <1>2, <1>6, <2>1, HandleWithin
  <1>4. StepsLeft = 1 + Cardinality(Taken) /\ Cardinality(Taken) \in Nat
    BY <1>1, InvUnlinkLeft, TakenFinite DEF UnlinkLeft
  <1>5. StepsLeft' = 0
    BY <1>1 DEF StepsLeft
  <1> QED BY <1>1, <1>3, <1>4, <1>5 DEF Ends

(* Every step keeps the positions within the files and, if a call is under way, *)
(* brings it nearer to its return.                                             *)
LEMMA StepEnds == Inv /\ UnlinkLeft' /\ Aligned /\ Bounded /\ [Next]_vars => Bounded' /\ [Ends]_vars
PROOF
  <1> SUFFICES ASSUME Inv, UnlinkLeft', Aligned, Bounded, [Next]_vars
               PROVE  Bounded' /\ [Ends]_vars
    OBVIOUS
  <1>1. CASE Counted /\ \E f \in Files : Careful(f)
    <2>1. PICK f \in Files : Careful(f)
      BY <1>1
    <2>2. CASE \E async \in BOOLEAN : Create(f, async) \/ (Synced(f) /\ Open(f, async))
      BY <2>2, OpenEnds DEF Ends
    <2>3. CASE Sync(f)
      BY <2>3, SyncEnds DEF Ends
    <2>4. CASE /\ handle[f].size > 0
               /\ \E offset \in SeekOffsets, whence \in {"SET", "CUR", "END"} : Seek(f, offset, whence)
      BY <2>4, SeekEnds DEF Ends
    <2>5. CASE /\ f # HostFile /\ HasRoom(f)
               /\ \E v \in Values, n \in WriteSizes : WriteStart(f, v, n)
      BY <2>5, WriteStartEnds DEF Ends
    <2>6. CASE handle[f].size > 0 /\ \E n \in ReadSizes : ReadStart(f, n)
      BY <2>6, ReadStartEnds DEF Ends
    <2>7. CASE f # HostFile /\ Synced(f) /\ UnlinkStart(f)
      BY <2>7, SyncEnds DEF Ends
    <2> QED BY <2>1, <2>2, <2>3, <2>4, <2>5, <2>6, <2>7 DEF Careful
  <1>2. CASE Internal
    BY <1>2, WriteStepEnds, ReadStepEnds, DoneEnds, UnlinkStepEnds, UnlinkDoneEnds DEF Internal, Ends
  <1>3. CASE UNCHANGED vars
    BY <1>3 DEF vars, Bounded, Within, InWrite
  <1> QED BY <1>1, <1>2, <1>3 DEF Next, Rest

(* CallsEnd: every step of fat_write, fat_read and fat_unlink brings the call *)
(* nearer to its return, and fat_lseek finds the cluster it looks for: no    *)
(* loop over sectors or along a chain goes on for ever or leads out of the   *)
(* table.                                                                    *)
THEOREM CallsComeToEnd == Mirrored /\ Aligned /\ Spec => CallsEnd
PROOF
  <1>1. Aligned => Aligned'
    BY DEF Aligned
  <1>2. [Ends]_vars => [(~Idle => StepsLeft' < StepsLeft) /\ pc' # "lost"]_vars
    BY DEF Ends
  <1> QED BY <1>1, <1>2, InitBounded, StepEnds, InvUnlinkLeft, Invariance, PTL DEF Spec, CallsEnd

-----------------------------------------------------------------------------
(* Where the bytes of a file are *)

(* The links that have not changed lead where they led.                      *)
LEMMA ChainKept ==
  ASSUME NEW a, NEW e, NEW e2, NEW t, NEW t2, Follows(t, a, e), Follows(t2, a, e2),
         NEW n \in 1 .. Length, \A k \in 1 .. n - 1 : t[k] \in Clusters => e2[t[k]] = e[t[k]]
  PROVE  \A k \in 1 .. n : t2[k] = t[k]
PROOF
  <1>1. Length \in Nat /\ n \in Nat /\ n <= Length
    BY Regions DEF Length
  <1>2. \A k \in 1 .. Length : t[k] = IF k = 1 THEN a
                                      ELSE IF t[k - 1] \in Clusters THEN e[t[k - 1]] ELSE 0
    BY DEF Follows
  <1>3. \A k \in 1 .. Length : t2[k] = IF k = 1 THEN a
                                       ELSE IF t2[k - 1] \in Clusters THEN e2[t2[k - 1]] ELSE 0
    BY DEF Follows
  <1> DEFINE G == {k \in 0 .. n : k # 0 => t2[k] = t[k]}
  <1>4. 0 \in G
    BY <1>1
  <1>5. ASSUME NEW k \in 1 .. n, k - 1 \in G PROVE k \in G
    <2>1. k \in 1 .. Length
      BY <1>1
    <2>2. CASE k = 1
      BY <1>2, <1>3, <2>1, <2>2
    <2>3. CASE k # 1
      <3>1. k - 1 \in 1 .. n - 1 /\ t2[k - 1] = t[k - 1]
        BY <1>1, <1>5, <2>3
      <3>2. /\ t[k] = IF t[k - 1] \in Clusters THEN e[t[k - 1]] ELSE 0
            /\ t2[k] = IF t2[k - 1] \in Clusters THEN e2[t2[k - 1]] ELSE 0
        BY <1>2, <1>3, <2>1, <2>3
      <3>3. t[k - 1] \in Clusters => e2[t[k - 1]] = e[t[k - 1]]
        BY <3>1
      <3> QED BY <3>1, <3>2, <3>3
    <2> QED BY <2>2, <2>3
  <1> HIDE DEF G
  <1>6. \A k \in 0 .. n : k \in G
    BY <1>1, <1>4, <1>5, SetLoop!UpTo
  <1> QED BY <1>1, <1>6 DEF G

(* The sector that byte p of a file is in, if t are its clusters, and its    *)
(* first n bytes.                                                            *)
PlaceOn(t, p) ==
  FirstSector(t[1 + p \div ClusterSize]) + ((p % ClusterSize) \div BytesPerSector)

Bytes(v, t, n) ==
  [i \in 1 .. n |-> Content(v, PlaceOn(t, i - 1))[(i - 1) % BytesPerSector]]

(* Byte p of the file with the clusters t is byte o of sector j of cluster c, *)
(* which is the file's own.                                                   *)
Lies(own, rank, t, f, p, c, j, o) ==
  /\ c \in Clusters /\ own[c] = f /\ rank[c] \in Nat
  /\ j \in 0 .. SectorsPerCluster - 1 /\ o \in 0 .. BytesPerSector - 1
  /\ p = rank[c] * ClusterSize + j * BytesPerSector + o
  /\ p \div ClusterSize = rank[c] /\ 1 + p \div ClusterSize \in 1 .. Length
  /\ t[1 + p \div ClusterSize] = c
  /\ PlaceOn(t, p) = FirstSector(c) + j /\ p % BytesPerSector = o

(* Where a position is in its cluster, by what is left of it.                *)
LEMMA SectorOfPlace ==
  ASSUME NEW r \in Nat, NEW j \in 0 .. SectorsPerCluster - 1, NEW o \in 0 .. BytesPerSector - 1,
         NEW p, p = r * ClusterSize + j * BytesPerSector + o
  PROVE  /\ p \in Nat /\ p \div ClusterSize = r /\ (p % ClusterSize) \div BytesPerSector = j
         /\ p % BytesPerSector = o /\ (p \div BytesPerSector) % SectorsPerCluster = j
PROOF
  <1>1. PICK b \in Nat \ {0}, n \in Nat \ {0}, s \in Nat \ {0} :
          b = BytesPerSector /\ n = SectorsPerCluster /\ s = ClusterSize /\ s = b * n
    BY ClusterHolds
  <1>2. j \in Nat /\ o \in Nat /\ j < n /\ o < b
    BY <1>1
  <1>3. PICK m \in Nat : m = b * j + o
    BY <1>1, <1>2
  <1>4. m < s
    <2>1. PICK d \in Nat : n = j + 1 + d
      <3>1. n - j - 1 \in Nat /\ n = j + 1 + (n - j - 1)
        BY <1>1, <1>2
      <3> QED BY <3>1
    <2>2. b * n = b * j + b + b * d /\ b * d \in Nat /\ b * j \in Nat
      BY <1>1, <1>2, <2>1
    <2> QED BY <1>1, <1>2, <1>3, <2>2
  <1>5. p = s * r + m
    <2>1. PICK x \in Nat, y \in Nat : x = r * s /\ y = j * b
      BY <1>1, <1>2
    <2>2. s * r = x /\ b * j = y
      BY <1>1, <1>2, <2>1
    <2>3. p = x + y + o
      BY <1>1, <2>1
    <2> QED BY <1>2, <1>3, <2>2, <2>3
  <1>6. p \div s = r /\ p % s = m
    <2>1. m \in 0 .. s - 1
      BY <1>4
    <2> QED BY <1>1, <1>5, <2>1, DividedBy
  <1>7. m \div b = j
    <2>1. o \in 0 .. b - 1
      BY <1>2
    <2> QED BY <1>1, <1>2, <1>3, <2>1, DividedBy
  <1>8. PICK q \in Nat : q = n * r + j
    BY <1>1, <1>2
  <1>9. p = b * q + o
    <2>1. PICK x \in Nat : x = b * n * r
      BY <1>1
    <2>2. (b * n) * r = x /\ b * (n * r + j) = x + b * j
      BY <1>1, <1>2, <2>1
    <2>3. p = x + (b * j + o)
      BY <1>1, <1>3, <1>5, <2>2
    <2>4. b * j \in Nat
      BY <1>1, <1>2
    <2> QED BY <1>2, <1>8, <2>2, <2>3, <2>4
  <1>10. p \div b = q /\ p % b = o
    <2>1. o \in 0 .. b - 1
      BY <1>2
    <2> QED BY <1>1, <1>8, <1>9, <2>1, DividedBy
  <1>11. q % n = j
    <2>1. j \in 0 .. n - 1
      BY <1>2
    <2> QED BY <1>1, <1>8, <2>1, DividedBy
  <1>12. p \in Nat
    <2>1. s * r \in Nat
      BY <1>1
    <2> QED BY <1>3, <1>5, <2>1
  <1> QED BY <1>1, <1>6, <1>7, <1>10, <1>11, <1>12

LEMMA ClustersApart ==
  ASSUME NEW c \in Clusters, NEW d \in Clusters,
         NEW j \in 0 .. SectorsPerCluster - 1, NEW k \in 0 .. SectorsPerCluster - 1,
         FirstSector(c) + j = FirstSector(d) + k
  PROVE  c = d /\ j = k
PROOF
  <1>1. PICK n \in Nat \ {0}, x \in Nat : n = SectorsPerCluster /\ x = FirstDataSector
    BY Regions
  <1>2. PICK q \in Nat, r \in Nat : q = c - 2 /\ r = d - 2
    <2>1. c - 2 \in Nat /\ d - 2 \in Nat
      BY Marks
    <2> QED BY <2>1
  <1>3. j \in 0 .. n - 1 /\ k \in 0 .. n - 1 /\ j \in Nat /\ k \in Nat
    BY <1>1
  <1>4. n * q + j = n * r + k
    <2>1. FirstSector(c) = q * n + x /\ FirstSector(d) = r * n + x
      BY <1>1, <1>2 DEF FirstSector
    <2>2. q * n = n * q /\ r * n = n * r /\ n * q \in Nat /\ n * r \in Nat
      BY <1>1, <1>2
    <2> QED BY <1>1, <1>3, <2>1, <2>2
  <1>5. (n * q + j) \div n = q /\ (n * q + j) % n = j /\ (n * r + k) \div n = r /\ (n * r + k) % n = k
    BY <1>1, <1>2, <1>3, DividedBy
  <1>6. q = r /\ j = k
    BY <1>4, <1>5
  <1>7. c \in Nat /\ d \in Nat
    BY Marks
  <1> QED BY <1>2, <1>6, <1>7

(* What the links of the table lead to from the first cluster of a file.     *)
LEMMA ChainOf ==
  ASSUME Inv, NEW f \in Files
  PROVE  /\ FirstOf(f) = IF handle[f].open THEN handle[f].first ELSE Dir(vol, f).first
         /\ FirstOf(f) \in {0} \cup Clusters
         /\ Follows(Chain(f), FirstOf(f), Table)
         /\ ~Unlinking(f) => FirstOf(f) = Starts[f]
PROOF
  <1>1. /\ vol \in Media /\ Mirrored /\ handle[f].first \in {0} \cup Clusters
        /\ Dir(vol, f) \in Dirents /\ Dirent(f) = Dir(vol, f)
    BY HandleParts
  <1>2. FirstOf(f) = IF handle[f].open THEN handle[f].first ELSE Dir(vol, f).first
    BY <1>1 DEF FirstOf
  <1>3. Dir(vol, f).first \in {0} \cup Clusters
    BY <1>1 DEF Dirents
  <1>4. Follows(Chain(f), FirstOf(f), Table)
    BY <1>1, SeenChain
  <1>5. ~Unlinking(f) => FirstOf(f) = Starts[f]
    BY <1>2 DEF Starts, Start, Unlinking
  <1> QED BY <1>1, <1>2, <1>3, <1>4, <1>5

(* Every byte within reach is in a cluster of the file.                      *)
LEMMA BytePlace ==
  ASSUME Inv, NEW own, NEW rank, Owns(own, rank), Measured(own, rank),
         NEW f \in UsedFiles, ~Unlinking(f), Reach(f) \in Nat
  PROVE  /\ \A k \in 1 .. Length : Chain(f)[k] \in Clusters => own[Chain(f)[k]] = f
         /\ \A c \in Clusters : own[c] = f =>
              /\ rank[c] \in Nat /\ rank[c] + 1 \in 1 .. Length
              /\ Chain(f)[rank[c] + 1] = c
         /\ \A p \in 0 .. Reach(f) - 1 : \E c, j, o : Lies(own, rank, Chain(f), f, p, c, j, o)
PROOF
  <1>1. f \in Files /\ UsedFiles \in SUBSET Files
    BY DEF UsedFiles
  <1>2. PICK a : a = Starts[f] /\ a \in {0} \cup Clusters
    BY <1>1, ChainOf
  <1>3. PICK t : t = Chain(f) /\ Follows(t, a, Table)
    BY <1>1, <1>2, ChainOf
  <1>4. ChainsOf(Table, Starts, UsedFiles, own, rank)
    BY DEF Owns
  <1>5. Covers(own, rank, f, a, Reach(f))
    BY <1>2 DEF Measured
  <1>6. \A k \in 1 .. Length : t[k] \in Clusters => own[t[k]] = f
    <2>1. PICK e, s : e = Table /\ s = Starts
      OBVIOUS
    <2>2. ChainsOf(e, s, UsedFiles, own, rank) /\ Follows(t, s[f], e)
      BY <1>2, <1>3, <1>4, <2>1
    <2>3. \A k \in 1 .. Length :
            t[k] \in Clusters => /\ own[t[k]] = f /\ rank[t[k]] = rank[s[f]] + k - 1
                                 /\ \A i \in 1 .. k : t[i] \in Clusters
      BY <1>1, <2>2, StaysOwned
    <2> QED BY <2>3
  <1>7. CASE a \in Clusters
    <2>1. PICK n \in 1 .. Length - 1 : LinedUp(t, own, rank, f, n)
      <3>1. rank[a] = 0
        BY <1>5, <1>7 DEF Covers
      <3> QED BY <1>1, <1>2, <1>3, <1>4, <1>7, <3>1, PlacesOfFile
    <2>2. n \in Nat \ {0} /\ Length \in Nat /\ n < Length
      BY Regions DEF Length
    <2>3. ASSUME NEW c \in Clusters, own[c] = f
          PROVE  rank[c] \in Nat /\ rank[c] + 1 \in 1 .. Length /\ t[rank[c] + 1] = c
      <3>1. PICK k \in 1 .. n : t[k] = c /\ rank[c] = k - 1
        BY <2>1, <2>3 DEF LinedUp
      <3> QED BY <2>2, <3>1
    <2>4. Reach(f) <= n * ClusterSize /\ n * ClusterSize \in Nat
      <3>1. n * ClusterSize \in Reach(f) .. Reach(f) + ClusterSize
        BY <1>5, <2>1, <2>2, PlacesFit
      <3> QED BY <2>2, <3>1, ClusterHolds
    <2>5. ASSUME NEW p \in 0 .. Reach(f) - 1
          PROVE  \E c, j, o : Lies(own, rank, t, f, p, c, j, o)
      <3>1. PICK q \in Nat : q = p \div ClusterSize
        BY ClusterHolds
      <3>2. PICK j \in 0 .. SectorsPerCluster - 1, o \in 0 .. BytesPerSector - 1 :
              p = q * ClusterSize + j * BytesPerSector + o
        BY <3>1, PlaceOf
      <3>3. q + 1 \in 1 .. n
        <4>1. PICK s \in Nat \ {0} : s = ClusterSize
          BY ClusterHolds
        <4>2. p \in 0 .. n * s - 1
          BY <2>4, <4>1
        <4>3. p \div s \in 0 .. n - 1
          BY <2>2, <4>2, <4>1, InFirst
        <4> QED BY <2>2, <3>1, <4>1, <4>3
      <3>4. PICK c \in Clusters : c = t[q + 1] /\ own[c] = f /\ rank[c] = q
        <4>1. t[q + 1] \in Clusters /\ own[t[q + 1]] = f /\ rank[t[q + 1]] = q + 1 - 1
          BY <2>1, <3>3 DEF LinedUp
        <4> QED BY <4>1
      <3>5. /\ (p % ClusterSize) \div BytesPerSector = j /\ p % BytesPerSector = o
        BY <3>2, SectorOfPlace
      <3>6. PlaceOn(t, p) = FirstSector(c) + j
        <4>1. 1 + p \div ClusterSize = q + 1
          BY <3>1
        <4> QED BY <3>4, <3>5, <4>1 DEF PlaceOn
      <3>7. Lies(own, rank, t, f, p, c, j, o)
        <4>1. 1 + p \div ClusterSize = q + 1 /\ q + 1 \in 1 .. Length
          BY <2>2, <3>1, <3>3
        <4> QED BY <3>1, <3>2, <3>4, <3>5, <3>6, <4>1 DEF Lies
      <3> QED BY <3>7
    <2> QED BY <1>3, <1>6, <2>3, <2>5
  <1>8. CASE a \notin Clusters
    <2>1. \A c \in Clusters : own[c] # f
      <3> SUFFICES ASSUME NEW c \in Clusters, own[c] = f PROVE FALSE
        OBVIOUS
      <3>1. own[c] # 0
        BY <1>1, FilesNotZero
      <3>2. Starts[own[c]] \in Clusters
        BY <1>1, <1>4, <3>1, Rooted
      <3> QED BY <1>2, <1>8, <3>2
    <2>2. ~(Reach(f) > 0)
      BY <1>5, <2>1 DEF Covers
    <2> QED BY <1>3, <1>6, <2>1, <2>2
  <1> QED BY <1>2, <1>7, <1>8

(* The files there are for programs, and where their handles stand.          *)
Live == {f \in UsedFiles : ~Unlinking(f)}

Reading(f) == pc \in {"read", "readend"} /\ call.f = f

At(f) ==
  IF Unlinking(f) \/ ~handle[f].open THEN -1
  ELSE IF Reading(f) THEN call.start ELSE handle[f].pos

(* What the definitions that ByteFiles is given stand for.                   *)
Seen ==
  /\ \A f \in Files :
       /\ Follows(Chain(f), FirstOf(f), Table)
       /\ FirstOf(f) = IF handle[f].open THEN handle[f].first ELSE Dir(vol, f).first
  /\ \A f \in Live : Reach(f) \in Nat /\ Text(f) = Bytes(vol, Chain(f), Reach(f))
  /\ Contents = [f \in Live |-> Text(f)]
  /\ Positions = [f \in Files |-> At(f)]
  /\ pc = "write" =>
       handle[call.f].cur = Chain(call.f)[1 + handle[call.f].pos \div ClusterSize]

LEMMA SeenData ==
  ASSUME vol \in Media, NEW n \in DataSectors
  PROVE  Sees(n) = Content(vol, n)
PROOF
  <1>1. n \in Sectors /\ n \notin LastCopy
    BY DataPlace
  <1>2. Fresh(vol) \/ vol.sector # n
    BY <1>1, Trusted
  <1> QED BY <1>2 DEF Sees, Content, Fresh

LEMMA ReachTyped ==
  ASSUME Inv, Bounded, NEW f \in UsedFiles
  PROVE  Reach(f) \in Nat /\ SizeOf(f) = Reach(f)
PROOF
  <1>1. f \in Files
    BY DEF UsedFiles
  <1>2. /\ handle[f].size \in Nat /\ handle[f].pos \in Nat /\ Dir(vol, f) \in Dirents
        /\ Dirent(f) = Dir(vol, f)
    BY <1>1, HandleParts
  <1>3. Dir(vol, f).size \in Nat
    BY <1>2 DEF Dirents
  <1>4. Within(f) /\ (InWrite /\ call.f = f => handle[f].open)
    BY <1>1 DEF Inv, CallInv, Bounded
  <1>5. ~(handle[f].pos > handle[f].size) <=> handle[f].pos <= handle[f].size
    BY <1>2
  <1> QED BY <1>2, <1>3, <1>4, <1>5 DEF Reach, Size, SizeOf, Within

LEMMA TextIs ==
  ASSUME Inv, Aligned, Bounded, NEW f \in Live
  PROVE  Reach(f) \in Nat /\ Text(f) = Bytes(vol, Chain(f), Reach(f))
PROOF
  <1>1. f \in UsedFiles /\ ~Unlinking(f) /\ vol \in Media
    BY DEF Live, Inv, Typed
  <1>2. PICK n \in Nat : n = Reach(f) /\ SizeOf(f) = n
    BY <1>1, ReachTyped
  <1>3. PICK own, rank : Owns(own, rank) /\ Measured(own, rank)
    BY DEF Inv, Linked
  <1>4. PICK t : t = Chain(f)
    OBVIOUS
  <1>5. Text(f) = [i \in 1 .. n |-> Sees(PlaceOn(t, i - 1))[(i - 1) % BytesPerSector]]
    BY <1>2, <1>4 DEF Text, PlaceOn
  <1>6. ASSUME NEW i \in 1 .. n PROVE Sees(PlaceOn(t, i - 1)) = Content(vol, PlaceOn(t, i - 1))
    <2>1. i - 1 \in 0 .. n - 1
      OBVIOUS
    <2>2. PICK c, j, o : Lies(own, rank, t, f, i - 1, c, j, o)
      BY <1>1, <1>2, <1>3, <1>4, <2>1, BytePlace
    <2>3. /\ c \in Clusters /\ j \in 0 .. SectorsPerCluster - 1
          /\ PlaceOn(t, i - 1) = FirstSector(c) + j
      BY <2>2 DEF Lies
    <2>4. c \in Int
      BY <2>3, Marks
    <2>5. PlaceOn(t, i - 1) \in DataSectors
      BY <2>3, <2>4, ClusterPlace
    <2> QED BY <1>1, <2>5, SeenData
  <1> QED BY <1>2, <1>4, <1>5, <1>6 DEF Bytes

LEMMA InvSeen == Inv /\ Aligned /\ Bounded => Seen
PROOF
  <1> SUFFICES ASSUME Inv, Aligned, Bounded PROVE Seen
    OBVIOUS
  <1>1. \A f \in Files :
          /\ Follows(Chain(f), FirstOf(f), Table)
          /\ FirstOf(f) = IF handle[f].open THEN handle[f].first ELSE Dir(vol, f).first
    BY ChainOf
  <1>2. \A f \in Live : Reach(f) \in Nat /\ Text(f) = Bytes(vol, Chain(f), Reach(f))
    BY TextIs
  <1>3. Contents = [f \in Live |-> Text(f)]
    <2>1. Used = UsedFiles
      BY HandleParts DEF Used, UsedFiles
    <2>2. Live = Used \ (IF pc = "unlink" THEN {call.f} ELSE {})
      BY <2>1 DEF Live, Unlinking
    <2> QED BY <2>2 DEF Contents
  <1>4. Positions = [f \in Files |-> At(f)]
    <2>1. \A f \in Files :
            At(f) = IF (pc = "unlink" /\ f = call.f) \/ ~handle[f].open THEN -1
                    ELSE IF pc \in {"read", "readend"} /\ f = call.f THEN call.start
                    ELSE handle[f].pos
      BY DEF At, Unlinking, Reading
    <2> QED BY <2>1, Zenon DEF Positions
  <1>5. ASSUME pc = "write"
        PROVE  handle[call.f].cur = Chain(call.f)[1 + handle[call.f].pos \div ClusterSize]
    <2>1. PICK own, rank : Owns(own, rank) /\ Measured(own, rank)
      BY DEF Inv, Linked
    <2>2. PICK f \in UsedFiles, x \in Handles : f = call.f /\ x = handle[f] /\ x.cur \in Clusters
      <3>1. /\ call.f \in UsedFiles /\ handle[call.f].cur \in Clusters
            /\ handle[call.f] \in Handles
        BY <1>5 DEF Inv, Typed, CallInv, HandleInv, InWrite
      <3> QED BY <3>1
    <2>3. ~Unlinking(f) /\ own[x.cur] = f /\ InPlace(rank, x, call.sector)
      BY <1>5, <2>1, <2>2 DEF Unlinking, Owns, Measured, InWrite
    <2>4. Reach(f) \in Nat
      BY ReachTyped
    <2>5. /\ rank[x.cur] \in Nat /\ rank[x.cur] + 1 \in 1 .. Length
          /\ Chain(f)[rank[x.cur] + 1] = x.cur
      BY <2>1, <2>2, <2>3, <2>4, BytePlace
    <2>6. PICK j \in 0 .. SectorsPerCluster - 1, o \in 0 .. BytesPerSector - 1 :
            x.pos = rank[x.cur] * ClusterSize + j * BytesPerSector + o
      BY <2>3 DEF InPlace
    <2>7. x.pos \div ClusterSize = rank[x.cur]
      BY <2>5, <2>6, SectorOfPlace
    <2>8. 1 + x.pos \div ClusterSize = rank[x.cur] + 1
      BY <2>5, <2>7
    <2> QED BY <2>2, <2>5, <2>8
  <1> QED BY <1>1, <1>2, <1>3, <1>4, <1>5 DEF Seen

-----------------------------------------------------------------------------
(* What a step leaves of a file *)

(* From v to w cluster c has kept its bytes and its entry in the table.      *)
ClusterStands(v, w, c) ==
  /\ Ent(w, c) = Ent(v, c)
  /\ \A j \in 0 .. SectorsPerCluster - 1 :
       Content(w, FirstSector(c) + j) = Content(v, FirstSector(c) + j)

SectorsStand(v, w) == \A n \in DataSectors : Content(w, n) = Content(v, n)

LEMMA DataClusters ==
  ASSUME NEW v, NEW w, \A c \in FatIndex : Ent(w, c) = Ent(v, c), SectorsStand(v, w)
  PROVE  \A c \in Clusters : ClusterStands(v, w, c)
PROOF
  <1> TAKE c \in Clusters
  <1>1. c \in Int /\ c \in FatIndex
    BY Marks
  <1>2. \A j \in 0 .. SectorsPerCluster - 1 : FirstSector(c) + j \in DataSectors
    BY <1>1, ClusterPlace
  <1> QED BY <1>1, <1>2 DEF ClusterStands, SectorsStand

(* What is done to the buffer, or to the entry of the directory.             *)
LEMMA SameClusters ==
  ASSUME NEW v, NEW w, Same(v, w)
  PROVE  \A c \in Clusters : ClusterStands(v, w, c)
PROOF
  <1>1. \A c \in FatIndex : Ent(w, c) = Ent(v, c)
    BY TablesKept DEF Same
  <1>2. SectorsStand(v, w)
    BY DataPlace DEF Same, SectorsStand
  <1> QED BY <1>1, <1>2, DataClusters

LEMMA DirentClusters ==
  ASSUME NEW v, NEW w, NEW f \in Files,
         \A n \in Sectors : n # DirentSector(f) => Content(w, n) = Content(v, n)
  PROVE  \A c \in Clusters : ClusterStands(v, w, c)
PROOF
  <1>1. \A c \in FatIndex : Ent(w, c) = Ent(v, c)
    BY TablesKept, DirentPlace
  <1>2. SectorsStand(v, w)
    BY DataPlace DEF SectorsStand
  <1> QED BY <1>1, <1>2, DataClusters

(* The other clusters, when the entry of one is set.                         *)
LEMMA OtherClusters ==
  ASSUME NEW v, NEW w, NEW a, NEW next, EntryIsSet(v, w, a, next), NEW c \in Clusters, c # a
  PROVE  ClusterStands(v, w, c)
PROOF
  <1>1. c \in Int /\ c \in FatIndex
    BY Marks
  <1>2. \A j \in 0 .. SectorsPerCluster - 1 :
          FirstSector(c) + j \in Sectors /\ FirstSector(c) + j \notin AllTables
    BY <1>1, ClusterPlace, DataPlace
  <1> QED BY <1>1, <1>2 DEF ClusterStands, EntryIsSet

(* The files that keep their clusters, their beginning and their reach have  *)
(* the same chain and text.                                                  *)
Stays(f) == Chain(f)' = Chain(f) /\ Text(f)' = Text(f)

LEMMA TextStands ==
  ASSUME Inv, Seen, Seen', NEW own, NEW rank, Owns(own, rank), Measured(own, rank),
         NEW f \in Live, f \in Live', FirstOf(f)' = FirstOf(f), Reach(f)' = Reach(f),
         \A c \in Clusters : own[c] = f => ClusterStands(vol, vol', c)
  PROVE  Stays(f)
PROOF
  <1>1. f \in UsedFiles /\ f \in Files /\ ~Unlinking(f)
    BY DEF Live, UsedFiles
  <1>2. PICK n \in Nat : n = Reach(f) /\ n = Reach(f)'
    BY DEF Seen
  <1>3. PICK t, t2, a, e, e2 : /\ t = Chain(f) /\ t2 = Chain(f)' /\ a = FirstOf(f)
                               /\ e = Table /\ e2 = Table'
    OBVIOUS
  <1>4. Follows(t, a, e) /\ Follows(t2, a, e2)
    BY <1>1, <1>3 DEF Seen
  <1>5. /\ \A k \in 1 .. Length : t[k] \in Clusters => own[t[k]] = f
        /\ \A p \in 0 .. n - 1 : \E c, j, o : Lies(own, rank, t, f, p, c, j, o)
    BY <1>1, <1>2, <1>3, BytePlace
  <1>6. Length \in Nat \ {0}
    BY Regions DEF Length
  <1>7. \A k \in 1 .. Length - 1 : t[k] \in Clusters => e2[t[k]] = e[t[k]]
    <2> SUFFICES ASSUME NEW k \in 1 .. Length - 1, t[k] \in Clusters PROVE e2[t[k]] = e[t[k]]
      OBVIOUS
    <2>1. PICK c \in Clusters : c = t[k]
      OBVIOUS
    <2>2. own[c] = f
      BY <1>5, <1>6, <2>1
    <2> QED BY <1>3, <2>1, <2>2 DEF ClusterStands, Table
  <1>8. \A k \in 1 .. Length : t2[k] = t[k]
    <2>1. PICK m \in 1 .. Length : m = Length
      BY <1>6
    <2> QED BY <1>4, <1>7, <2>1, ChainKept
  <1>9. t2 = t
    BY <1>4, <1>8 DEF Follows
  <1>10. Text(f) = Bytes(vol, t, n) /\ Text(f)' = Bytes(vol', t, n)
    BY <1>2, <1>3, <1>9 DEF Seen
  <1>11. ASSUME NEW i \in 1 .. n
         PROVE  Content(vol', PlaceOn(t, i - 1)) = Content(vol, PlaceOn(t, i - 1))
    <2>1. i - 1 \in 0 .. n - 1
      OBVIOUS
    <2>2. PICK c, j, o : Lies(own, rank, t, f, i - 1, c, j, o)
      BY <1>5, <2>1
    <2> QED BY <2>2 DEF Lies, ClusterStands
  <1>12. Bytes(vol', t, n) = Bytes(vol, t, n)
    BY <1>11 DEF Bytes
  <1> QED BY <1>3, <1>9, <1>10, <1>12 DEF Stays

-----------------------------------------------------------------------------
(* The steps of ByteFiles *)

(* Nothing happens to the other files.                                       *)
Others(f) ==
  \A g \in Files \ {f} : /\ At(g)' = At(g) /\ (g \in Live' <=> g \in Live)
                         /\ g \in Live => Text(g)' = Text(g)

LEMMA LiveFiles == Live \in SUBSET Files
PROOF
  BY DEF Live, UsedFiles

(* ByteFiles sees nothing, ...                                               *)
LEMMA NothingSeen ==
  ASSUME Seen, Seen', NEW f \in Files, Others(f), At(f)' = At(f), f \in Live' <=> f \in Live,
         f \in Live => Text(f)' = Text(f), got' = got
  PROVE  UNCHANGED Promise!vars
PROOF
  <1>1. \A g \in Files : /\ At(g)' = At(g) /\ (g \in Live' <=> g \in Live)
                         /\ g \in Live => Text(g)' = Text(g)
    BY DEF Others
  <1>2. Live' = Live
    BY <1>1, LiveFiles DEF Live, UsedFiles
  <1>3. Contents' = Contents
    BY <1>1, <1>2, LiveFiles DEF Seen
  <1>4. Positions' = Positions
    BY <1>1 DEF Seen
  <1> QED BY <1>3, <1>4 DEF Promise!vars

(* ... a new file, ...                                                       *)
LEMMA CreateSeen ==
  ASSUME Seen, Seen', NEW f \in Files, Others(f), f \notin Live, f \in Live',
         Text(f)' = <<>>, At(f)' = 0, got' = got
  PROVE  Promise!Next
PROOF
  <1>1. Live' = Live \cup {f}
    BY LiveFiles DEF Others, Live, UsedFiles
  <1>2. DOMAIN Contents = Live
    BY DEF Seen
  <1>3. Contents' = [g \in Live \cup {f} |-> IF g = f THEN <<>> ELSE Contents[g]]
    BY <1>1, LiveFiles DEF Seen, Others
  <1>4. Positions' = [Positions EXCEPT ![f] = 0]
    BY DEF Seen, Others
  <1>5. Promise!Create(f)
    BY <1>2, <1>3, <1>4 DEF Promise!Create, Promise!Existing
  <1> QED BY <1>5 DEF Promise!Next

(* ... one that is gone, ...                                                 *)
LEMMA RemoveSeen ==
  ASSUME Seen, Seen', NEW f \in Files, Others(f), f \in Live, f \notin Live', At(f)' = -1, got' = got
  PROVE  Promise!Next
PROOF
  <1>1. Live' = Live \ {f}
    BY LiveFiles DEF Others, Live, UsedFiles
  <1>2. DOMAIN Contents = Live
    BY DEF Seen
  <1>3. Contents' = [g \in Live \ {f} |-> Contents[g]]
    BY <1>1, LiveFiles DEF Seen, Others
  <1>4. Positions' = [Positions EXCEPT ![f] = -1]
    BY DEF Seen, Others
  <1>5. Promise!Remove(f)
    BY <1>2, <1>3, <1>4 DEF Promise!Remove, Promise!Existing, Promise!Closed
  <1> QED BY <1>5 DEF Promise!Next

(* ... a handle at the beginning of its file, or elsewhere in it, ...        *)
LEMMA OpenSeen ==
  ASSUME Seen, Seen', NEW f \in Files, Others(f), f \in Live, f \in Live', Text(f)' = Text(f),
         At(f)' = 0, got' = got
  PROVE  Promise!Next
PROOF
  <1>1. Live' = Live
    BY LiveFiles DEF Others, Live, UsedFiles
  <1>2. DOMAIN Contents = Live /\ Contents' = Contents
    BY <1>1, LiveFiles DEF Seen, Others
  <1>3. Positions' = [Positions EXCEPT ![f] = 0]
    BY DEF Seen, Others
  <1>4. Promise!Open(f)
    BY <1>2, <1>3 DEF Promise!Open, Promise!Existing
  <1> QED BY <1>4 DEF Promise!Next

LEMMA SeekSeen ==
  ASSUME Seen, Seen', NEW f \in Files, Others(f), f \in Live, f \in Live', Text(f)' = Text(f),
         At(f) # -1, At(f)' \in 0 .. Len(Text(f)), got' = got
  PROVE  Promise!Next
PROOF
  <1>1. Live' = Live
    BY LiveFiles DEF Others, Live, UsedFiles
  <1>2. DOMAIN Contents = Live /\ Contents' = Contents /\ Contents[f] = Text(f)
    BY <1>1, LiveFiles DEF Seen, Others
  <1>3. Positions[f] # -1 /\ Positions'[f] = At(f)'
    BY DEF Seen
  <1>4. Positions' = [Positions EXCEPT ![f] = Positions'[f]]
    BY <1>3 DEF Seen, Others
  <1>5. Promise!Seek(f)
    BY <1>2, <1>3, <1>4 DEF Promise!Seek, Promise!Existing, Promise!IsOpen, Promise!Closed
  <1> QED BY <1>5 DEF Promise!Next

(* ... a text written, or one read.                                          *)
LEMMA WriteSeen ==
  ASSUME Seen, Seen', NEW f \in Files, Others(f), f \in Live, f \in Live', At(f) # -1,
         NEW v \in Values, NEW i \in 0 .. MaxWrite, NEW n \in 1 .. BytesPerSector,
         NEW text, text = [k \in 1 .. n |-> v + i + k - 1],
         At(f)' = At(f) + Len(text), Text(f)' = Promise!Overwritten(Text(f), At(f), text),
         got' = got
  PROVE  Promise!Next
PROOF
  <1>1. Live' = Live
    BY LiveFiles DEF Others, Live, UsedFiles
  <1>2. PICK new : new = Promise!Overwritten(Text(f), At(f), text)
    OBVIOUS
  <1>3. DOMAIN Contents = Live /\ Contents[f] = Text(f) /\ Positions[f] = At(f)
    BY DEF Seen
  <1>4. Contents' = [Contents EXCEPT ![f] = new]
    BY <1>1, <1>2, LiveFiles DEF Seen, Others
  <1>5. Positions' = [Positions EXCEPT ![f] = @ + Len(text)]
    BY DEF Seen, Others
  <1>6. Promise!Write(f, text)
    <2>1. Contents' = [Contents EXCEPT ![f] = Promise!Overwritten(Contents[f], Positions[f], text)]
      BY <1>2, <1>3, <1>4
    <2> QED BY <1>3, <1>5, <2>1
          DEF Promise!Write, Promise!Existing, Promise!IsOpen, Promise!Closed
  <1>7. text \in {[k \in 1 .. m |-> w + j + k - 1] :
                    w \in Values, j \in 0 .. MaxWrite, m \in 1 .. BytesPerSector}
    OBVIOUS
  <1> QED BY <1>6, <1>7 DEF Promise!Next

LEMMA ReadSeen ==
  ASSUME Seen, Seen', NEW f \in Files, Others(f), f \in Live, f \in Live', Text(f)' = Text(f),
         At(f) # -1, NEW n \in ReadSizes, NEW last, last = Promise!Least(At(f) + n, Len(Text(f))),
         At(f)' = last, got' = SubSeq(Text(f), At(f) + 1, last)
  PROVE  Promise!Next
PROOF
  <1>1. Live' = Live
    BY LiveFiles DEF Others, Live, UsedFiles
  <1>2. /\ DOMAIN Contents = Live /\ Contents' = Contents /\ Contents[f] = Text(f)
        /\ Positions[f] = At(f)
    BY <1>1, LiveFiles DEF Seen, Others
  <1>3. Positions' = [Positions EXCEPT ![f] = last]
    BY DEF Seen, Others
  <1>4. Promise!Read(f, n)
    BY <1>2, <1>3 DEF Promise!Read, Promise!Existing, Promise!IsOpen, Promise!Closed
  <1> QED BY <1>4 DEF Promise!Next

-----------------------------------------------------------------------------
(* What a call has come to *)

(* A handle that is not at the end of its file stands in the cluster that    *)
(* its position is in.                                                       *)
Standing(f) ==
  handle[f].open /\ ~Unlinking(f) /\ handle[f].pos < handle[f].size
    => handle[f].cur = Chain(f)[1 + handle[f].pos \div ClusterSize]

(* fat_read has read what lies between where it began and where it is, and   *)
(* does not stop before it has all of what there is.                         *)
Heard ==
  \A f \in Files : pc \in {"read", "readend"} /\ call.f = f =>
    LET x == handle[f]
    IN  /\ x.open /\ call.start \in Nat
        /\ x.pos = call.start + call.i /\ call.i <= call.size /\ call.start + call.size <= x.size
        /\ \E n \in ReadSizes :
             call.size = IF call.start + n > x.size THEN x.size - call.start ELSE n
        /\ call.out = SubSeq(Text(f), call.start + 1, call.start + call.i)
        /\ pc = "readend" => call.i = call.size
        /\ pc = "read" /\ call.i < call.size => call.sector = SectorOf(x)

(* fat_write has what the program gave it.                                   *)
Said == pc = "write" => call.v \in Values /\ call.size \in WriteSizes

Track == (\A f \in Files : Standing(f)) /\ Heard /\ Said

Known == Inv /\ Aligned /\ Bounded /\ Seen

Fulfils == Track' /\ (Promise!Next \/ UNCHANGED Promise!vars)

(* A step of a call on file f, as the other files see it.                    *)
LEMMA OthersStay ==
  ASSUME Known, Known', Track, NEW own, NEW rank, Owns(own, rank), Measured(own, rank),
         NEW f \in Files,
         \A g \in Files \ {f} : handle'[g] = handle[g] /\ Dir(vol', g) = Dir(vol, g),
         pc = "idle" \/ call.f = f, pc' = "idle" \/ call'.f = f,
         \A c \in Clusters : own[c] \in UsedFiles \ {f} => ClusterStands(vol, vol', c)
  PROVE  Others(f) /\ \A g \in Files \ {f} : Standing(g)'
PROOF
  <1> SUFFICES ASSUME NEW g \in Files, g # f
               PROVE  /\ At(g)' = At(g) /\ (g \in Live' <=> g \in Live)
                      /\ g \in Live => Text(g)' = Text(g)
                      /\ Standing(g)'
    BY DEF Others
  <1>1. handle'[g] = handle[g] /\ Dir(vol', g) = Dir(vol, g)
    OBVIOUS
  <1>2. /\ ~Unlinking(g) /\ ~Unlinking(g)' /\ ~Reading(g) /\ ~Reading(g)'
        /\ ~(InWrite /\ call.f = g) /\ ~(InWrite /\ call.f = g)'
    BY DEF Unlinking, Reading, InWrite
  <1>3. At(g)' = At(g)
    BY <1>1, <1>2 DEF At
  <1>4. g \in UsedFiles' <=> g \in UsedFiles
    BY <1>1 DEF UsedFiles
  <1>5. g \in Live' <=> g \in Live
    BY <1>2, <1>4 DEF Live
  <1>6. ASSUME g \in Live PROVE Stays(g)
    <2>1. FirstOf(g)' = FirstOf(g)
      BY <1>1 DEF Known, Seen
    <2>2. Reach(g)' = Reach(g)
      BY <1>1, <1>2 DEF Reach, Size
    <2>3. g \in UsedFiles \ {f}
      BY <1>6 DEF Live
    <2>4. \A c \in Clusters : own[c] = g => ClusterStands(vol, vol', c)
      BY <2>3
    <2> QED BY <1>5, <1>6, <2>1, <2>2, <2>4, TextStands DEF Known
  <1>7. Standing(g)'
    <2>1. handle[g].open => g \in Live
      BY <1>2 DEF Known, Inv, HandleInv, Live
    <2>2. Standing(g)
      BY DEF Track
    <2> QED BY <1>1, <1>2, <1>6, <2>1, <2>2 DEF Standing, Stays
  <1> QED BY <1>3, <1>5, <1>6, <1>7 DEF Stays

LEMMA CreateKeeps ==
  ASSUME Known, Known', Track, NEW f \in Files, NEW async \in BOOLEAN, Create(f, async)
  PROVE  Fulfils
PROOF
  <1>1. /\ pc = "idle" /\ pc' = "idle" /\ got' = got /\ handle \in [Files -> Handles]
        /\ Dirent(f).name # "used" /\ handle' = [handle EXCEPT ![f] = HandleOf(NewDirent, async)]
    BY DEF Create, Idle, NewDirent, Known, Inv, Typed
  <1>2. f \notin UsedFiles /\ f \notin Live
    BY <1>1, HandleParts DEF UsedFiles, Live, Known
  <1>3. EntryWritten(vol, vol', f, NewDirent)
    BY CreateWrites DEF Known
  <1>4. /\ \A n \in Sectors : n # DirentSector(f) => Content(vol', n) = Content(vol, n)
        /\ Dir(vol', f) = NewDirent /\ \A g \in Files \ {f} : Dir(vol', g) = Dir(vol, g)
    BY <1>3, DirentPlace DEF EntryWritten, Dir
  <1>5. PICK own, rank : Owns(own, rank) /\ Measured(own, rank)
    BY DEF Known, Inv, Linked
  <1>6. \A c \in Clusters : ClusterStands(vol, vol', c)
    BY <1>4, DirentClusters
  <1>7. Others(f) /\ \A g \in Files \ {f} : Standing(g)'
    BY <1>1, <1>4, <1>5, <1>6, OthersStay
  <1>8. /\ handle'[f].open /\ handle'[f].pos = 0 /\ handle'[f].size = 0
        /\ ~Unlinking(f)' /\ ~Reading(f)' /\ ~InWrite'
    BY <1>1 DEF HandleOf, NewDirent, Unlinking, Reading, InWrite
  <1>9. f \in Live'
    BY <1>4, <1>8 DEF Live, UsedFiles, NewDirent
  <1>10. At(f)' = 0 /\ Reach(f)' = 0
    BY <1>8 DEF At, Reach, Size
  <1>11. Text(f)' = <<>>
    <2>1. PICK t : t = Chain(f)'
      OBVIOUS
    <2>2. Text(f)' = Bytes(vol', t, 0)
      BY <1>9, <1>10, <2>1 DEF Known, Seen
    <2> QED BY <2>2 DEF Bytes
  <1>12. Promise!Next
    BY <1>1, <1>2, <1>7, <1>9, <1>10, <1>11, CreateSeen DEF Known
  <1>13. Standing(f)'
    BY <1>8 DEF Standing
  <1>14. Track'
    BY <1>1, <1>7, <1>13 DEF Track, Heard, Said
  <1> QED BY <1>12, <1>14 DEF Fulfils

(* A call that leaves the chain and the reach of its file alone, and so its  *)
(* text.                                                                     *)
LEMMA FileStays ==
  ASSUME Known, Known', NEW f \in Live, f \in Live', FirstOf(f)' = FirstOf(f), Reach(f)' = Reach(f),
         \A c \in Clusters : ClusterStands(vol, vol', c)
  PROVE  Stays(f)
PROOF
  <1>1. PICK own, rank : Owns(own, rank) /\ Measured(own, rank)
    BY DEF Known, Inv, Linked
  <1> QED BY <1>1, TextStands DEF Known

LEMMA OpenKeeps ==
  ASSUME Known, Known', Track, NEW f \in Files, NEW async \in BOOLEAN, Synced(f), Open(f, async)
  PROVE  Fulfils
PROOF
  <1>1. /\ pc = "idle" /\ pc' = "idle" /\ got' = got /\ handle \in [Files -> Handles]
        /\ Dirent(f).name = "used" /\ vol' = Search(vol, f)
        /\ handle' = [handle EXCEPT ![f] = HandleOf(Dirent(f), async)]
    BY DEF Open, Idle, Known, Inv, Typed
  <1>2. /\ vol \in Media /\ Dirent(f) = Dir(vol, f) /\ Dir(vol, f) \in Dirents
    BY HandleParts DEF Known
  <1>3. Same(vol, vol')
    BY <1>1, <1>2, SearchKeeps
  <1>4. \A g \in Files : Dir(vol', g) = Dir(vol, g)
    BY <1>3, DirentPlace DEF Same, Dir
  <1>5. PICK own, rank : Owns(own, rank) /\ Measured(own, rank)
    BY DEF Known, Inv, Linked
  <1>6. \A c \in Clusters : ClusterStands(vol, vol', c)
    BY <1>3, SameClusters
  <1>7. Others(f) /\ \A g \in Files \ {f} : Standing(g)'
    BY <1>1, <1>4, <1>5, <1>6, OthersStay
  <1>8. /\ handle'[f].open /\ handle'[f].pos = 0 /\ handle'[f].size = Dir(vol, f).size
        /\ handle'[f].first = Dir(vol, f).first /\ handle'[f].cur = Dir(vol, f).first
        /\ ~Unlinking(f)' /\ ~Reading(f)' /\ ~InWrite' /\ ~Unlinking(f) /\ ~InWrite
    BY <1>1, <1>2 DEF HandleOf, Unlinking, Reading, InWrite
  <1>9. f \in Live /\ f \in Live'
    BY <1>1, <1>2, <1>4, <1>8 DEF Live, UsedFiles
  <1>10. At(f)' = 0 /\ Reach(f)' = Reach(f)
    BY <1>2, <1>8 DEF At, Reach, Size, Synced
  <1>11. FirstOf(f)' = FirstOf(f) /\ FirstOf(f)' = handle'[f].cur
    BY <1>2, <1>8 DEF Known, Seen, Synced
  <1>12. Stays(f)
    BY <1>6, <1>9, <1>10, <1>11, FileStays
  <1>13. Promise!Next
    BY <1>1, <1>7, <1>9, <1>10, <1>12, OpenSeen DEF Known, Stays
  <1>14. Standing(f)'
    <2>1. 1 + 0 \div ClusterSize = 1 /\ 1 \in 1 .. Length
      BY ClusterHolds, Regions DEF Length
    <2>2. Follows(Chain(f), FirstOf(f), Table)'
      BY DEF Known, Seen
    <2>3. PICK t, a : t = Chain(f)' /\ a = FirstOf(f)'
      OBVIOUS
    <2>4. t[1] = a
      BY <2>1, <2>2, <2>3 DEF Follows
    <2> QED BY <1>8, <1>11, <2>1, <2>3, <2>4 DEF Standing
  <1>15. Track'
    BY <1>1, <1>7, <1>14 DEF Track, Heard, Said
  <1> QED BY <1>13, <1>15 DEF Fulfils

LEMMA StillStanding ==
  ASSUME NEW f \in Files, Standing(f), handle'[f] = handle[f], Unlinking(f) => Unlinking(f)',
         handle[f].open /\ ~Unlinking(f)' => Stays(f)
  PROVE  Standing(f)'
PROOF
  BY DEF Standing, Stays

LEMMA SyncKeeps ==
  ASSUME Known, Known', Track, NEW f \in Files, Sync(f)
  PROVE  Fulfils
PROOF
  <1>1. /\ pc = "idle" /\ pc' = "idle" /\ got' = got /\ handle' = handle /\ handle[f].open
        /\ vol' = FileSync(vol, f, handle[f])
    BY DEF Sync, Idle
  <1>2. handle[f].size \in Nat /\ handle[f].first \in {0} \cup Clusters
    BY HandleParts DEF Known
  <1>3. PICK x : x = handle[f]
    OBVIOUS
  <1>4. /\ \A g \in Files : g # f => Dir(vol', g) = Dir(vol, g)
        /\ UsedFiles' = UsedFiles
        /\ \A n \in Sectors : n # DirentSector(f) => Content(vol', n) = Content(vol, n)
    BY <1>1, <1>2, <1>3, Told DEF Known
  <1>5. PICK own, rank : Owns(own, rank) /\ Measured(own, rank)
    BY DEF Known, Inv, Linked
  <1>6. \A c \in Clusters : ClusterStands(vol, vol', c)
    BY <1>4, DirentClusters
  <1>7. Others(f) /\ \A g \in Files \ {f} : Standing(g)'
    BY <1>1, <1>4, <1>5, <1>6, OthersStay
  <1>8. ~Unlinking(f)' /\ ~Reading(f)' /\ ~InWrite' /\ ~Unlinking(f) /\ ~InWrite /\ ~Reading(f)
    BY <1>1 DEF Unlinking, Reading, InWrite
  <1>9. f \in Live /\ f \in Live'
    BY <1>1, <1>4, <1>8 DEF Live, Known, Inv, HandleInv
  <1>10. At(f)' = At(f) /\ Reach(f)' = Reach(f) /\ FirstOf(f)' = FirstOf(f)
    BY <1>1, <1>8 DEF At, Reach, Size, Known, Seen
  <1>11. Stays(f)
    BY <1>6, <1>9, <1>10, FileStays
  <1>12. UNCHANGED Promise!vars
    BY <1>1, <1>7, <1>9, <1>10, <1>11, NothingSeen DEF Known, Stays
  <1>13. Standing(f)'
    BY <1>1, <1>8, <1>11, StillStanding DEF Track
  <1>14. Track'
    BY <1>1, <1>7, <1>13 DEF Track, Heard, Said
  <1> QED BY <1>12, <1>14 DEF Fulfils

LEMMA SeekKeeps ==
  ASSUME Known, Known', Track, NEW f \in Files, NEW offset \in SeekOffsets,
         NEW whence \in {"SET", "CUR", "END"}, handle[f].size > 0, Seek(f, offset, whence)
  PROVE  Fulfils
PROOF
  <1>1. /\ pc = "idle" /\ Idle /\ got' = got /\ handle[f].open /\ handle \in [Files -> Handles]
    BY DEF Seek, Idle, Known, Inv, Typed
  <1>2. PICK x \in Handles : x = handle[f] /\ vol \in Media
    BY <1>1, HandleParts DEF Known
  <1>3. PICK to \in Nat : to = Target(x, offset, whence) /\ to <= x.size
    BY <1>2, TargetWithin
  <1>4. PICK n \in Nat : n = to \div ClusterSize
    BY ClusterHolds
  <1>5. PICK place : place = Walk(vol, x.first, n)
    OBVIOUS
  <1>6. place.at \in Nat /\ place.at = Chain(f)[n + 1]
    BY <1>1, <1>2, <1>3, <1>4, <1>5, SeekFinds DEF Known
  <1>7. /\ vol' = place.vol /\ handle' = [handle EXCEPT ![f].pos = to, ![f].cur = place.at]
        /\ pc' = IF place.at = Stray THEN "lost" ELSE "idle"
    BY <1>2, <1>3, <1>4, <1>5 DEF Seek
  <1>8. pc' = "idle"
    BY <1>6, <1>7 DEF Stray
  <1>9. /\ handle'[f].open /\ handle'[f].pos = to /\ handle'[f].cur = place.at
        /\ handle'[f].size = x.size /\ handle'[f].first = x.first
        /\ \A g \in Files \ {f} : handle'[g] = handle[g]
    BY <1>1, <1>2, <1>7 DEF Handles
  <1>10. Same(vol, vol')
    <2>1. x.first \in Int
      BY <1>2, HandleParts DEF Known
    <2> QED BY <1>2, <1>4, <1>5, <1>7, <2>1, WalkKeeps DEF Known, Inv
  <1>11. \A g \in Files : Dir(vol', g) = Dir(vol, g)
    BY <1>10, DirentPlace DEF Same, Dir
  <1>12. PICK own, rank : Owns(own, rank) /\ Measured(own, rank)
    BY DEF Known, Inv, Linked
  <1>13. \A c \in Clusters : ClusterStands(vol, vol', c)
    BY <1>10, SameClusters
  <1>14. Others(f) /\ \A g \in Files \ {f} : Standing(g)'
    BY <1>1, <1>8, <1>9, <1>11, <1>12, <1>13, OthersStay
  <1>15. ~Unlinking(f)' /\ ~Reading(f)' /\ ~InWrite' /\ ~Unlinking(f) /\ ~InWrite /\ ~Reading(f)
    BY <1>1, <1>8 DEF Unlinking, Reading, InWrite
  <1>16. f \in Live /\ f \in Live'
    BY <1>1, <1>11, <1>15 DEF Live, UsedFiles, Known, Inv, HandleInv
  <1>17. At(f)' = to /\ At(f) = x.pos /\ Reach(f)' = Reach(f) /\ Reach(f) = x.size
    BY <1>1, <1>2, <1>9, <1>15 DEF At, Reach, Size
  <1>18. FirstOf(f)' = FirstOf(f)
    BY <1>1, <1>2, <1>9 DEF Known, Seen
  <1>19. Stays(f)
    BY <1>13, <1>16, <1>17, <1>18, FileStays
  <1>20. Promise!Next
    <2>1. x.pos \in Nat /\ x.size \in Nat
      BY DEF Handles
    <2>2. PICK t : t = Chain(f) /\ Text(f) = Bytes(vol, t, x.size)
      BY <1>16, <1>17 DEF Known, Seen
    <2>3. Len(Text(f)) = x.size
      BY <2>1, <2>2 DEF Bytes
    <2>4. At(f) # -1 /\ At(f)' \in 0 .. Len(Text(f))
      BY <1>3, <1>17, <2>1, <2>3
    <2> QED BY <1>1, <1>14, <1>16, <1>19, <2>4, SeekSeen DEF Known, Stays
  <1>21. Standing(f)'
    <2>1. n + 1 = 1 + to \div ClusterSize
      BY <1>4
    <2> QED BY <1>6, <1>9, <1>19, <2>1 DEF Standing, Stays
  <1>22. Track'
    BY <1>8, <1>14, <1>21 DEF Track, Heard, Said
  <1> QED BY <1>20, <1>22 DEF Fulfils

LEMMA UnlinkStartKeeps ==
  ASSUME Known, Known', Track, NEW f \in Files, UnlinkStart(f)
  PROVE  Fulfils
PROOF
  <1>1. /\ pc = "idle" /\ pc' = "unlink" /\ got' = got /\ handle' = handle
        /\ Dirent(f).name = "used" /\ vol' = Search(vol, f)
        /\ call' = [NoCall EXCEPT !.f = f, !.cluster = Dirent(f).first]
    BY DEF UnlinkStart, Idle
  <1>2. call'.f = f
    BY <1>1 DEF NoCall
  <1>3. vol \in Media /\ Dirent(f) = Dir(vol, f)
    BY HandleParts DEF Known
  <1>4. Same(vol, vol')
    BY <1>1, <1>3, SearchKeeps
  <1>5. \A g \in Files : Dir(vol', g) = Dir(vol, g)
    BY <1>4, DirentPlace DEF Same, Dir
  <1>6. PICK own, rank : Owns(own, rank) /\ Measured(own, rank)
    BY DEF Known, Inv, Linked
  <1>7. \A c \in Clusters : ClusterStands(vol, vol', c)
    BY <1>4, SameClusters
  <1>8. Others(f) /\ \A g \in Files \ {f} : Standing(g)'
    BY <1>1, <1>2, <1>5, <1>6, <1>7, OthersStay
  <1>9. Unlinking(f)' /\ ~Unlinking(f)
    BY <1>1, <1>2 DEF Unlinking
  <1>10. f \in Live /\ f \notin Live' /\ At(f)' = -1
    BY <1>1, <1>3, <1>9 DEF Live, UsedFiles, At
  <1>11. Promise!Next
    BY <1>1, <1>8, <1>10, RemoveSeen DEF Known
  <1>12. Track'
    BY <1>1, <1>8, <1>9 DEF Track, Standing, Heard, Said
  <1> QED BY <1>11, <1>12 DEF Fulfils

LEMMA UnlinkStepKeeps ==
  ASSUME Known, Known', Track, UnlinkStep
  PROVE  Fulfils
PROOF
  <1>1. /\ pc = "unlink" /\ pc' = "unlink" /\ got' = got /\ handle' = handle
        /\ call.cluster \in FatIndex \ {0} /\ vol \in Media /\ Mirrored
    BY DEF UnlinkStep, Known, Inv, Typed
  <1>2. PICK f \in Files : f = call.f /\ call'.f = f
    BY <1>1 DEF UnlinkStep, Known, Inv, Typed
  <1>3. PICK c \in Clusters : c = call.cluster /\ c \in FatIndex
    BY <1>1, Marks DEF Known, Inv, CallInv
  <1>4. PICK next : /\ next = GetNext(vol, c) /\ next.vol \in Media /\ Same(vol, next.vol)
                    /\ vol' = SetNext(next.vol, c, 0)
    BY <1>1, <1>3, GetNextReads DEF UnlinkStep
  <1>5. EntryIsSet(next.vol, vol', c, 0)
    BY <1>1, <1>3, <1>4, SetNextKeeps, Marks
  <1>6. \A g \in Files : Dir(vol', g) = Dir(vol, g)
    BY <1>4, <1>5, DirentPlace DEF Same, Dir, EntryIsSet
  <1>7. PICK own, rank : Owns(own, rank) /\ Measured(own, rank)
    BY DEF Known, Inv, Linked
  <1>8. own[c] = f
    <2>1. f \in UsedFiles /\ Starts[f] = c
      BY <1>1, <1>2, <1>3 DEF Known, Inv, CallInv, Starts, Start
    <2> QED BY <1>7, <2>1 DEF Owns, ChainsOf
  <1>9. ASSUME NEW d \in Clusters, d # c PROVE ClusterStands(vol, vol', d)
    <2>1. ClusterStands(next.vol, vol', d)
      BY <1>5, <1>9, OtherClusters
    <2>2. ClusterStands(vol, next.vol, d)
      BY <1>4, SameClusters
    <2> QED BY <2>1, <2>2 DEF ClusterStands
  <1>10. Others(f) /\ \A g \in Files \ {f} : Standing(g)'
    BY <1>1, <1>2, <1>6, <1>7, <1>8, <1>9, OthersStay
  <1>11. Unlinking(f)' /\ Unlinking(f)
    BY <1>1, <1>2 DEF Unlinking
  <1>12. f \notin Live /\ f \notin Live' /\ At(f)' = -1 /\ At(f) = -1
    BY <1>11 DEF Live, At
  <1>13. UNCHANGED Promise!vars
    BY <1>1, <1>10, <1>12, NothingSeen DEF Known
  <1>14. Track'
    BY <1>1, <1>10, <1>11 DEF Track, Standing, Heard, Said
  <1> QED BY <1>13, <1>14 DEF Fulfils

LEMMA UnlinkDoneKeeps ==
  ASSUME Known, Known', Track, UnlinkDone
  PROVE  Fulfils
PROOF
  <1>1. /\ pc = "unlink" /\ pc' = "idle" /\ got' = got /\ handle \in [Files -> Handles]
        /\ handle' = [handle EXCEPT ![call.f] = NoHandle]
    BY DEF UnlinkDone, Known, Inv, Typed
  <1>2. PICK f \in Files : f = call.f
    BY <1>1 DEF Known, Inv, Typed
  <1>3. EntryWritten(vol, vol', f, DeletedDirent(f))
    BY <1>2, UnlinkDoneWrites DEF Known
  <1>4. /\ \A n \in Sectors : n # DirentSector(f) => Content(vol', n) = Content(vol, n)
        /\ Dir(vol', f) = DeletedDirent(f) /\ \A g \in Files \ {f} : Dir(vol', g) = Dir(vol, g)
    BY <1>3, DirentPlace DEF EntryWritten, Dir
  <1>5. PICK own, rank : Owns(own, rank) /\ Measured(own, rank)
    BY DEF Known, Inv, Linked
  <1>6. \A c \in Clusters : ClusterStands(vol, vol', c)
    BY <1>4, DirentClusters
  <1>7. Others(f) /\ \A g \in Files \ {f} : Standing(g)'
    BY <1>1, <1>2, <1>4, <1>5, <1>6, OthersStay
  <1>8. ~handle'[f].open /\ Unlinking(f)
    BY <1>1, <1>2 DEF NoHandle, Unlinking
  <1>9. f \notin Live /\ f \notin Live'
    <2>1. Dir(vol, f) \in Dirents
      BY HandleParts DEF Known
    <2>2. Dir(vol', f).name = "deleted"
      BY <1>4, <2>1 DEF DeletedDirent, Dirents
    <2> QED BY <1>8, <2>2 DEF Live, UsedFiles
  <1>10. At(f)' = -1 /\ At(f) = -1
    BY <1>8 DEF At
  <1>11. UNCHANGED Promise!vars
    BY <1>1, <1>7, <1>9, <1>10, NothingSeen DEF Known
  <1>12. Track'
    BY <1>1, <1>7, <1>8 DEF Track, Standing, Heard, Said
  <1> QED BY <1>11, <1>12 DEF Fulfils

(* A call of fat_write or fat_read begins, and ByteFiles does not see it.    *)
LEMMA WriteOnKeeps ==
  ASSUME Known, Known', Track, NEW f \in Files, NEW v \in Values, NEW n \in WriteSizes,
         WriteStart(f, v, n), handle[f].cur # 0
  PROVE  Fulfils
PROOF
  <1>1. /\ pc = "idle" /\ pc' = "write" /\ got' = got /\ handle' = handle /\ handle[f].open
        /\ vol' = vol
        /\ call' = [[NoCall EXCEPT !.f = f, !.v = v, !.size = n] EXCEPT !.sector = SectorOf(handle[f])]
    BY DEF WriteStart, Idle
  <1>2. call'.f = f /\ call'.v = v /\ call'.size = n
    BY <1>1 DEF NoCall
  <1>3. vol \in Media
    BY DEF Known, Inv, Typed
  <1>4. \A g \in Files : Dir(vol', g) = Dir(vol, g)
    BY <1>1
  <1>5. PICK own, rank : Owns(own, rank) /\ Measured(own, rank)
    BY DEF Known, Inv, Linked
  <1>6. \A c \in Clusters : ClusterStands(vol, vol', c)
    BY <1>1 DEF ClusterStands
  <1>7. Others(f) /\ \A g \in Files \ {f} : Standing(g)'
    BY <1>1, <1>2, <1>4, <1>5, <1>6, OthersStay
  <1>8. ~Unlinking(f)' /\ ~Reading(f)' /\ ~Unlinking(f) /\ ~InWrite /\ ~Reading(f)
    BY <1>1 DEF Unlinking, Reading, InWrite
  <1>9. f \in Live /\ f \in Live'
    BY <1>1, <1>4, <1>8 DEF Live, UsedFiles, Known, Inv, HandleInv
  <1>10. Reach(f)' = Reach(f)
    <2>1. handle[f].size \in Nat /\ handle[f].pos \in Nat
      BY HandleParts DEF Known
    <2>2. ~(handle[f].pos > handle[f].size)
      BY <1>8, <2>1 DEF Known, Bounded, Within
    <2> QED BY <1>1, <1>8, <2>2 DEF Reach, Size
  <1>11. At(f)' = At(f) /\ FirstOf(f)' = FirstOf(f)
    BY <1>1, <1>8 DEF At, Known, Seen
  <1>12. Stays(f)
    BY <1>6, <1>9, <1>10, <1>11, FileStays
  <1>13. UNCHANGED Promise!vars
    BY <1>1, <1>7, <1>9, <1>11, <1>12, NothingSeen DEF Known, Stays
  <1>14. Standing(f)'
    BY <1>1, <1>8, <1>12, StillStanding DEF Track
  <1>15. Track'
    BY <1>1, <1>2, <1>7, <1>14 DEF Track, Heard, Said
  <1> QED BY <1>13, <1>15 DEF Fulfils

LEMMA WriteFirstKeeps ==
  ASSUME Known, Known', Track, NEW f \in Files, HasRoom(f), NEW v \in Values, NEW n \in WriteSizes,
         WriteStart(f, v, n), handle[f].cur = 0, FindFree(vol).at # 0
  PROVE  Fulfils
PROOF
  <1>1. /\ pc = "idle" /\ handle[f].open /\ handle \in [Files -> Handles] /\ vol \in Media /\ Mirrored
    BY DEF WriteStart, Idle, Known, Inv, Typed
  <1>2. PICK free : free = FindFree(vol)
    OBVIOUS
  <1>3. PICK a \in Clusters : a = free.at /\ Ent(vol, a) = 0 /\ free.vol \in Media /\ Same(vol, free.vol)
    BY <1>1, <1>2, FindFreeKeeps
  <1>4. /\ pc' = "write" /\ got' = got /\ vol' = SetNext(free.vol, a, Eoc)
        /\ handle' = [handle EXCEPT ![f].first = a, ![f].cur = a]
        /\ call' = [[NoCall EXCEPT !.f = f, !.v = v, !.size = n] EXCEPT !.sector = SectorOf(handle'[f])]
    BY <1>2, <1>3 DEF WriteStart
  <1>5. call'.f = f /\ call'.v = v /\ call'.size = n
    BY <1>4 DEF NoCall
  <1>6. handle[f].first = 0 /\ handle[f].pos = 0 /\ handle[f].size = 0
    BY Marks DEF HasRoom, Known, Inv, HandleInv
  <1>7. /\ handle'[f].open /\ handle'[f].pos = 0 /\ handle'[f].size = 0
        /\ \A g \in Files \ {f} : handle'[g] = handle[g]
    BY <1>1, <1>4, <1>6 DEF Handles
  <1>8. EntryIsSet(free.vol, vol', a, Eoc)
    BY <1>1, <1>3, <1>4, SetNextKeeps, Marks
  <1>9. \A g \in Files : Dir(vol', g) = Dir(vol, g)
    BY <1>3, <1>8, DirentPlace DEF Same, Dir, EntryIsSet
  <1>10. PICK own, rank : Owns(own, rank) /\ Measured(own, rank)
    BY DEF Known, Inv, Linked
  <1>11. own[a] \notin UsedFiles
    <2>1. own[a] = 0
      BY <1>3, <1>10 DEF Owns, ChainsOf, Table
    <2> QED BY <2>1, FilesNotZero DEF UsedFiles
  <1>12. ASSUME NEW d \in Clusters, d # a PROVE ClusterStands(vol, vol', d)
    <2>1. ClusterStands(free.vol, vol', d)
      BY <1>8, <1>12, OtherClusters
    <2>2. ClusterStands(vol, free.vol, d)
      BY <1>3, SameClusters
    <2> QED BY <2>1, <2>2 DEF ClusterStands
  <1>13. Others(f) /\ \A g \in Files \ {f} : Standing(g)'
    BY <1>1, <1>5, <1>7, <1>9, <1>10, <1>11, <1>12, OthersStay
  <1>14. ~Unlinking(f)' /\ ~Reading(f)' /\ ~Unlinking(f) /\ ~InWrite /\ ~Reading(f)
    BY <1>1, <1>4 DEF Unlinking, Reading, InWrite
  <1>15. f \in Live /\ f \in Live'
    BY <1>1, <1>9, <1>14 DEF Live, UsedFiles, Known, Inv, HandleInv
  <1>16. Reach(f) = 0 /\ Reach(f)' = 0 /\ At(f)' = 0 /\ At(f) = 0
    BY <1>1, <1>6, <1>7, <1>14 DEF Reach, Size, At
  <1>17. Text(f) = <<>> /\ Text(f)' = <<>>
    <2>1. PICK t, t2 : t = Chain(f) /\ t2 = Chain(f)'
      OBVIOUS
    <2>2. Text(f) = Bytes(vol, t, 0) /\ Text(f)' = Bytes(vol', t2, 0)
      BY <1>15, <1>16, <2>1 DEF Known, Seen
    <2> QED BY <2>2 DEF Bytes
  <1>18. UNCHANGED Promise!vars
    BY <1>4, <1>13, <1>15, <1>16, <1>17, NothingSeen DEF Known
  <1>19. Standing(f)'
    BY <1>7 DEF Standing
  <1>20. Track'
    BY <1>4, <1>5, <1>13, <1>19 DEF Track, Heard, Said
  <1> QED BY <1>18, <1>20 DEF Fulfils

LEMMA WriteNotKeeps ==
  ASSUME Known, Known', Track, NEW f \in Files, NEW v \in Values, NEW n \in WriteSizes,
         WriteStart(f, v, n), handle[f].cur = 0, FindFree(vol).at = 0
  PROVE  Fulfils
PROOF
  <1>1. /\ pc = "idle" /\ handle[f].open /\ vol \in Media /\ Mirrored
        /\ pc' = pc /\ got' = got /\ vol' = FindFree(vol).vol /\ handle' = handle
    BY DEF WriteStart, Idle, Known, Inv, Typed
  <1>2. Same(vol, vol')
    BY <1>1, FindFreeKeeps
  <1>3. \A g \in Files : Dir(vol', g) = Dir(vol, g)
    BY <1>2, DirentPlace DEF Same, Dir
  <1>4. PICK own, rank : Owns(own, rank) /\ Measured(own, rank)
    BY DEF Known, Inv, Linked
  <1>5. \A c \in Clusters : ClusterStands(vol, vol', c)
    BY <1>2, SameClusters
  <1>6. Others(f) /\ \A g \in Files \ {f} : Standing(g)'
    BY <1>1, <1>3, <1>4, <1>5, OthersStay
  <1>7. ~Unlinking(f)' /\ ~Reading(f)' /\ ~InWrite' /\ ~Unlinking(f) /\ ~InWrite /\ ~Reading(f)
    BY <1>1 DEF Unlinking, Reading, InWrite
  <1>8. f \in Live /\ f \in Live'
    BY <1>1, <1>3, <1>7 DEF Live, UsedFiles, Known, Inv, HandleInv
  <1>9. At(f)' = At(f) /\ Reach(f)' = Reach(f) /\ FirstOf(f)' = FirstOf(f)
    BY <1>1, <1>7 DEF At, Reach, Size, Known, Seen
  <1>10. Stays(f)
    BY <1>5, <1>8, <1>9, FileStays
  <1>11. UNCHANGED Promise!vars
    BY <1>1, <1>6, <1>8, <1>9, <1>10, NothingSeen DEF Known, Stays
  <1>12. Standing(f)'
    BY <1>1, <1>7, <1>10, StillStanding DEF Track
  <1>13. Track'
    BY <1>1, <1>6, <1>12 DEF Track, Heard, Said
  <1> QED BY <1>11, <1>13 DEF Fulfils

LEMMA WriteDoneKeeps ==
  ASSUME Known, Known', Track, WriteDone
  PROVE  Fulfils
PROOF
  <1>1. /\ pc \in {"write", "written"} /\ pc' = "idle" /\ got' = got /\ handle \in [Files -> Handles]
    BY DEF WriteDone, Known, Inv, Typed
  <1>2. PICK f \in Files, x \in Handles : f = call.f /\ x = handle[f]
    BY <1>1 DEF Known, Inv, Typed
  <1>3. x.pos \in Nat /\ x.size \in Nat /\ x.first \in {0} \cup Clusters /\ x.open
    BY <1>1, <1>2 DEF Known, Inv, CallInv, InWrite, Handles
  <1>4. PICK size \in Nat : size = IF x.size < x.pos THEN x.pos ELSE x.size
    BY <1>3
  <1>5. PICK y : y = [x EXCEPT !.size = size]
    OBVIOUS
  <1>6. handle' = [handle EXCEPT ![f] = y] /\ (vol' = FileSync(vol, f, y) \/ vol' = vol)
    BY <1>2, <1>4, <1>5 DEF WriteDone
  <1>7. /\ y.size = size /\ y.first = x.first /\ y.pos = x.pos /\ y.cur = x.cur /\ y.open
    BY <1>3, <1>5 DEF Handles
  <1>8. handle'[f] = y /\ \A g \in Files \ {f} : handle'[g] = handle[g]
    BY <1>1, <1>6
  <1>9. /\ \A g \in Files : g # f => Dir(vol', g) = Dir(vol, g)
        /\ UsedFiles' = UsedFiles
        /\ \A n \in Sectors : n # DirentSector(f) => Content(vol', n) = Content(vol, n)
    <2>1. CASE vol' = vol
      BY <2>1 DEF UsedFiles
    <2>2. CASE vol' = FileSync(vol, f, y)
      BY <1>3, <1>7, <2>2, Told DEF Known
    <2> QED BY <1>6, <2>1, <2>2
  <1>10. PICK own, rank : Owns(own, rank) /\ Measured(own, rank)
    BY DEF Known, Inv, Linked
  <1>11. \A c \in Clusters : ClusterStands(vol, vol', c)
    BY <1>9, DirentClusters
  <1>12. Others(f) /\ \A g \in Files \ {f} : Standing(g)'
    BY <1>1, <1>2, <1>8, <1>9, <1>10, <1>11, OthersStay
  <1>13. ~Unlinking(f)' /\ ~Reading(f)' /\ ~InWrite' /\ ~Unlinking(f) /\ InWrite /\ ~Reading(f)
    BY <1>1 DEF Unlinking, Reading, InWrite
  <1>14. f \in Live /\ f \in Live'
    BY <1>2, <1>3, <1>9, <1>13 DEF Live, Known, Inv, HandleInv
  <1>15. At(f)' = At(f) /\ FirstOf(f)' = FirstOf(f)
    BY <1>2, <1>3, <1>7, <1>8, <1>13 DEF At, Known, Seen
  <1>16. Reach(f)' = Reach(f)
    <2>1. Reach(f)' = size
      BY <1>7, <1>8, <1>13 DEF Reach, Size
    <2>2. Reach(f) = IF x.pos > x.size THEN x.pos ELSE x.size
      BY <1>2, <1>3, <1>13 DEF Reach, Size
    <2> QED BY <1>3, <1>4, <2>1, <2>2
  <1>17. Stays(f)
    BY <1>11, <1>14, <1>15, <1>16, FileStays
  <1>18. UNCHANGED Promise!vars
    BY <1>1, <1>12, <1>14, <1>15, <1>17, NothingSeen DEF Known, Stays
  <1>19. Standing(f)'
    <2>1. y.pos < y.size => x.pos < x.size
      BY <1>3, <1>4, <1>7
    <2> QED BY <1>2, <1>3, <1>7, <1>8, <1>13, <1>17, <2>1 DEF Track, Standing, Stays
  <1>20. Track'
    BY <1>1, <1>12, <1>19 DEF Track, Heard, Said
  <1> QED BY <1>18, <1>20 DEF Fulfils

-----------------------------------------------------------------------------
(* fat_read *)

LEMMA BytesSeq ==
  ASSUME NEW v, NEW t, NEW n \in Nat
  PROVE  Len(Bytes(v, t, n)) = n /\ \E S : Bytes(v, t, n) \in Seq(S)
PROOF
  <1>1. PICK b : b = Bytes(v, t, n)
    OBVIOUS
  <1>2. b = [i \in 1 .. n |-> Content(v, PlaceOn(t, i - 1))[(i - 1) % BytesPerSector]]
    BY <1>1 DEF Bytes
  <1>3. PICK S : S = {b[i] : i \in 1 .. n}
    OBVIOUS
  <1>4. b \in [1 .. n -> S]
    BY <1>2, <1>3
  <1>5. b \in Seq(S) /\ Len(b) = n
    BY <1>4
  <1> QED BY <1>1, <1>5

(* What has been read, and a piece more.                                     *)
LEMMA ReadMore ==
  ASSUME NEW S, NEW s \in Seq(S), NEW a \in Nat, NEW m \in Nat, NEW k \in Nat, a + m + k <= Len(s),
         NEW d, d = [i \in 1 .. k |-> s[a + m + i]]
  PROVE  SubSeq(s, a + 1, a + m) \o d = SubSeq(s, a + 1, a + m + k)
PROOF
  <1>1. Len(s) \in Nat
    OBVIOUS
  <1>2. /\ a + 1 \in 1 .. Len(s) + 1 /\ a + m \in a + 1 - 1 .. Len(s)
        /\ a + m + k \in a + m .. Len(s)
    BY <1>1
  <1>3. SubSeq(s, a + 1, a + m) \o SubSeq(s, a + m + 1, a + m + k) = SubSeq(s, a + 1, a + m + k)
    BY <1>2, ConcatAdjacentSubSeq
  <1>4. PICK u : u = SubSeq(s, a + m + 1, a + m + k)
    OBVIOUS
  <1>5. \A i \in a + m + 1 .. a + m + k : s[i] \in S
    BY <1>1
  <1>6. /\ u \in Seq(S) /\ Len(u) = k
        /\ \A i \in 1 .. k : u[i] = s[a + m + 1 + i - 1]
    <2>1. /\ u \in Seq(S)
          /\ Len(u) = IF a + m + 1 <= a + m + k THEN a + m + k - (a + m + 1) + 1 ELSE 0
          /\ \A i \in 1 .. a + m + k - (a + m + 1) + 1 : u[i] = s[a + m + 1 + i - 1]
      BY <1>4, <1>5, SubSeqProperties
    <2>2. a + m + k - (a + m + 1) + 1 = k
      OBVIOUS
    <2> QED BY <2>1, <2>2
  <1>7. u = d
    <2>1. u = [i \in 1 .. k |-> u[i]]
      BY <1>6
    <2>2. \A i \in 1 .. k : u[i] = s[a + m + i]
      BY <1>6
    <2> QED BY <2>1, <2>2
  <1> QED BY <1>3, <1>4, <1>7

LEMMA ReadStartKeeps ==
  ASSUME Known, Known', Track, NEW f \in Files, NEW n \in ReadSizes, handle[f].size > 0, ReadStart(f, n)
  PROVE  Fulfils
PROOF
  <1>1. PICK x \in Handles : x = handle[f]
    BY DEF Known, Inv, Typed
  <1>2. PICK size : size = IF x.size # 0 /\ x.pos + n > x.size THEN x.size - x.pos ELSE n
    OBVIOUS
  <1>3. /\ pc = "idle" /\ pc' = "read" /\ got' = got /\ handle' = handle /\ handle[f].open
        /\ vol' = vol
        /\ call' = [NoCall EXCEPT !.f = f, !.size = size, !.start = x.pos, !.sector = SectorOf(x)]
    BY <1>1, <1>2 DEF ReadStart, Idle
  <1>4. /\ call'.f = f /\ call'.size = size /\ call'.start = x.pos /\ call'.sector = SectorOf(x)
        /\ call'.i = 0 /\ call'.out = <<>>
    BY <1>3 DEF NoCall
  <1>5. vol \in Media /\ x.pos \in Nat /\ x.size \in Nat /\ x.size > 0 /\ n \in Nat
    BY <1>1, FatVolumeAssumption DEF Known, Inv, Typed, Handles
  <1>6. x.pos <= x.size
    BY <1>1, <1>3 DEF Known, Bounded, Within, InWrite
  <1>7. PICK own, rank : Owns(own, rank) /\ Measured(own, rank)
    BY DEF Known, Inv, Linked
  <1>8. \A c \in Clusters : ClusterStands(vol, vol', c)
    BY <1>3 DEF ClusterStands
  <1>9. Others(f) /\ \A g \in Files \ {f} : Standing(g)'
    BY <1>3, <1>4, <1>7, <1>8, OthersStay
  <1>10. ~Unlinking(f)' /\ Reading(f)' /\ ~InWrite' /\ ~Unlinking(f) /\ ~InWrite /\ ~Reading(f)
    BY <1>3, <1>4 DEF Unlinking, Reading, InWrite
  <1>11. f \in Live /\ f \in Live'
    BY <1>3, <1>10 DEF Live, UsedFiles, Known, Inv, HandleInv
  <1>12. At(f)' = At(f) /\ Reach(f)' = Reach(f) /\ FirstOf(f)' = FirstOf(f)
    BY <1>1, <1>3, <1>4, <1>10 DEF At, Reach, Size, Known, Seen
  <1>13. Stays(f)
    BY <1>8, <1>11, <1>12, FileStays
  <1>14. UNCHANGED Promise!vars
    BY <1>3, <1>9, <1>11, <1>12, <1>13, NothingSeen DEF Known, Stays
  <1>15. Standing(f)'
    BY <1>3, <1>10, <1>13, StillStanding DEF Track
  <1>16. Heard'
    <2>1. size = IF x.pos + n > x.size THEN x.size - x.pos ELSE n
      BY <1>2, <1>5
    <2>2. x.pos = x.pos + 0 /\ 0 <= size /\ x.pos + size <= x.size
      BY <1>5, <1>6, <2>1
    <2>3. <<>> = SubSeq(Text(f)', x.pos + 1, x.pos + 0)
      <3>1. PICK s : s = Text(f)'
        OBVIOUS
      <3>2. x.pos + 1 \in Int /\ x.pos + 0 \in Int /\ x.pos + 0 < x.pos + 1
        BY <1>5
      <3>3. SubSeq(s, x.pos + 1, x.pos + 0) = <<>>
        BY <3>2, SubSeqEmpty
      <3> QED BY <3>1, <3>3
    <2>4. handle'[call'.f] = x /\ x.open
      BY <1>1, <1>3, <1>4
    <2>5. pc' # "readend"
      BY <1>3
    <2> QED BY <1>4, <1>5, <2>1, <2>2, <2>3, <2>4, <2>5 DEF Heard
  <1>17. Track'
    BY <1>3, <1>9, <1>15, <1>16 DEF Track, Said
  <1> QED BY <1>14, <1>17 DEF Fulfils

LEMMA ReadDoneKeeps ==
  ASSUME Known, Known', Track, ReadDone
  PROVE  Fulfils
PROOF
  <1>1. /\ pc \in {"read", "readend"} /\ pc' = "idle" /\ vol' = vol /\ handle' = handle
        /\ got' = call.out /\ (pc = "readend" \/ call.i >= call.size)
    BY DEF ReadDone
  <1>2. PICK f \in Files, x \in Handles : f = call.f /\ x = handle[f]
    BY <1>1 DEF Known, Inv, Typed
  <1>3. PICK s : s = Text(f)
    OBVIOUS
  <1>4. /\ x.open /\ call.start \in Nat /\ x.pos = call.start + call.i /\ call.i <= call.size
        /\ call.start + call.size <= x.size
        /\ call.out = SubSeq(s, call.start + 1, call.start + call.i)
        /\ pc = "readend" => call.i = call.size
        /\ call.i \in Nat /\ call.size \in Int
    BY <1>1, <1>2, <1>3 DEF Track, Heard, Known, Inv, Typed
  <1>5. PICK n \in ReadSizes : call.size = IF call.start + n > x.size THEN x.size - call.start ELSE n
    BY <1>1, <1>2 DEF Track, Heard
  <1>6. call.i = call.size
    BY <1>1, <1>4
  <1>7. PICK own, rank : Owns(own, rank) /\ Measured(own, rank)
    BY DEF Known, Inv, Linked
  <1>8. \A c \in Clusters : ClusterStands(vol, vol', c)
    BY <1>1 DEF ClusterStands
  <1>9. Others(f) /\ \A g \in Files \ {f} : Standing(g)'
    BY <1>1, <1>2, <1>7, <1>8, OthersStay
  <1>10. ~Unlinking(f)' /\ ~Reading(f)' /\ ~InWrite' /\ ~Unlinking(f) /\ ~InWrite /\ Reading(f)
    BY <1>1, <1>2 DEF Unlinking, Reading, InWrite
  <1>11. f \in Live /\ f \in Live'
    BY <1>1, <1>2, <1>4, <1>10 DEF Live, UsedFiles, Known, Inv, HandleInv
  <1>12. At(f)' = x.pos /\ At(f) = call.start /\ Reach(f)' = Reach(f) /\ FirstOf(f)' = FirstOf(f)
         /\ Reach(f) = x.size
    BY <1>1, <1>2, <1>4, <1>10 DEF At, Reach, Size, Known, Seen
  <1>13. Stays(f)
    BY <1>8, <1>11, <1>12, FileStays
  <1>14. Promise!Next
    <2>1. x.size \in Nat /\ n \in Nat
      BY FatVolumeAssumption DEF Handles
    <2>2. Len(s) = x.size
      <3>1. PICK t : s = Bytes(vol, t, x.size)
        BY <1>3, <1>11, <1>12 DEF Known, Seen
      <3> QED BY <2>1, <3>1, BytesSeq
    <2>3. x.pos = Promise!Least(call.start + n, Len(s))
      <3>1. PICK a, l : a = call.start + n /\ l = Len(s)
        OBVIOUS
      <3>2. Promise!Least(a, l) = IF a < l THEN a ELSE l
        BY DEF Promise!Least
      <3>3. x.pos = IF a < l THEN a ELSE l
        BY <1>4, <1>5, <1>6, <2>1, <2>2, <3>1
      <3> QED BY <3>1, <3>2, <3>3
    <2>4. At(f) # -1
      BY <1>4, <1>12
    <2>5. got' = SubSeq(s, At(f) + 1, x.pos)
      BY <1>1, <1>4, <1>12
    <2> QED BY <1>3, <1>9, <1>11, <1>12, <1>13, <2>3, <2>4, <2>5, ReadSeen DEF Known, Stays
  <1>15. Standing(f)'
    BY <1>1, <1>10, <1>13, StillStanding DEF Track
  <1>16. Track'
    BY <1>1, <1>9, <1>15 DEF Track, Heard, Said
  <1> QED BY <1>14, <1>16 DEF Fulfils

(* Where k bytes further in the same sector, or just after it, is.           *)
LEMMA PlaceAfter ==
  ASSUME NEW r \in Nat, NEW j \in 0 .. SectorsPerCluster - 1, NEW o \in 0 .. BytesPerSector - 1,
         NEW p, p = r * ClusterSize + j * BytesPerSector + o,
         NEW k \in Nat, o + k <= BytesPerSector,
         NEW q, q = (p + k) \div ClusterSize, NEW m, m = ((p + k) \div BytesPerSector) % SectorsPerCluster
  PROVE  /\ o + k < BytesPerSector => q = r /\ m = j
         /\ o + k = BytesPerSector /\ j # SectorsPerCluster - 1 => q = r /\ m = j + 1
         /\ o + k = BytesPerSector /\ j = SectorsPerCluster - 1 => q = r + 1 /\ m = 0
PROOF
  <1>1. PICK b \in Nat \ {0}, n \in Nat \ {0}, s \in Nat \ {0} :
          b = BytesPerSector /\ n = SectorsPerCluster /\ s = ClusterSize /\ s = b * n
    BY ClusterHolds
  <1>2. j \in Nat /\ o \in Nat /\ j < n /\ o < b
    BY <1>1
  <1>3. PICK x \in Nat, y \in Nat : x = r * s /\ y = j * b
    BY <1>1, <1>2
  <1>4. CASE o + k < b
    <2>1. p + k = r * ClusterSize + j * BytesPerSector + (o + k) /\ o + k \in 0 .. BytesPerSector - 1
      BY <1>1, <1>2, <1>3, <1>4
    <2>2. q = r /\ m = j
      BY <2>1, SectorOfPlace
    <2> QED BY <1>1, <1>4, <2>2
  <1>5. CASE o + k = b /\ j # n - 1
    <2>1. (j + 1) * b = y + b
      BY <1>1, <1>2, <1>3
    <2>2. /\ p + k = r * ClusterSize + (j + 1) * BytesPerSector + 0
          /\ j + 1 \in 0 .. SectorsPerCluster - 1 /\ 0 \in 0 .. BytesPerSector - 1
      BY <1>1, <1>2, <1>3, <1>5, <2>1
    <2>3. q = r /\ m = j + 1
      BY <2>2, SectorOfPlace
    <2> QED BY <1>1, <1>5, <2>3
  <1>6. CASE o + k = b /\ j = n - 1
    <2>1. (r + 1) * s = x + s /\ s = y + b
      <3>1. y = (n - 1) * b /\ (n - 1) * b = n * b - b /\ n * b = b * n
        BY <1>1, <1>3, <1>6
      <3> QED BY <1>1, <1>3, <3>1
    <2>2. /\ p + k = (r + 1) * ClusterSize + 0 * BytesPerSector + 0 /\ r + 1 \in Nat
          /\ 0 \in 0 .. SectorsPerCluster - 1 /\ 0 \in 0 .. BytesPerSector - 1
      BY <1>1, <1>2, <1>3, <1>6, <2>1
    <2>3. q = r + 1 /\ m = 0
      BY <2>2, SectorOfPlace
    <2> QED BY <1>1, <1>6, <2>3
  <1> QED BY <1>1, <1>2, <1>4, <1>5, <1>6

(* What ReadSector does, by its two ways out.                                *)
Crosses ==
  SectorEnds /\ (call.sector + 1) % SectorsPerCluster = FirstDataSector % SectorsPerCluster

ReadPiece ==
  [k \in 1 .. Chunk |-> Content(vol, call.sector)[OffsetOf(handle[call.f]) + k - 1]]

LEMMA ReadParts ==
  ASSUME Inv, ReadSector, NEW f \in Files, f = call.f, NEW x \in Handles, x = handle[f],
         NEW next, next = IF x.cur \in FatIndex THEN Ent(vol, x.cur) ELSE 0,
         Crosses => x.cur \in FatIndex
  PROVE  /\ call'.f = f /\ call'.size = call.size /\ call'.start = call.start
         /\ call'.i = call.i + Chunk /\ call'.out = call.out \o ReadPiece
         /\ handle'[f] \in Handles /\ handle'[f].pos = x.pos + Chunk
         /\ handle'[f].open = x.open /\ handle'[f].size = x.size /\ handle'[f].first = x.first
         /\ \A g \in Files \ {f} : handle'[g] = handle[g]
         /\ Same(vol, vol') /\ got' = got
         /\ Crosses => /\ handle'[f].cur = next /\ call'.sector = FirstSector(next)
                       /\ pc' = IF next = Eoc THEN "readend" ELSE "read"
         /\ ~Crosses => /\ handle'[f].cur = x.cur /\ pc' = "read"
                        /\ call'.sector = IF SectorEnds THEN call.sector + 1 ELSE call.sector
PROOF
  <1>1. /\ pc = "read" /\ call.i < call.size /\ call.sector \in DataSectors /\ got' = got
        /\ vol \in Media /\ Mirrored /\ handle \in [Files -> Handles]
        /\ call = [f |-> call.f, v |-> call.v, size |-> call.size, i |-> call.i,
                   sector |-> call.sector, start |-> call.start, out |-> call.out,
                   cluster |-> call.cluster]
    BY DEF ReadSector, Inv, Typed
  <1>2. PICK n : n = call.sector /\ n \in Sectors /\ n \notin LastCopy
    BY <1>1, DataPlace
  <1>3. PICK read : /\ read = Get(vol, n) /\ read \in Media /\ Same(vol, read)
                    /\ read.buf = Content(vol, n)
    <2>1. Fresh(vol) \/ vol.sector # n
      BY <1>1, <1>2, Trusted
    <2> QED BY <1>1, <1>2, <2>1, GetKeeps
  <1>4. PICK chunk \in Nat : chunk = Chunk
    BY <1>1, ChunkFits
  <1>5. PICK out : out = call.out \o ReadPiece
    OBVIOUS
  <1>6. call.out \o [k \in 1 .. chunk |-> read.buf[OffsetOf(x) + k - 1]] = out
    BY <1>2, <1>3, <1>4, <1>5 DEF ReadPiece
  <1>7. PICK locals : locals = [call EXCEPT !.i = call.i + chunk, !.out = out]
    OBVIOUS
  <1>8. PICK moved : moved = [x EXCEPT !.pos = x.pos + chunk]
    OBVIOUS
  <1>9. /\ moved \in Handles /\ moved.pos = x.pos + chunk /\ moved.open = x.open
        /\ moved.size = x.size /\ moved.first = x.first /\ moved.cur = x.cur
    BY <1>4, <1>8 DEF Handles
  <1>10. /\ locals.f = f /\ locals.size = call.size /\ locals.start = call.start
         /\ locals.i = call.i + chunk /\ locals.out = out /\ locals.sector = n
         /\ \A m : LET l == [locals EXCEPT !.sector = m]
                   IN  /\ l.f = f /\ l.size = call.size /\ l.start = call.start
                       /\ l.i = call.i + chunk /\ l.out = out /\ l.sector = m
    BY <1>1, <1>2, <1>7
  <1>11. CASE Crosses
    <2>1. PICK c \in FatIndex : c = x.cur /\ next = Ent(vol, c)
      BY <1>11
    <2>2. PICK look : /\ look = GetNext(read, c) /\ look.at = Ent(read, c)
                      /\ look.vol \in Media /\ Same(read, look.vol)
      BY <1>1, <1>3, GetNextReads
    <2>3. look.at = next
      BY <1>3, <2>1, <2>2, TablesKept DEF Same
    <2>4. /\ vol' = look.vol /\ handle' = [handle EXCEPT ![f] = [moved EXCEPT !.cur = next]]
          /\ call' = [locals EXCEPT !.sector = FirstSector(next)]
          /\ pc' = IF next = Eoc THEN "readend" ELSE "read"
      <3>1. LET locals2 == [call EXCEPT !.i = @ + Chunk,
                   !.out = @ \o [k \in 1 .. Chunk |-> Get(vol, n).buf[OffsetOf(handle[f]) + k - 1]]]
                look2 == GetNext(Get(vol, n), handle[f].cur)
                moved2 == [handle[f] EXCEPT !.pos = @ + Chunk]
            IN  /\ vol' = look2.vol
                /\ handle' = [handle EXCEPT ![f] = [moved2 EXCEPT !.cur = look2.at]]
                /\ call' = [locals2 EXCEPT !.sector = FirstSector(look2.at)]
                /\ pc' = IF look2.at = Eoc THEN "readend" ELSE "read"
        BY <1>2, <1>11 DEF ReadSector, Crosses
      <3>2. [call EXCEPT !.i = @ + Chunk,
               !.out = @ \o [k \in 1 .. Chunk |-> Get(vol, n).buf[OffsetOf(handle[f]) + k - 1]]]
              = locals
        BY <1>1, <1>3, <1>4, <1>6, <1>7
      <3> QED BY <1>3, <1>4, <1>8, <2>1, <2>2, <2>3, <3>1, <3>2
    <2>5. next \in Int
      BY <1>1, <2>1, EntTyped DEF EntryValues, Twelve, Sixteen
    <2>6. PICK y : y = [moved EXCEPT !.cur = next]
      OBVIOUS
    <2>7. /\ y \in Handles /\ y.pos = x.pos + chunk /\ y.open = x.open /\ y.size = x.size
          /\ y.first = x.first /\ y.cur = next
      BY <1>9, <2>5, <2>6 DEF Handles
    <2>8. handle'[f] = y /\ \A g \in Files \ {f} : handle'[g] = handle[g]
      BY <1>1, <2>4, <2>6
    <2>9. Same(vol, vol')
      BY <1>3, <2>2, <2>4, SameTwice
    <2> QED BY <1>1, <1>4, <1>5, <1>10, <1>11, <2>4, <2>7, <2>8, <2>9
  <1>12. CASE ~Crosses
    <2>1. /\ vol' = read /\ handle' = [handle EXCEPT ![f] = moved] /\ pc' = "read"
          /\ call' = [locals EXCEPT !.sector = IF SectorEnds THEN n + 1 ELSE n]
      <3>1. LET locals2 == [call EXCEPT !.i = @ + Chunk,
                   !.out = @ \o [k \in 1 .. Chunk |-> Get(vol, n).buf[OffsetOf(handle[f]) + k - 1]]]
                moved2 == [handle[f] EXCEPT !.pos = @ + Chunk]
            IN  /\ vol' = Get(vol, n)
                /\ handle' = [handle EXCEPT ![f] = moved2]
                /\ call' = [locals2 EXCEPT !.sector = IF SectorEnds THEN @ + 1 ELSE @]
                /\ pc' = pc
        BY <1>2, <1>12 DEF ReadSector, Crosses
      <3>2. [call EXCEPT !.i = @ + Chunk,
               !.out = @ \o [k \in 1 .. Chunk |-> Get(vol, n).buf[OffsetOf(handle[f]) + k - 1]]]
              = locals
        BY <1>1, <1>3, <1>4, <1>6, <1>7
      <3>3. [locals EXCEPT !.sector = IF SectorEnds THEN @ + 1 ELSE @]
              = [locals EXCEPT !.sector = IF SectorEnds THEN n + 1 ELSE n]
        BY <1>10
      <3> QED BY <1>1, <1>3, <1>4, <1>8, <3>1, <3>2, <3>3
    <2>2. handle'[f] = moved /\ \A g \in Files \ {f} : handle'[g] = handle[g]
      BY <1>1, <1>9, <2>1
    <2>3. Same(vol, vol')
      BY <1>3, <2>1
    <2> QED BY <1>1, <1>2, <1>4, <1>5, <1>9, <1>10, <1>12, <2>1, <2>2, <2>3
  <1> QED BY <1>11, <1>12

(* Where fat_read is, and what it reads there: bytes of the file's text.     *)
LEMMA ReadPlace ==
  ASSUME Known, Track, ReadSector, NEW f \in Files, f = call.f, NEW x \in Handles, x = handle[f],
         NEW own, NEW rank, Owns(own, rank), Measured(own, rank)
  PROVE  /\ f \in Live /\ Reach(f) = x.size /\ x.pos < x.size
         /\ \E c, j, o : /\ Lies(own, rank, Chain(f), f, x.pos, c, j, o) /\ x.cur = c
                         /\ call.sector = FirstSector(c) + j /\ OffsetOf(x) = o
                         /\ o + Chunk <= BytesPerSector
                         /\ Crosses <=> o + Chunk = BytesPerSector /\ j = SectorsPerCluster - 1
                         /\ SectorEnds <=> o + Chunk = BytesPerSector
         /\ ReadPiece = [k \in 1 .. Chunk |-> Text(f)[x.pos + k]]
PROOF
  <1>1. /\ pc = "read" /\ call.i < call.size
    BY DEF ReadSector
  <1>2. /\ x.open /\ call.start \in Nat /\ x.pos = call.start + call.i
        /\ call.start + call.size <= x.size /\ call.sector = SectorOf(x)
        /\ call.i \in Nat /\ call.size \in Int /\ x.size \in Nat /\ x.pos \in Nat
    BY <1>1 DEF Track, Heard, Known, Inv, Typed, Handles
  <1>3. x.pos < x.size
    BY <1>1, <1>2
  <1>4. ~Unlinking(f) /\ ~InWrite
    BY <1>1 DEF Unlinking, InWrite
  <1>5. f \in Live /\ f \in UsedFiles /\ Reach(f) = x.size
    BY <1>2, <1>4 DEF Live, Known, Inv, HandleInv, Reach, Size
  <1>6. PICK t : t = Chain(f) /\ Text(f) = Bytes(vol, t, x.size)
    BY <1>5 DEF Known, Seen
  <1>7. PICK p \in Nat : p = x.pos /\ p \in 0 .. x.size - 1
    BY <1>2, <1>3
  <1>8. PICK c, j, o : Lies(own, rank, t, f, p, c, j, o)
    BY <1>2, <1>4, <1>5, <1>6, <1>7, BytePlace DEF Known
  <1>9. PICK r \in Nat : /\ r = rank[c] /\ c \in Clusters /\ j \in 0 .. SectorsPerCluster - 1
                         /\ o \in 0 .. BytesPerSector - 1 /\ t[1 + p \div ClusterSize] = c
                         /\ p = r * ClusterSize + j * BytesPerSector + o
                         /\ p \div ClusterSize = r
    BY <1>8 DEF Lies
  <1>10. x.cur = c
    BY <1>2, <1>3, <1>4, <1>6, <1>7, <1>9 DEF Track, Standing
  <1>11. (p \div BytesPerSector) % SectorsPerCluster = j /\ p % BytesPerSector = o
    BY <1>9, SectorOfPlace
  <1>12. call.sector = FirstSector(c) + j /\ OffsetOf(x) = o
    BY <1>2, <1>7, <1>10, <1>11 DEF SectorOf, OffsetOf
  <1>13. PICK chunk \in Nat : /\ chunk = Chunk /\ o + chunk <= BytesPerSector
                              /\ chunk <= call.size - call.i
    BY <1>1, <1>12, ChunkFits, ChunkLeft DEF Known
  <1>14. SectorEnds <=> o + chunk = BytesPerSector
    BY <1>12, <1>13 DEF SectorEnds
  <1>15. Crosses <=> o + chunk = BytesPerSector /\ j = SectorsPerCluster - 1
    <2>1. (FirstSector(c) + j + 1) % SectorsPerCluster = 0 <=> j = SectorsPerCluster - 1
      BY <1>9, LastSector DEF Known
    <2> QED BY <1>12, <1>14, <2>1 DEF Crosses, Known, Aligned
  <1>16. ReadPiece = [k \in 1 .. chunk |-> Text(f)[p + k]]
    <2>1. ReadPiece = [k \in 1 .. chunk |-> Content(vol, FirstSector(c) + j)[o + k - 1]]
      BY <1>12, <1>13 DEF ReadPiece
    <2>2. ASSUME NEW k \in 1 .. chunk
          PROVE  Bytes(vol, t, x.size)[p + k] = Content(vol, FirstSector(c) + j)[o + k - 1]
      <3>1. PICK q \in Nat : q = p + k - 1 /\ q + 1 = p + k /\ q + 1 \in 1 .. x.size
        BY <1>1, <1>2, <1>7, <1>13
      <3>2. PICK y \in Nat : y = r * ClusterSize + j * BytesPerSector
        BY <1>9, ClusterHolds
      <3>3. q = r * ClusterSize + j * BytesPerSector + (o + k - 1) /\ o + k - 1 \in 0 .. BytesPerSector - 1
        <4>1. o \in Nat /\ BytesPerSector \in Nat
          BY <1>9, ClusterHolds
        <4>2. p = y + o
          BY <1>9, <3>2
        <4>3. q = y + (o + k - 1)
          BY <3>1, <4>1, <4>2
        <4> QED BY <1>13, <3>2, <4>1, <4>3
      <3>4. /\ q \div ClusterSize = r /\ (q % ClusterSize) \div BytesPerSector = j
            /\ q % BytesPerSector = o + k - 1
        BY <1>9, <3>3, SectorOfPlace
      <3>5. PlaceOn(t, q) = FirstSector(c) + j
        BY <1>9, <3>4 DEF PlaceOn
      <3>6. Bytes(vol, t, x.size)[q + 1] = Content(vol, PlaceOn(t, q + 1 - 1))[(q + 1 - 1) % BytesPerSector]
        BY <3>1 DEF Bytes
      <3>7. q + 1 - 1 = q
        OBVIOUS
      <3> QED BY <3>1, <3>4, <3>5, <3>6, <3>7
    <2> QED BY <1>6, <2>1, <2>2
  <1> QED BY <1>3, <1>5, <1>6, <1>7, <1>8, <1>10, <1>12, <1>13, <1>14, <1>15, <1>16

LEMMA ReadSectorKeeps ==
  ASSUME Known, Known', Track, ReadSector
  PROVE  Fulfils
PROOF
  <1>1. pc = "read" /\ call.i < call.size /\ vol \in Media
    BY DEF ReadSector, Known, Inv, Typed
  <1>2. PICK f \in Files, x \in Handles : f = call.f /\ x = handle[f]
    BY <1>1 DEF Known, Inv, Typed
  <1>3. PICK own, rank : Owns(own, rank) /\ Measured(own, rank)
    BY DEF Known, Inv, Linked
  <1>4. PICK t, s : t = Chain(f) /\ s = Text(f)
    OBVIOUS
  <1>5. /\ f \in Live /\ Reach(f) = x.size /\ x.pos < x.size
        /\ ReadPiece = [k \in 1 .. Chunk |-> s[x.pos + k]]
        /\ \E c, j, o : /\ Lies(own, rank, t, f, x.pos, c, j, o) /\ x.cur = c
                        /\ call.sector = FirstSector(c) + j /\ OffsetOf(x) = o
                        /\ o + Chunk <= BytesPerSector
                        /\ Crosses <=> o + Chunk = BytesPerSector /\ j = SectorsPerCluster - 1
                        /\ SectorEnds <=> o + Chunk = BytesPerSector
    BY <1>2, <1>3, <1>4, ReadPlace
  <1>6. PICK c, j, o : /\ Lies(own, rank, t, f, x.pos, c, j, o) /\ x.cur = c
                       /\ call.sector = FirstSector(c) + j /\ OffsetOf(x) = o
                       /\ o + Chunk <= BytesPerSector
                       /\ Crosses <=> o + Chunk = BytesPerSector /\ j = SectorsPerCluster - 1
                       /\ SectorEnds <=> o + Chunk = BytesPerSector
    BY <1>5
  <1>7. PICK r \in Nat : /\ r = rank[c] /\ c \in Clusters /\ c \in FatIndex
                         /\ j \in 0 .. SectorsPerCluster - 1 /\ o \in 0 .. BytesPerSector - 1
                         /\ x.pos = r * ClusterSize + j * BytesPerSector + o
                         /\ x.pos \div ClusterSize = r /\ t[1 + r] = c /\ 1 + r \in 1 .. Length
    BY <1>6, Marks DEF Lies
  <1>8. PICK next : next = Ent(vol, c) /\ next \in Int /\ next = IF x.cur \in FatIndex THEN Ent(vol, x.cur) ELSE 0
    BY <1>1, <1>6, <1>7, EntTyped DEF EntryValues, Twelve, Sixteen, Known, Inv
  <1>9. PICK chunk \in Nat : chunk = Chunk /\ chunk <= call.size - call.i
    BY <1>1, <1>2, ChunkLeft DEF Known
  <1>10. PICK y \in Handles : y = handle'[f]
    BY <1>2 DEF Known, Inv, Typed
  <1>11. /\ call'.f = f /\ call'.size = call.size /\ call'.start = call.start
         /\ call'.i = call.i + chunk /\ call'.out = call.out \o ReadPiece
         /\ y.pos = x.pos + chunk
         /\ y.open = x.open /\ y.size = x.size /\ y.first = x.first
         /\ \A g \in Files \ {f} : handle'[g] = handle[g]
         /\ Same(vol, vol') /\ got' = got
         /\ Crosses => /\ y.cur = next /\ call'.sector = FirstSector(next)
                       /\ pc' = IF next = Eoc THEN "readend" ELSE "read"
         /\ ~Crosses => /\ y.cur = x.cur /\ pc' = "read"
                        /\ call'.sector = IF SectorEnds THEN call.sector + 1 ELSE call.sector
    <2>1. Inv /\ (Crosses => x.cur \in FatIndex)
      BY <1>6, <1>7 DEF Known
    <2>2. /\ call'.f = f /\ call'.size = call.size /\ call'.start = call.start
          /\ call'.i = call.i + Chunk /\ call'.out = call.out \o ReadPiece
          /\ handle'[f].pos = x.pos + Chunk
          /\ handle'[f].open = x.open /\ handle'[f].size = x.size /\ handle'[f].first = x.first
          /\ \A g \in Files \ {f} : handle'[g] = handle[g]
          /\ Same(vol, vol') /\ got' = got
          /\ Crosses => /\ handle'[f].cur = next /\ call'.sector = FirstSector(next)
                        /\ pc' = IF next = Eoc THEN "readend" ELSE "read"
          /\ ~Crosses => /\ handle'[f].cur = x.cur /\ pc' = "read"
                         /\ call'.sector = IF SectorEnds THEN call.sector + 1 ELSE call.sector
      BY <1>2, <1>8, <2>1, ReadParts
    <2> QED BY <1>9, <1>10, <2>2
  <1>12. /\ x.open /\ call.start \in Nat /\ x.pos = call.start + call.i
         /\ call.start + call.size <= x.size /\ call.i <= call.size
         /\ call.out = SubSeq(s, call.start + 1, call.start + call.i)
         /\ call.i \in Nat /\ call.size \in Int /\ x.size \in Nat /\ x.pos \in Nat
    BY <1>1, <1>2, <1>4 DEF Track, Heard, Known, Inv, Typed, Handles
  <1>13. \A g \in Files : Dir(vol', g) = Dir(vol, g)
    BY <1>11, DirentPlace DEF Same, Dir
  <1>14. \A d \in Clusters : ClusterStands(vol, vol', d)
    BY <1>11, SameClusters
  <1>15. pc' \in {"read", "readend"}
    BY <1>11
  <1>16. Others(f) /\ \A g \in Files \ {f} : Standing(g)'
    BY <1>1, <1>2, <1>3, <1>11, <1>13, <1>14, OthersStay
  <1>17. ~Unlinking(f)' /\ Reading(f)' /\ ~InWrite' /\ ~Unlinking(f) /\ ~InWrite /\ Reading(f)
    BY <1>1, <1>2, <1>11, <1>15 DEF Unlinking, Reading, InWrite
  <1>18. f \in Live'
    BY <1>5, <1>13, <1>17 DEF Live, UsedFiles
  <1>19. At(f)' = At(f) /\ Reach(f)' = Reach(f) /\ FirstOf(f)' = FirstOf(f)
    <2>1. handle'[f].open /\ handle[f].open /\ handle'[f].size = handle[f].size
          /\ handle'[f].first = handle[f].first /\ call'.start = call.start
      BY <1>2, <1>10, <1>11, <1>12
    <2>2. At(f)' = At(f)
      BY <1>17, <2>1 DEF At
    <2>3. Reach(f)' = Reach(f)
      BY <1>17, <2>1 DEF Reach, Size
    <2>4. FirstOf(f)' = FirstOf(f)
      BY <2>1 DEF Known, Seen
    <2> QED BY <2>2, <2>3, <2>4
  <1>20. Stays(f)
    BY <1>5, <1>14, <1>18, <1>19, FileStays
  <1>21. UNCHANGED Promise!vars
    BY <1>5, <1>11, <1>16, <1>18, <1>19, <1>20, NothingSeen DEF Known, Stays
  <1>22. PICK p, q, m : /\ p = x.pos + chunk /\ q = p \div ClusterSize
                        /\ m = (p \div BytesPerSector) % SectorsPerCluster
    OBVIOUS
  <1>23. /\ o + chunk < BytesPerSector => q = r /\ m = j
         /\ o + chunk = BytesPerSector /\ j # SectorsPerCluster - 1 => q = r /\ m = j + 1
         /\ o + chunk = BytesPerSector /\ j = SectorsPerCluster - 1 => q = r + 1 /\ m = 0
    BY <1>6, <1>7, <1>9, <1>22, PlaceAfter
  <1>24. ASSUME Crosses, p < x.size PROVE next \in Clusters /\ t[1 + q] = next
    <2>1. p \in 0 .. x.size - 1
      <3>1. PICK n \in Nat, a \in Nat : n = x.size /\ a = x.pos
        BY <1>12
      <3>2. p = a + chunk /\ p < n /\ chunk \in Nat
        BY <1>9, <1>22, <1>24, <3>1
      <3>3. p \in 0 .. n - 1
        BY <3>2
      <3> QED BY <3>1, <3>3
    <2>2. PICK c2, j2, o2 : Lies(own, rank, t, f, p, c2, j2, o2)
      <3>1. f \in UsedFiles /\ ~Unlinking(f) /\ Reach(f) \in Nat /\ p \in 0 .. Reach(f) - 1 /\ Inv
        BY <1>5, <1>12, <1>17, <2>1 DEF Known, Live
      <3>2. \A n \in 0 .. Reach(f) - 1 : \E d, k, i : Lies(own, rank, Chain(f), f, n, d, k, i)
        BY <1>3, <3>1, BytePlace
      <3> QED BY <1>4, <3>1, <3>2
    <2>3. c2 \in Clusters /\ t[1 + q] = c2 /\ 1 + q \in 1 .. Length
      BY <1>22, <2>2 DEF Lies
    <2>4. q = r + 1
      BY <1>6, <1>9, <1>23, <1>24
    <2>5. t[1 + q] = IF t[1 + r] \in Clusters THEN Table[t[1 + r]] ELSE 0
      <3>1. PICK a : Follows(t, a, Table)
        BY <1>4 DEF Known, Seen
      <3>2. PICK k \in 1 .. Length : k = 1 + q /\ k # 1 /\ k - 1 = 1 + r
        BY <2>3, <2>4
      <3>3. t[k] = IF k = 1 THEN a ELSE IF t[k - 1] \in Clusters THEN Table[t[k - 1]] ELSE 0
        BY <3>1 DEF Follows
      <3> QED BY <3>2, <3>3
    <2>6. t[1 + q] = next
      BY <1>7, <1>8, <2>5 DEF Table
    <2> QED BY <2>3, <2>6
  <1>25. Standing(f)'
    <2>1. CASE p < x.size
      <3>1. y.cur = t[1 + q]
        <4>1. CASE Crosses
          BY <1>11, <1>24, <2>1, <4>1
        <4>2. CASE ~Crosses
          <5>1. q = r
            <6>1. o + chunk < BytesPerSector \/ o + chunk = BytesPerSector
              <7>1. o \in Nat /\ BytesPerSector \in Nat /\ o + chunk <= BytesPerSector
                BY <1>6, <1>7, <1>9, ClusterHolds
              <7> QED BY <7>1
            <6> QED BY <1>6, <1>9, <1>23, <4>2, <6>1
          <5> QED BY <1>6, <1>7, <1>11, <4>2, <5>1
        <4> QED BY <4>1, <4>2
      <3> QED BY <1>4, <1>10, <1>11, <1>20, <1>22, <3>1 DEF Standing, Stays
    <2>2. CASE ~(p < x.size)
      BY <1>10, <1>11, <1>22, <2>2 DEF Standing
    <2> QED BY <2>1, <2>2
  <1>26. call'.i <= call'.size /\ y.pos = call'.start + call'.i
    <2>1. call'.i = call.i + chunk /\ call'.size = call.size /\ call'.start = call.start
          /\ y.pos = x.pos + chunk
      BY <1>11
    <2>2. PICK a \in Nat, i \in Nat, z \in Int :
            /\ a = call.start /\ i = call.i /\ z = call.size
            /\ x.pos = a + i /\ chunk \in Nat /\ chunk <= z - i
      BY <1>9, <1>12
    <2>3. i + chunk <= z /\ a + i + chunk = a + (i + chunk)
      BY <2>2
    <2> QED BY <2>1, <2>2, <2>3
  <1>27. ASSUME pc' = "readend" PROVE call'.i = call'.size
    <2>1. Crosses /\ next = Eoc
      BY <1>11, <1>27
    <2>2. next \notin Clusters
      BY <2>1, Marks
    <2>3. ~(p < x.size)
      BY <1>24, <2>1, <2>2
    <2>4. call'.i = call.i + chunk /\ call'.size = call.size
      BY <1>11
    <2>5. PICK a \in Nat, i \in Nat, z \in Int, n \in Nat :
            /\ a = call.start /\ i = call.i /\ z = call.size /\ n = x.size
            /\ x.pos = a + i /\ a + z <= n /\ chunk <= z - i
      BY <1>9, <1>12
    <2>6. p = a + i + chunk /\ ~(p < n)
      BY <1>22, <2>3, <2>5
    <2>7. i + chunk = z
      <3>1. chunk \in Nat /\ chunk <= z - i /\ a + z <= n
        BY <1>9, <2>5
      <3>2. ~(a + i + chunk < n)
        BY <2>6
      <3> QED BY <3>1, <3>2
    <2> QED BY <2>4, <2>5, <2>7
  <1>28. ASSUME pc' = "read", call'.i < call'.size PROVE call'.sector = SectorOf(y)
    <2>1. SectorOf(y) = FirstSector(y.cur) + m
      BY <1>11, <1>22 DEF SectorOf
    <2>2. FirstSector(c) \in Int /\ FirstSector(next) \in Int /\ j \in Int
      BY <1>7, <1>8, Regions, Marks DEF FirstSector
    <2>3. CASE Crosses
      <3>1. m = 0
        BY <1>6, <1>9, <1>23, <2>3
      <3> QED BY <1>11, <2>1, <2>2, <2>3, <3>1
    <2>4. CASE ~Crosses /\ SectorEnds
      <3>1. m = j + 1
        BY <1>6, <1>9, <1>23, <2>4
      <3> QED BY <1>6, <1>11, <2>1, <2>2, <2>4, <3>1
    <2>5. CASE ~SectorEnds
      <3>1. o + chunk < BytesPerSector
        BY <1>6, <1>7, <1>9, <2>5, ClusterHolds
      <3>2. m = j /\ ~Crosses
        BY <1>23, <2>5, <3>1 DEF Crosses
      <3> QED BY <1>6, <1>11, <2>1, <2>5, <3>2
    <2> QED BY <2>3, <2>4, <2>5
  <1>29. call'.out = SubSeq(s, call.start + 1, call.start + call.i + chunk)
    <2>1. PICK S : s \in Seq(S) /\ Len(s) = x.size
      <3>1. s = Bytes(vol, t, x.size)
        BY <1>4, <1>5 DEF Known, Seen
      <3> QED BY <1>12, <3>1, BytesSeq
    <2>2. PICK a \in Nat, i \in Nat : a = call.start /\ i = call.i /\ a + i = x.pos
      BY <1>12
    <2>3. a + i + chunk <= Len(s)
      <3>1. PICK z \in Int, n \in Nat : /\ z = call.size /\ n = x.size
                                       /\ a + z <= n /\ chunk <= z - i
        BY <1>9, <1>12, <2>2
      <3>2. a + i + chunk <= n
        BY <1>9, <2>2, <3>1
      <3> QED BY <2>1, <3>1, <3>2
    <2>4. PICK d : d = [k \in 1 .. chunk |-> s[a + i + k]]
      OBVIOUS
    <2>5. SubSeq(s, a + 1, a + i) \o d = SubSeq(s, a + 1, a + i + chunk)
      BY <2>1, <2>3, <2>4, ReadMore
    <2>6. ReadPiece = d
      BY <1>5, <1>9, <2>2, <2>4
    <2>7. call'.out = SubSeq(s, a + 1, a + i) \o d
      BY <1>11, <1>12, <2>2, <2>6
    <2> QED BY <2>2, <2>5, <2>7
  <1>30. Heard'
    <2>1. call'.f = f /\ handle'[f] = y /\ Text(f)' = s
      BY <1>4, <1>10, <1>11, <1>20 DEF Stays
    <2>2. \E n \in ReadSizes : call'.size = IF call'.start + n > y.size THEN y.size - call'.start ELSE n
      BY <1>1, <1>2, <1>11 DEF Track, Heard
    <2>3. call'.out = SubSeq(s, call'.start + 1, call'.start + call'.i)
      <3>1. call'.start + call'.i = call.start + call.i + chunk
        BY <1>11, <1>12
      <3> QED BY <1>11, <1>29, <3>1
    <2>4. /\ y.open /\ call'.start \in Nat /\ call'.start + call'.size <= y.size
      BY <1>11, <1>12
    <2> QED BY <1>26, <1>27, <1>28, <2>1, <2>2, <2>3, <2>4 DEF Heard
  <1>31. Track'
    BY <1>15, <1>16, <1>25, <1>30 DEF Track, Said
  <1> QED BY <1>21, <1>31 DEF Fulfils

-----------------------------------------------------------------------------
(* fat_write *)

(* Sequence b is old, with the m elements of new over it from place p on.    *)
Laid(S, b, n, old, size, p, new, m) ==
  /\ old \in Seq(S) /\ size \in Nat /\ size = Len(old) /\ p \in Nat /\ p <= size
  /\ new \in Seq(S) /\ m \in Nat /\ m = Len(new)
  /\ n \in Nat /\ n = IF p + m > size THEN p + m ELSE size
  /\ b = [k \in 1 .. n |-> IF k \in p + 1 .. p + m THEN new[k - p] ELSE old[k]]

IsOverwritten(b, old, p, new) == b = Promise!Overwritten(old, p, new)

LEMMA OverwrittenIs ==
  ASSUME NEW S, NEW b, NEW n, NEW old, NEW size, NEW p, NEW new, NEW m,
         Laid(S, b, n, old, size, p, new, m)
  PROVE  IsOverwritten(b, old, p, new)
PROOF
  <1> /\ old \in Seq(S) /\ size \in Nat /\ size = Len(old) /\ p \in Nat /\ p <= size
      /\ new \in Seq(S) /\ m \in Nat /\ m = Len(new)
      /\ n \in Nat /\ n = IF p + m > size THEN p + m ELSE size
    BY DEF Laid
  <1>1. \A i \in 1 .. size : old[i] \in S
    OBVIOUS
  <1>2. PICK head : head = SubSeq(old, 1, p)
    OBVIOUS
  <1>3. head \in Seq(S) /\ Len(head) = p /\ \A i \in 1 .. p : head[i] = old[i]
    <2>1. \A i \in 1 .. p : old[i] \in S
      BY <1>1
    <2>2. /\ head \in Seq(S) /\ Len(head) = IF 1 <= p THEN p - 1 + 1 ELSE 0
          /\ \A i \in 1 .. p - 1 + 1 : head[i] = old[1 + i - 1]
      BY <1>2, <2>1, SubSeqProperties
    <2>3. p - 1 + 1 = p /\ (1 <= p \/ p = 0)
      OBVIOUS
    <2> QED BY <2>2, <2>3
  <1>4. PICK tail : tail = SubSeq(old, p + m + 1, size)
    OBVIOUS
  <1>5. PICK l \in Nat : /\ l = (IF p + m > size THEN 0 ELSE size - (p + m))
                         /\ n = p + m + l
    <2>1. CASE p + m > size
      <3>1. n = p + m + 0
        BY <2>1
      <3> QED BY <2>1, <3>1
    <2>2. CASE ~(p + m > size)
      <3>1. PICK k \in Nat : k = size - (p + m)
        <4>1. PICK h \in Nat : h = p + m
          OBVIOUS
        <4>2. size - h \in Nat
          BY <2>2, <4>1
        <4> QED BY <4>1, <4>2
      <3>2. n = p + m + k
        BY <2>2, <3>1
      <3> QED BY <2>2, <3>1, <3>2
    <2> QED BY <2>1, <2>2
  <1>6. tail \in Seq(S) /\ Len(tail) = l /\ \A i \in 1 .. l : tail[i] = old[p + m + i]
    <2>1. PICK q \in Nat : q = p + m + 1
      OBVIOUS
    <2>2. \A i \in q .. size : old[i] \in S
      BY <1>1, <2>1
    <2>3. /\ tail \in Seq(S) /\ Len(tail) = IF q <= size THEN size - q + 1 ELSE 0
          /\ \A i \in 1 .. size - q + 1 : tail[i] = old[q + i - 1]
      <3>1. tail = SubSeq(old, q, size) /\ q \in Int /\ size \in Int
        BY <1>4, <2>1
      <3> QED BY <2>2, <3>1, SubSeqProperties
    <2>4. Len(tail) = l
      <3>1. q <= size <=> ~(p + m >= size)
        BY <2>1
      <3>2. size - q + 1 = size - (p + m)
        BY <2>1
      <3>3. l = IF q <= size THEN size - q + 1 ELSE 0
        BY <1>5, <3>1, <3>2
      <3> QED BY <2>3, <3>3
    <2>5. ASSUME NEW i \in 1 .. l PROVE tail[i] = old[p + m + i]
      <3>1. i \in 1 .. size - q + 1 /\ q + i - 1 = p + m + i
        BY <1>5, <2>1
      <3> QED BY <2>3, <3>1
    <2> QED BY <2>3, <2>4, <2>5
  <1>7. PICK u : u = head \o new
    OBVIOUS
  <1>8. /\ u \in Seq(S) /\ Len(u) = p + m
        /\ \A i \in 1 .. p + m : u[i] = IF i <= p THEN old[i] ELSE new[i - p]
    <2>1. /\ u \in Seq(S) /\ Len(u) = p + m
          /\ \A i \in 1 .. p + m : u[i] = IF i <= p THEN head[i] ELSE new[i - p]
      BY <1>3, <1>7, ConcatProperties
    <2>2. \A i \in 1 .. p + m : i <= p => head[i] = old[i]
      BY <1>3
    <2> QED BY <2>1, <2>2
  <1>9. PICK w : w = u \o tail
    OBVIOUS
  <1>10. /\ w \in Seq(S) /\ Len(w) = n
         /\ \A i \in 1 .. n : w[i] = IF i <= p + m THEN u[i] ELSE tail[i - (p + m)]
    <2>1. /\ w \in Seq(S) /\ Len(w) = p + m + l
          /\ \A i \in 1 .. p + m + l : w[i] = IF i <= p + m THEN u[i] ELSE tail[i - (p + m)]
      <3>1. PICK k \in Nat : k = p + m
        OBVIOUS
      <3>2. /\ w \in Seq(S) /\ Len(w) = Len(u) + Len(tail)
            /\ \A i \in 1 .. Len(u) + Len(tail) :
                 w[i] = IF i <= Len(u) THEN u[i] ELSE tail[i - Len(u)]
        BY <1>6, <1>8, <1>9, ConcatProperties
      <3> QED BY <1>6, <1>8, <3>1, <3>2
    <2> QED BY <1>5, <2>1
  <1>11. ASSUME NEW i \in 1 .. n PROVE w[i] = IF i \in p + 1 .. p + m THEN new[i - p] ELSE old[i]
    <2>1. CASE i <= p + m
      <3>1. i \in 1 .. p + m /\ (i <= p <=> i \notin p + 1 .. p + m)
        BY <2>1
      <3> QED BY <1>8, <1>10, <2>1, <3>1
    <2>2. CASE ~(i <= p + m)
      <3>1. PICK d \in 1 .. l : d = i - (p + m) /\ p + m + d = i
        <4>1. PICK k \in Nat : k = p + m
          OBVIOUS
        <4>2. i \in 1 .. k + l /\ ~(i <= k)
          BY <1>5, <2>2, <4>1
        <4>3. i - k \in 1 .. l /\ k + (i - k) = i
          BY <4>2
        <4> QED BY <4>1, <4>3
      <3>2. i \notin p + 1 .. p + m
        BY <2>2
      <3> QED BY <1>6, <1>10, <2>2, <3>1, <3>2
    <2> QED BY <2>1, <2>2
  <1>12. w = [k \in 1 .. n |-> w[k]]
    BY <1>10
  <1>13. w = b
    BY <1>11, <1>12 DEF Laid
  <1>14. Promise!Overwritten(old, p, new) = w
    BY <1>2, <1>4, <1>7, <1>9 DEF Promise!Overwritten
  <1> QED BY <1>13, <1>14 DEF IsOverwritten

(* What a step of fat_write does to the volume: the bytes are in the sector   *)
(* it stands in, and cluster a, which was free, may come after the last one.  *)
Wrote(a) ==
  /\ \A d \in FatIndex :
       \/ Ent(vol', d) = Ent(vol, d)
       \/ /\ a \in Clusters /\ Ent(vol, a) = 0
          /\ d = a \/ (d = handle[call.f].cur /\ Ent(vol, d) = Eoc)
  /\ \A n \in DataSectors :
       \/ Content(vol', n) = IF n = call.sector THEN Overlaid(n) ELSE Content(vol, n)
       \/ a \in Clusters /\ Ent(vol, a) = 0 /\ InCluster(n, a)

(* The clusters of the file that is written, and those of the others.        *)
LEMMA WriteReaches ==
  ASSUME Inv, Aligned, Writing, NEW own, NEW rank, Owns(own, rank), Measured(own, rank),
         NEW f \in Files, f = call.f, NEW a, Wrote(a)
  PROVE  /\ \A d \in Clusters : own[d] \in UsedFiles \ {f} => ClusterStands(vol, vol', d)
         /\ \A d \in Clusters : own[d] = f =>
              /\ \/ Ent(vol', d) = Ent(vol, d)
                 \/ d = handle[f].cur /\ Ent(vol, d) = Eoc
              /\ \A j \in 0 .. SectorsPerCluster - 1 :
                   Content(vol', FirstSector(d) + j) =
                     IF FirstSector(d) + j = call.sector THEN Overlaid(FirstSector(d) + j)
                                                         ELSE Content(vol, FirstSector(d) + j)
PROOF
  <1>1. PICK c \in Clusters, i \in 0 .. SectorsPerCluster - 1 :
          c = handle[f].cur /\ own[c] = f /\ call.sector = FirstSector(c) + i
    <2>1. handle[f].cur \in Clusters
      BY DEF Writing, InWrite, Inv, CallInv
    <2>2. \E j \in 0 .. SectorsPerCluster - 1, o \in 0 .. BytesPerSector - 1 :
            /\ handle[f].pos = rank[handle[f].cur] * ClusterSize + j * BytesPerSector + o
            /\ call.sector = FirstSector(handle[f].cur) + j
            /\ OffsetOf(handle[f]) = o
      BY WritePlace
    <2>3. own[handle[f].cur] = f
      BY WritePlace
    <2> QED BY <2>1, <2>2, <2>3
  <1>2. a \in Clusters /\ Ent(vol, a) = 0 => own[a] = 0
    BY DEF Owns, ChainsOf, Table
  <1>3. 0 \notin UsedFiles /\ f # 0
    BY FilesNotZero DEF UsedFiles
  <1>4. ASSUME NEW d \in Clusters, own[d] # 0
        PROVE  /\ Ent(vol', d) = Ent(vol, d) \/ (d = c /\ Ent(vol, d) = Eoc)
               /\ \A j \in 0 .. SectorsPerCluster - 1 :
                    Content(vol', FirstSector(d) + j) =
                      IF FirstSector(d) + j = call.sector THEN Overlaid(FirstSector(d) + j)
                                                          ELSE Content(vol, FirstSector(d) + j)
    <2>1. d \in FatIndex /\ d \in Int
      BY Marks
    <2>2. Ent(vol', d) = Ent(vol, d) \/ (d = c /\ Ent(vol, d) = Eoc)
      BY <1>1, <1>2, <1>4, <2>1 DEF Wrote
    <2>3. ASSUME NEW j \in 0 .. SectorsPerCluster - 1
          PROVE  Content(vol', FirstSector(d) + j) =
                   IF FirstSector(d) + j = call.sector THEN Overlaid(FirstSector(d) + j)
                                                       ELSE Content(vol, FirstSector(d) + j)
      <3>1. PICK n \in DataSectors : n = FirstSector(d) + j
        BY <2>1, ClusterPlace
      <3>2. ~(a \in Clusters /\ Ent(vol, a) = 0 /\ InCluster(n, a))
        <4> SUFFICES ASSUME a \in Clusters, Ent(vol, a) = 0, InCluster(n, a) PROVE FALSE
          OBVIOUS
        <4>1. PICK k \in 0 .. SectorsPerCluster - 1 : n = FirstSector(a) + k
          BY DEF InCluster
        <4>2. FirstSector(a) + k = FirstSector(d) + j
          BY <3>1, <4>1
        <4>3. a = d
          BY <4>2, ClustersApart
        <4> QED BY <1>2, <1>4, <4>3
      <3>3. Content(vol', n) = IF n = call.sector THEN Overlaid(n) ELSE Content(vol, n)
        BY <3>2 DEF Wrote
      <3> QED BY <3>1, <3>3
    <2> QED BY <2>2, <2>3
  <1>5. ASSUME NEW d \in Clusters, own[d] \in UsedFiles \ {f} PROVE ClusterStands(vol, vol', d)
    <2>1. own[d] # 0 /\ d # c
      BY <1>1, <1>3, <1>5
    <2>2. Ent(vol', d) = Ent(vol, d)
      BY <1>4, <2>1
    <2>3. ASSUME NEW j \in 0 .. SectorsPerCluster - 1
          PROVE  Content(vol', FirstSector(d) + j) = Content(vol, FirstSector(d) + j)
      <3>1. FirstSector(d) + j # call.sector
        <4> SUFFICES ASSUME FirstSector(d) + j = FirstSector(c) + i PROVE FALSE
          BY <1>1
        <4>1. d = c
          BY ClustersApart
        <4> QED BY <2>1, <4>1
      <3> QED BY <1>4, <2>1, <3>1
    <2> QED BY <2>2, <2>3 DEF ClusterStands
  <1>6. \A d \in Clusters : own[d] = f => own[d] # 0
    BY <1>3
  <1> QED BY <1>1, <1>4, <1>5, <1>6

(* The chain of a file stays in the file, and goes from place to place.      *)
Ahead(t, own, rank, f) ==
  \A k \in 1 .. Length :
    t[k] \in Clusters => /\ own[t[k]] = f /\ rank[t[k]] = rank[Starts[f]] + k - 1
                         /\ \A j \in 1 .. k : t[j] \in Clusters

LEMMA OwnedAhead ==
  ASSUME NEW own, NEW rank, Owns(own, rank), NEW f \in UsedFiles, NEW t,
         Follows(t, Starts[f], Table)
  PROVE  Ahead(t, own, rank, f)
PROOF
  <1>0. PICK U \in SUBSET Files : U = UsedFiles
    BY DEF UsedFiles
  <1>1. PICK e, s : e = Table /\ s = Starts
    OBVIOUS
  <1>2. ChainsOf(e, s, U, own, rank) /\ Follows(t, s[f], e) /\ f \in U
    BY <1>0, <1>1 DEF Owns
  <1>3. \A k \in 1 .. Length :
          t[k] \in Clusters => /\ own[t[k]] = f /\ rank[t[k]] = rank[s[f]] + k - 1
                               /\ \A j \in 1 .. k : t[j] \in Clusters
    BY <1>2, StaysOwned
  <1> QED BY <1>1, <1>3 DEF Ahead

(* Nothing of a file lies behind the cluster in which its chain ends.        *)
LEMMA LastOfChain ==
  ASSUME Inv, NEW own, NEW rank, Owns(own, rank), Measured(own, rank),
         NEW f \in UsedFiles, ~Unlinking(f), Reach(f) \in Nat,
         NEW c \in Clusters, own[c] = f, Ent(vol, c) \notin Clusters
  PROVE  Reach(f) <= (rank[c] + 1) * ClusterSize
PROOF
  <1>1. f \in Files
    BY DEF UsedFiles
  <1>2. PICK a, s, e : a = Starts[f] /\ s = Starts /\ e = Table
    OBVIOUS
  <1>3. PICK t : t = Chain(f) /\ Follows(t, s[f], e)
    BY <1>1, <1>2, ChainOf
  <1>4. ChainsOf(e, s, UsedFiles, own, rank) /\ UsedFiles \in SUBSET Files
    BY <1>2 DEF Owns, UsedFiles
  <1>5. \A d \in Clusters : own[d] = f =>
          rank[d] \in Nat /\ rank[d] + 1 \in 1 .. Length /\ t[rank[d] + 1] = d
    BY <1>3, BytePlace
  <1>6. \A k \in 1 .. Length : t[k] \in Clusters => \A j \in 1 .. k : t[j] \in Clusters
    BY <1>2, <1>3, OwnedAhead DEF Ahead
  <1>7. PICK r \in Nat : r = rank[c] /\ r + 1 \in 1 .. Length /\ t[r + 1] = c
    BY <1>5
  <1>8. ASSUME NEW d \in Clusters, own[d] = f PROVE rank[d] <= r
    <2> SUFFICES ASSUME ~(rank[d] <= r) PROVE FALSE
      OBVIOUS
    <2>1. PICK q \in Nat : q = rank[d] /\ q + 1 \in 1 .. Length /\ t[q + 1] = d /\ q > r
      BY <1>5, <1>7, <1>8
    <2>2. r + 2 \in 1 .. q + 1 /\ r + 2 \in 1 .. Length /\ r + 2 # 1 /\ r + 2 - 1 = r + 1
      <3>1. PICK n \in Nat : n = Length /\ q + 1 \in 1 .. n
        BY <2>1, Regions DEF Length
      <3>2. q > r
        BY <2>1
      <3>3. r + 2 \in 1 .. q + 1 /\ r + 2 \in 1 .. n /\ r + 2 # 1 /\ r + 2 - 1 = r + 1
        BY <3>1, <3>2
      <3> QED BY <3>1, <3>3
    <2>3. t[r + 2] \in Clusters
      BY <1>6, <2>1, <2>2
    <2>4. t[r + 2] = Ent(vol, c)
      <3>1. PICK k \in 1 .. Length : k = r + 2 /\ k # 1 /\ k - 1 = r + 1
        BY <2>2
      <3>2. t[k] = IF k = 1 THEN s[f] ELSE IF t[k - 1] \in Clusters THEN e[t[k - 1]] ELSE 0
        BY <1>3 DEF Follows
      <3> QED BY <1>2, <1>7, <3>1, <3>2 DEF Table
    <2> QED BY <2>3, <2>4
  <1>9. Covers(own, rank, f, a, Reach(f))
    BY <1>2 DEF Measured
  <1>10. CASE Reach(f) > 0
    <2>1. PICK d \in Clusters : own[d] = f /\ Reach(f) <= (rank[d] + 1) * ClusterSize
      BY <1>9, <1>10 DEF Covers
    <2>2. PICK q \in Nat, n \in Nat, z \in Nat : q = rank[d] /\ q <= r /\ n = Reach(f) /\ z = ClusterSize
      BY <1>5, <1>8, <2>1, ClusterHolds
    <2>3. (q + 1) * z <= (r + 1) * z
      BY <1>7, <2>2
    <2>4. n <= (q + 1) * z /\ (q + 1) * z \in Nat /\ (r + 1) * z \in Nat
      BY <2>1, <2>2
    <2> QED BY <1>7, <2>2, <2>3, <2>4
  <1>11. CASE ~(Reach(f) > 0)
    <2>1. (r + 1) * ClusterSize \in Nat
      BY <1>7, ClusterHolds
    <2> QED BY <1>7, <1>11, <2>1
  <1> QED BY <1>10, <1>11

(* The chain of the file that is written, up to where the handle stands, or   *)
(* all of it if nothing comes after.                                          *)
LEMMA WriteChain ==
  ASSUME Known, Known', Writing, NEW own, NEW rank, Owns(own, rank), Measured(own, rank),
         NEW f \in Live, f \in Live', f = call.f, NEW a, Wrote(a), FirstOf(f)' = FirstOf(f),
         NEW c \in Clusters, c = handle[f].cur, own[c] = f, NEW r \in Nat, r = rank[c]
  PROVE  /\ r + 1 \in 1 .. Length /\ Chain(f)[r + 1] = c
         /\ \A k \in 1 .. Length :
              k <= r + 1 \/ Ent(vol', c) = Ent(vol, c) => Chain(f)'[k] = Chain(f)[k]
PROOF
  <1>1. f \in UsedFiles /\ f \in Files /\ ~Unlinking(f) /\ Reach(f) \in Nat
    BY DEF Live, UsedFiles, Known, Seen
  <1>2. PICK t, t2, b, e, e2 : /\ t = Chain(f) /\ t2 = Chain(f)' /\ b = FirstOf(f)
                               /\ e = Table /\ e2 = Table'
    OBVIOUS
  <1>3. Follows(t, b, e) /\ Follows(t2, b, e2)
    BY <1>1, <1>2 DEF Known, Seen
  <1>4. b = Starts[f]
    BY <1>1, <1>2, ChainOf DEF Known
  <1>5. Ahead(t, own, rank, f)
    BY <1>1, <1>2, <1>3, <1>4, OwnedAhead
  <1>6. r + 1 \in 1 .. Length /\ t[r + 1] = c
    BY <1>1, <1>2, BytePlace DEF Known
  <1>7. Length \in Nat \ {0}
    BY Regions DEF Length
  <1>8. rank[b] = 0
    <2>1. Covers(own, rank, f, b, Reach(f))
      BY <1>1, <1>4 DEF Measured
    <2>2. 1 \in 1 .. r + 1 /\ 1 \in 1 .. Length
      BY <1>7
    <2>3. t[1] \in Clusters
      BY <1>5, <1>6, <2>2 DEF Ahead
    <2>4. t[1] = b
      BY <1>3, <2>2 DEF Follows
    <2> QED BY <2>1, <2>3, <2>4 DEF Covers
  <1>9. ASSUME NEW k \in 1 .. Length, t[k] \in Clusters, k < r + 1 \/ Ent(vol', c) = Ent(vol, c)
        PROVE  e2[t[k]] = e[t[k]]
    <2>1. PICK d \in Clusters : d = t[k]
      BY <1>9
    <2>2. own[d] = f /\ rank[d] = rank[b] + k - 1
      BY <1>4, <1>5, <2>1 DEF Ahead
    <2>3. Ent(vol', d) = Ent(vol, d) \/ d = c
      BY <1>1, <2>2, WriteReaches DEF Known
    <2>4. d = c => k = r + 1
      <3>1. k \in Nat /\ rank[d] = 0 + k - 1
        BY <1>7, <1>8, <2>2
      <3> QED BY <3>1
    <2>5. Ent(vol', d) = Ent(vol, d)
      BY <1>9, <2>3, <2>4
    <2> QED BY <1>2, <2>1, <2>5 DEF Table
  <1>10. ASSUME NEW k \in 1 .. Length, k <= r + 1 \/ Ent(vol', c) = Ent(vol, c)
         PROVE  t2[k] = t[k]
    <2>1. CASE k <= r + 1
      <3>1. k \in 1 .. r + 1
        BY <1>7, <2>1
      <3>2. \A i \in 1 .. (r + 1) - 1 : t[i] \in Clusters => e2[t[i]] = e[t[i]]
        <4> SUFFICES ASSUME NEW i \in 1 .. (r + 1) - 1, t[i] \in Clusters PROVE e2[t[i]] = e[t[i]]
          OBVIOUS
        <4>1. i \in 1 .. Length /\ i < r + 1
          BY <1>6, <1>7
        <4> QED BY <1>9, <4>1
      <3>3. PICK n \in 1 .. Length : n = r + 1
        BY <1>6
      <3>4. \A i \in 1 .. n : t2[i] = t[i]
        BY <1>3, <3>2, <3>3, ChainKept
      <3> QED BY <3>1, <3>3, <3>4
    <2>2. CASE Ent(vol', c) = Ent(vol, c)
      <3>1. PICK n \in 1 .. Length : n = Length
        BY <1>7
      <3>2. \A i \in 1 .. n - 1 : t[i] \in Clusters => e2[t[i]] = e[t[i]]
        BY <1>9, <2>2, <3>1
      <3>3. \A i \in 1 .. n : t2[i] = t[i]
        BY <1>3, <3>2, ChainKept
      <3> QED BY <3>1, <3>3
    <2> QED BY <1>10, <2>1, <2>2
  <1> QED BY <1>2, <1>6, <1>10

(* What fat_write was given, from where it is, and has put in the sector.    *)
Piece == [k \in 1 .. Chunk |-> call.v + call.i + k - 1]

(* The file that is written, after a step: the piece lies over what it held.  *)
LEMMA WriteText ==
  ASSUME Known, Known', Writing, NEW own, NEW rank, Owns(own, rank), Measured(own, rank),
         NEW f \in Live, f \in Live', f = call.f, NEW a, Wrote(a), FirstOf(f)' = FirstOf(f),
         NEW p \in Nat, p = handle[f].pos, NEW m \in Nat \ {0}, m = Chunk, p <= Reach(f),
         Reach(f)' = IF p + m > Reach(f) THEN p + m ELSE Reach(f)
  PROVE  Text(f)' = Promise!Overwritten(Text(f), p, Piece)
PROOF
  <1>1. f \in UsedFiles /\ f \in Files /\ ~Unlinking(f) /\ call.f \in Files /\ call.i < call.size
        /\ call.v \in Nat /\ call.i \in Nat /\ Inv /\ Aligned
    BY DEF Live, UsedFiles, Known, Inv, Typed, Writing
  <1>2. PICK n \in Nat, n2 \in Nat : n = Reach(f) /\ n2 = Reach(f)'
    BY DEF Known, Seen
  <1>3. PICK c \in Clusters : c = handle[f].cur
    BY DEF Known, Inv, CallInv, InWrite, Writing
  <1>4. PICK r \in Nat, j \in 0 .. SectorsPerCluster - 1, o \in 0 .. BytesPerSector - 1 :
          /\ r = rank[c] /\ own[c] = f /\ p = r * ClusterSize + j * BytesPerSector + o
          /\ call.sector = FirstSector(c) + j /\ OffsetOf(handle[f]) = o
    <2>1. rank[c] \in Nat /\ own[c] = f
      BY <1>1, <1>3, WritePlace
    <2>2. \E j \in 0 .. SectorsPerCluster - 1, o \in 0 .. BytesPerSector - 1 :
            /\ p = rank[c] * ClusterSize + j * BytesPerSector + o
            /\ call.sector = FirstSector(c) + j /\ OffsetOf(handle[f]) = o
      BY <1>1, <1>3, WritePlace
    <2> QED BY <2>1, <2>2
  <1>5. o + m <= BytesPerSector /\ BytesPerSector \in Nat \ {0} /\ o \in Nat
    BY <1>1, <1>4, ChunkFits, ClusterHolds
  <1>6. PICK t, t2 : t = Chain(f) /\ t2 = Chain(f)'
    OBVIOUS
  <1>7. /\ r + 1 \in 1 .. Length /\ t[r + 1] = c
        /\ \A k \in 1 .. Length :
             k <= r + 1 \/ Ent(vol', c) = Ent(vol, c) => t2[k] = t[k]
    BY <1>3, <1>4, <1>6, WriteChain
  <1>8. PICK b, b2 : b = Text(f) /\ b2 = Text(f)' /\ b = Bytes(vol, t, n) /\ b2 = Bytes(vol', t2, n2)
    BY <1>2, <1>6 DEF Known, Seen
  <1>9. \A d \in Clusters : own[d] = f => \A i \in 0 .. SectorsPerCluster - 1 :
          Content(vol', FirstSector(d) + i) =
            IF FirstSector(d) + i = call.sector THEN Overlaid(FirstSector(d) + i)
                                                ELSE Content(vol, FirstSector(d) + i)
    BY <1>1, WriteReaches
  <1>10. PICK text : text = [k \in 1 .. m |-> call.v + call.i + k - 1] /\ text = Piece
    BY DEF Piece
  <1>11. \A k \in 0 .. BytesPerSector - 1 :
           Overlaid(call.sector)[k] = IF k \in o .. o + m - 1 THEN call.v + call.i + k - o
                                                              ELSE Content(vol, call.sector)[k]
    BY <1>1, <1>4 DEF Overlaid
  <1>12. ASSUME NEW q \in Nat, q < n2 PROVE b2[q + 1] = Content(vol', PlaceOn(t2, q))[q % BytesPerSector]
    <2>1. q + 1 \in 1 .. n2 /\ q + 1 - 1 = q
      BY <1>12
    <2>2. b2[q + 1] = Content(vol', PlaceOn(t2, q + 1 - 1))[(q + 1 - 1) % BytesPerSector]
      BY <1>8, <2>1 DEF Bytes
    <2> QED BY <2>1, <2>2
  <1>13. ASSUME NEW q \in Nat, q < n PROVE b[q + 1] = Content(vol, PlaceOn(t, q))[q % BytesPerSector]
    <2>1. q + 1 \in 1 .. n /\ q + 1 - 1 = q
      BY <1>13
    <2>2. b[q + 1] = Content(vol, PlaceOn(t, q + 1 - 1))[(q + 1 - 1) % BytesPerSector]
      BY <1>8, <2>1 DEF Bytes
    <2> QED BY <2>1, <2>2
  <1>14. ASSUME NEW k \in 1 .. m PROVE b2[p + k] = text[k]
    <2>1. PICK x \in 0 .. BytesPerSector - 1 : x = o + k - 1 /\ x \in o .. o + m - 1
      BY <1>5
    <2>2. PICK y \in Nat : y = r * ClusterSize + j * BytesPerSector
      BY <1>4, ClusterHolds
    <2>3. PICK q \in Nat : q = y + x
      BY <2>1, <2>2
    <2>4. q + 1 = p + k
      <3>1. p = y + o
        BY <1>4, <2>2
      <3> QED BY <1>5, <2>1, <2>2, <2>3, <3>1
    <2>5. q < n2
      <3>1. q < p + m
        BY <2>4
      <3>2. p + m <= n2
        BY <1>2
      <3> QED BY <1>2, <3>1, <3>2
    <2>6. /\ q \div ClusterSize = r /\ (q % ClusterSize) \div BytesPerSector = j
          /\ q % BytesPerSector = x
      BY <2>1, <2>2, <2>3, SectorOfPlace
    <2>7. PlaceOn(t2, q) = FirstSector(c) + j
      <3>1. t2[r + 1] = c /\ 1 + r = r + 1
        BY <1>7
      <3> QED BY <2>6, <3>1 DEF PlaceOn
    <2>8. b2[q + 1] = Overlaid(call.sector)[x]
      BY <1>4, <1>9, <1>12, <2>5, <2>6, <2>7
    <2>9. Overlaid(call.sector)[x] = call.v + call.i + x - o
      BY <1>11, <2>1
    <2>10. call.v + call.i + x - o = call.v + call.i + k - 1
      BY <1>1, <1>5, <2>1
    <2> QED BY <1>10, <2>4, <2>8, <2>9, <2>10
  <1>15. ASSUME NEW i \in 1 .. n2, i \notin p + 1 .. p + m PROVE b2[i] = b[i]
    <2>1. PICK q \in Nat : q + 1 = i /\ q < n2 /\ q < n /\ (q < p \/ q >= p + m)
      <3>1. i - 1 \in Nat /\ (i - 1) + 1 = i /\ i - 1 < n2
        BY <1>15
      <3>2. i - 1 < p \/ i - 1 >= p + m
        BY <1>15
      <3>3. i - 1 < n
        BY <1>2, <3>1, <3>2
      <3> QED BY <3>1, <3>2, <3>3
    <2>2. q \in 0 .. Reach(f) - 1
      BY <1>2, <2>1
    <2>3. PICK c2, j2, o2 : Lies(own, rank, t, f, q, c2, j2, o2)
      BY <1>1, <1>2, <1>6, <2>2, BytePlace
    <2>4. PICK r2 \in Nat : /\ r2 = rank[c2] /\ c2 \in Clusters /\ own[c2] = f
                            /\ j2 \in 0 .. SectorsPerCluster - 1 /\ o2 \in 0 .. BytesPerSector - 1
                            /\ q = r2 * ClusterSize + j2 * BytesPerSector + o2
                            /\ q \div ClusterSize = r2 /\ 1 + r2 \in 1 .. Length /\ t[1 + r2] = c2
                            /\ PlaceOn(t, q) = FirstSector(c2) + j2 /\ q % BytesPerSector = o2
      BY <2>3 DEF Lies
    <2>5. t2[1 + r2] = c2
      <3>1. CASE Ent(vol', c) = Ent(vol, c)
        BY <1>7, <2>4, <3>1
      <3>2. CASE Ent(vol', c) # Ent(vol, c)
        <4>1. PICK z \in Nat \ {0} : z = ClusterSize
          BY ClusterHolds
        <4>2. Ent(vol, c) = Eoc
          BY <1>1, <1>3, <1>4, <3>2, WriteReaches
        <4>3. Eoc \notin Clusters
          BY Marks
        <4>4. n <= (r + 1) * z
          BY <1>1, <1>2, <1>4, <4>1, <4>2, <4>3, LastOfChain
        <4>5. (r + 1) * z \in Nat /\ r + 1 \in Nat \ {0}
          BY <4>1
        <4>6. q \in 0 .. (r + 1) * z - 1
          BY <2>1, <4>4, <4>5
        <4>7. q \div z \in 0 .. (r + 1) - 1
          BY <4>1, <4>5, <4>6, InFirst
        <4>8. r2 \in 0 .. (r + 1) - 1
          BY <2>4, <4>1, <4>7
        <4>9. 1 + r2 <= r + 1
          BY <4>8
        <4> QED BY <1>7, <2>4, <4>9
      <3> QED BY <3>1, <3>2
    <2>6. PlaceOn(t2, q) = FirstSector(c2) + j2
      BY <2>4, <2>5 DEF PlaceOn
    <2>7. CASE FirstSector(c2) + j2 # call.sector
      BY <1>9, <1>12, <1>13, <2>1, <2>4, <2>6, <2>7
    <2>8. CASE FirstSector(c2) + j2 = call.sector
      <3>1. c2 = c /\ j2 = j
        BY <1>4, <2>4, <2>8, ClustersApart
      <3>2. o2 \notin o .. o + m - 1
        <4>1. PICK y \in Nat : y = r * ClusterSize + j * BytesPerSector
          BY <1>4, ClusterHolds
        <4>2. q = y + o2 /\ p = y + o /\ o2 \in Nat
          BY <1>4, <1>5, <2>4, <3>1, <4>1
        <4> QED BY <1>5, <2>1, <4>1, <4>2
      <3>3. Overlaid(call.sector)[o2] = Content(vol, call.sector)[o2]
        BY <1>11, <2>4, <3>2
      <3> QED BY <1>9, <1>12, <1>13, <2>1, <2>4, <2>6, <2>8, <3>3
    <2> QED BY <2>7, <2>8
  <1>16. b2 = [k \in 1 .. n2 |-> IF k \in p + 1 .. p + m THEN text[k - p] ELSE b[k]]
    <2>1. b2 = [k \in 1 .. n2 |-> b2[k]]
      BY <1>8 DEF Bytes
    <2>2. ASSUME NEW k \in 1 .. n2, k \in p + 1 .. p + m PROVE b2[k] = text[k - p]
      <3>1. k - p \in 1 .. m /\ p + (k - p) = k
        BY <2>2
      <3> QED BY <1>14, <3>1
    <2> QED BY <1>15, <2>1, <2>2
  <1>17. PICK S : S = {b[k] : k \in 1 .. n} \cup {text[k] : k \in 1 .. m}
    OBVIOUS
  <1>18. b \in Seq(S) /\ Len(b) = n
    <2>1. b = [k \in 1 .. n |-> b[k]]
      BY <1>8 DEF Bytes
    <2>2. b \in [1 .. n -> S]
      BY <1>17, <2>1
    <2> QED BY <2>1, <2>2
  <1>19. text \in Seq(S) /\ Len(text) = m
    <2>1. text \in [1 .. m -> S]
      BY <1>10, <1>17
    <2> QED BY <1>10, <2>1
  <1>20. n2 = (IF p + m > n THEN p + m ELSE n) /\ p <= n
    BY <1>2
  <1>21. IsOverwritten(b2, b, p, text)
    <2>1. Laid(S, b2, n2, b, n, p, text, m)
      BY <1>16, <1>18, <1>19, <1>20 DEF Laid
    <2> QED BY <2>1, OverwrittenIs, Zenon
  <1> QED BY <1>8, <1>10, <1>21 DEF IsOverwritten

(* Programs do not write without limit at once.                              *)
WritesBounded == \E n \in WriteSizes : \A m \in WriteSizes : m <= n

(* A step of fat_write, within a cluster or at its end, is a write of what it *)
(* has put in the sector.                                                    *)
LEMMA WroteKeeps ==
  ASSUME Known, Known', Track, WritesBounded, Writing, NEW f \in Files, f = call.f,
         NEW a, Wrote(a),
         NEW p \in Nat, p = handle[f].pos, NEW m \in Nat \ {0}, m = Chunk,
         handle'[f].pos = p + m, handle'[f].size = handle[f].size,
         handle'[f].first = handle[f].first, handle'[f].open,
         \A g \in Files \ {f} : handle'[g] = handle[g],
         \A g \in Files : Dir(vol', g) = Dir(vol, g),
         call'.f = f, call'.v = call.v, call'.size = call.size, got' = got,
         pc' \in {"write", "written"},
         pc' = "written" => /\ Ent(vol, handle[f].cur) = Eoc
                            /\ EndsCluster(p + m, handle[f].cur)
  PROVE  Fulfils
PROOF
  <1>1. /\ pc = "write" /\ InWrite /\ InWrite' /\ call.i < call.size /\ handle[f].open
        /\ ~Unlinking(f) /\ ~Unlinking(f)' /\ ~Reading(f) /\ ~Reading(f)'
    BY DEF Writing, InWrite, Unlinking, Reading, Known, Inv, CallInv
  <1>2. PICK own, rank : Owns(own, rank) /\ Measured(own, rank)
    BY DEF Known, Inv, Linked
  <1>3. PICK c \in Clusters : c = handle[f].cur /\ own[c] = f
    BY <1>1, <1>2 DEF Known, Inv, CallInv, Owns
  <1>4. f \in UsedFiles /\ f \in Live /\ f \in Live'
    BY <1>1 DEF Live, UsedFiles, Known, Inv, HandleInv
  <1>5. \A d \in Clusters : own[d] \in UsedFiles \ {f} => ClusterStands(vol, vol', d)
    BY <1>2, WriteReaches DEF Known
  <1>6. Others(f) /\ \A g \in Files \ {f} : Standing(g)'
    BY <1>2, <1>5, OthersStay
  <1>7. At(f) = p /\ At(f)' = p + m
    BY <1>1 DEF At
  <1>8. FirstOf(f)' = FirstOf(f)
    BY <1>1 DEF Known, Seen
  <1>9. PICK n \in Nat, size \in Nat :
          /\ n = Reach(f) /\ size = handle[f].size /\ n = IF p > size THEN p ELSE size
    <2>1. handle[f].size \in Nat
      BY HandleParts DEF Known
    <2>2. Reach(f) = IF p > handle[f].size THEN p ELSE handle[f].size
      BY <1>1 DEF Reach, Size
    <2> QED BY <2>1, <2>2
  <1>10. Reach(f)' = IF p + m > n THEN p + m ELSE n
    <2>1. PICK q \in Nat : q = p + m /\ q > p
      OBVIOUS
    <2>2. Reach(f)' = IF q > Reach(f) THEN q ELSE Reach(f)
      BY <1>1, <2>1, ReachOfWrite DEF Known
    <2> QED BY <1>9, <2>1, <2>2
  <1>11. Text(f)' = Promise!Overwritten(Text(f), p, Piece)
    <2>1. p <= Reach(f) /\ Reach(f)' = IF p + m > Reach(f) THEN p + m ELSE Reach(f)
      BY <1>9, <1>10
    <2> QED BY <1>2, <1>4, <1>8, <2>1, WriteText
  <1>12. Promise!Next
    <2>1. PICK v \in Values, i \in 0 .. MaxWrite : v = call.v /\ i = call.i
      <3>1. MaxWrite \in WriteSizes /\ \A k \in WriteSizes : k <= MaxWrite
        BY DEF WritesBounded, MaxWrite
      <3>2. call.v \in Values /\ call.size \in WriteSizes /\ call.i \in Nat
        BY <1>1 DEF Track, Said, Known, Inv, Typed
      <3>3. MaxWrite \in Nat /\ call.size \in Nat /\ call.size <= MaxWrite
        BY <3>1, <3>2, FatVolumeAssumption
      <3> QED BY <1>1, <3>2, <3>3
    <2>2. m \in 1 .. BytesPerSector
      <3>1. /\ OffsetOf(handle[f]) \in 0 .. BytesPerSector - 1
            /\ OffsetOf(handle[f]) + m <= BytesPerSector
        BY <1>1, ChunkFits DEF Known
      <3> QED BY <3>1, ClusterHolds
    <2>3. PICK text : text = [k \in 1 .. m |-> v + i + k - 1] /\ text = Piece
      BY <2>1 DEF Piece
    <2>4. Len(text) = m
      BY <2>3
    <2>5. /\ At(f)' = At(f) + Len(text) /\ Text(f)' = Promise!Overwritten(Text(f), At(f), text)
          /\ At(f) # -1
      BY <1>7, <1>11, <2>3, <2>4
    <2> QED BY <1>4, <1>6, <2>2, <2>3, <2>5, WriteSeen DEF Known
  <1>13. Standing(f)'
    <2>1. CASE pc' = "write"
      <3>1. handle'[f].cur = Chain(f)'[1 + handle'[f].pos \div ClusterSize]
        <4>1. PICK h, l : h = handle' /\ l = call' /\ l.f = f
          OBVIOUS
        <4> QED BY <2>1 DEF Known, Seen
      <3> QED BY <3>1 DEF Standing
    <2>2. CASE pc' = "written"
      <3>1. p + m = (rank[c] + 1) * ClusterSize
        BY <1>2, <1>3, <2>2 DEF EndsCluster, Known
      <3>2. Ent(vol, c) \notin Clusters
        BY <1>3, <2>2, Marks
      <3>3. Reach(f) <= (rank[c] + 1) * ClusterSize
        BY <1>1, <1>2, <1>3, <1>4, <1>9, <3>2, LastOfChain DEF Known
      <3>4. ~(p + m < size)
        BY <1>9, <3>1, <3>3
      <3> QED BY <1>9, <3>4 DEF Standing
    <2> QED BY <2>1, <2>2
  <1>14. Track'
    <2>1. Heard'
      BY DEF Heard
    <2>2. Said'
      BY <1>1 DEF Track, Said
    <2> QED BY <1>6, <1>13, <2>1, <2>2 DEF Track
  <1> QED BY <1>12, <1>14 DEF Fulfils

LEMMA WriteSectorKeeps ==
  ASSUME Known, Known', Track, WritesBounded, WriteSector
  PROVE  Fulfils
PROOF
  <1>1. /\ Writing /\ pc = "write" /\ pc' = pc /\ got' = got /\ vol' = Written
        /\ call.i < call.size /\ Inv
        /\ handle' = [handle EXCEPT ![call.f].pos = @ + Chunk]
        /\ call' = [call EXCEPT !.i = @ + Chunk, !.sector = IF SectorEnds THEN @ + 1 ELSE @]
    BY DEF WriteSector, Writing, Known
  <1>2. PICK f \in Files, x \in Handles : f = call.f /\ x = handle[f]
    BY <1>1 DEF Inv, Typed
  <1>3. handle \in [Files -> Handles] /\ x.open
    BY <1>1, <1>2 DEF Inv, Typed, CallInv, InWrite
  <1>4. PICK p \in Nat, m \in Nat \ {0} : p = x.pos /\ m = Chunk
    BY <1>1, <1>2, ChunkFits DEF Handles
  <1>5. handle' = [handle EXCEPT ![f] = [x EXCEPT !.pos = p + m]]
    BY <1>1, <1>2, <1>3, <1>4
  <1>6. PICK y : y = [x EXCEPT !.pos = p + m]
    OBVIOUS
  <1>7. y.pos = p + m /\ y.size = x.size /\ y.first = x.first /\ y.open
    BY <1>3, <1>6 DEF Handles
  <1>8. handle'[f] = y /\ \A g \in Files \ {f} : handle'[g] = handle[g]
    BY <1>3, <1>5, <1>6
  <1>9. call'.f = f /\ call'.v = call.v /\ call'.size = call.size
    <2>1. call = [f |-> call.f, v |-> call.v, size |-> call.size, i |-> call.i,
                   sector |-> call.sector, start |-> call.start, out |-> call.out,
                   cluster |-> call.cluster]
      BY <1>1 DEF Inv, Typed
    <2>2. PICK n, i : n = (IF SectorEnds THEN call.sector + 1 ELSE call.sector) /\ i = call.i + m
      OBVIOUS
    <2>3. call' = [call EXCEPT !.i = i, !.sector = n]
      BY <1>1, <1>4, <2>2
    <2> QED BY <1>2, <2>1, <2>2, <2>3
  <1>10. /\ \A c \in FatIndex : Ent(vol', c) = Ent(vol, c)
         /\ \A g \in Files : Dir(vol', g) = Dir(vol, g)
    BY <1>1, WrittenStands DEF Stands
  <1>11. \A n \in DataSectors :
           Content(vol', n) = IF n = call.sector THEN Overlaid(n) ELSE Content(vol, n)
    BY <1>1, WrittenIs, DataPlace
  <1>12. Wrote(0)
    BY <1>10, <1>11 DEF Wrote
  <1>13. pc' \in {"write", "written"} /\ pc' # "written"
    BY <1>1
  <1>14. PICK a : a = 0 /\ Wrote(a)
    BY <1>12
  <1>15. /\ handle'[f].pos = p + m /\ handle'[f].size = handle[f].size
         /\ handle'[f].first = handle[f].first /\ handle'[f].open
         /\ \A g \in Files \ {f} : handle'[g] = handle[g]
    BY <1>2, <1>7, <1>8
  <1>16. Writing /\ f = call.f /\ p = handle[f].pos /\ m = Chunk /\ got' = got
    BY <1>1, <1>2, <1>4
  <1> QED BY <1>9, <1>10, <1>13, <1>14, <1>15, <1>16, WroteKeeps

LEMMA WriteAcrossKeeps ==
  ASSUME Known, Known', Track, WritesBounded, WriteAcross
  PROVE  Fulfils
PROOF
  <1>1. Writing /\ pc = "write" /\ call.i < call.size /\ Inv /\ ClusterEnds /\ got' = got
    BY DEF WriteAcross, Writing, Known
  <1>2. PICK f \in Files, x \in Handles : f = call.f /\ x = handle[f]
    BY <1>1 DEF Inv, Typed
  <1>3. /\ handle \in [Files -> Handles] /\ Mirrored /\ x.open
        /\ call = [f |-> call.f, v |-> call.v, size |-> call.size, i |-> call.i,
                   sector |-> call.sector, start |-> call.start, out |-> call.out,
                   cluster |-> call.cluster]
    BY <1>1, <1>2 DEF Inv, Typed, CallInv, InWrite
  <1>4. PICK p \in Nat, m \in Nat \ {0} : p = x.pos /\ m = Chunk
    BY <1>1, <1>2, ChunkFits DEF Handles
  <1>5. PICK c \in Clusters : c = x.cur
    BY <1>1, <1>2 DEF Inv, CallInv, InWrite
  <1>6. PICK w \in Media : w = Written /\ Stands(vol, w)
    BY <1>1, WrittenStands
  <1>7. PICK next, a : next = AllocNext(w, c, x.size = 0) /\ a = next.at
    OBVIOUS
  <1>8. /\ vol' = next.vol
        /\ IF a # 0
           THEN /\ handle' = [handle EXCEPT ![f].pos = @ + m, ![f].cur = a]
                /\ call' = [call EXCEPT !.i = @ + m, !.sector = FirstSector(a)]
                /\ pc' = "write"
           ELSE /\ handle' = [handle EXCEPT ![f].pos = @ + m]
                /\ call' = [call EXCEPT !.i = @ + m]
                /\ pc' = "written"
    BY <1>2, <1>4, <1>5, <1>6, <1>7 DEF WriteAcross
  <1>9. /\ \A n \in Sectors \ (AllTables \cup DataSectors) : Content(next.vol, n) = Content(w, n)
        /\ \A n \in DataSectors :
             \/ Content(next.vol, n) = Content(w, n)
             \/ Ent(w, c) = Eoc /\ a \in Clusters /\ Ent(w, a) = 0 /\ InCluster(n, a)
        /\ \/ /\ Ent(w, c) # Eoc /\ a = Ent(w, c)
              /\ \A d \in FatIndex : Ent(next.vol, d) = Ent(w, d)
           \/ /\ Ent(w, c) = Eoc /\ a = 0
              /\ \A d \in FatIndex : Ent(next.vol, d) = Ent(w, d)
           \/ /\ Ent(w, c) = Eoc /\ a \in Clusters /\ Ent(w, a) = 0 /\ a # c
              /\ \A d \in FatIndex :
                   Ent(next.vol, d) = IF d = c THEN a ELSE IF d = a THEN Eoc ELSE Ent(w, d)
    BY <1>3, <1>7, AllocNextKeeps
  <1>10. /\ \A d \in FatIndex : Ent(w, d) = Ent(vol, d)
         /\ \A g \in Files : Dir(w, g) = Dir(vol, g)
    BY <1>6 DEF Stands
  <1>11. \A g \in Files : Dir(vol', g) = Dir(vol, g)
    <2>1. \A g \in Files : Dir(vol', g) = Dir(w, g)
      BY <1>8, <1>9, DirentPlace DEF Dir
    <2> QED BY <1>10, <2>1
  <1>12. c \in FatIndex /\ (a \in Clusters => a \in FatIndex)
    BY Marks
  <1>13. Wrote(a)
    <2>1. \A n \in DataSectors :
            Content(w, n) = IF n = call.sector THEN Overlaid(n) ELSE Content(vol, n)
      BY <1>1, <1>6, WrittenIs, DataPlace
    <2>2. ASSUME NEW n \in DataSectors
          PROVE  \/ Content(vol', n) = IF n = call.sector THEN Overlaid(n) ELSE Content(vol, n)
                 \/ a \in Clusters /\ Ent(vol, a) = 0 /\ InCluster(n, a)
      BY <1>8, <1>9, <1>10, <1>12, <2>1
    <2>3. ASSUME NEW d \in FatIndex
          PROVE  \/ Ent(vol', d) = Ent(vol, d)
                 \/ /\ a \in Clusters /\ Ent(vol, a) = 0
                    /\ d = a \/ (d = c /\ Ent(vol, d) = Eoc)
      BY <1>8, <1>9, <1>10, <1>12
    <2> QED BY <1>2, <1>5, <2>2, <2>3 DEF Wrote
  <1>14. PICK y : /\ handle' = [handle EXCEPT ![f] = y]
                  /\ y.pos = p + m /\ y.size = x.size /\ y.first = x.first /\ y.open
    <2>1. CASE a # 0
      <3>1. handle' = [handle EXCEPT ![f] = [x EXCEPT !.pos = p + m, !.cur = a]]
        BY <1>2, <1>3, <1>4, <1>8, <2>1
      <3>2. PICK y : y = [x EXCEPT !.pos = p + m, !.cur = a]
        OBVIOUS
      <3>3. y.pos = p + m /\ y.size = x.size /\ y.first = x.first /\ y.open
        BY <1>3, <3>2 DEF Handles
      <3> QED BY <3>1, <3>2, <3>3
    <2>2. CASE a = 0
      <3>1. handle' = [handle EXCEPT ![f] = [x EXCEPT !.pos = p + m]]
        BY <1>2, <1>3, <1>4, <1>8, <2>2
      <3>2. PICK y : y = [x EXCEPT !.pos = p + m]
        OBVIOUS
      <3>3. y.pos = p + m /\ y.size = x.size /\ y.first = x.first /\ y.open
        BY <1>3, <3>2 DEF Handles
      <3> QED BY <3>1, <3>2, <3>3
    <2> QED BY <2>1, <2>2
  <1>15. handle'[f] = y /\ \A g \in Files \ {f} : handle'[g] = handle[g]
    BY <1>3, <1>14
  <1>16. call'.f = f /\ call'.v = call.v /\ call'.size = call.size
    <2>1. PICK i, n : i = call.i + m /\ n = FirstSector(a)
      OBVIOUS
    <2>2. call' = [call EXCEPT !.i = i, !.sector = n] \/ call' = [call EXCEPT !.i = i]
      BY <1>8, <2>1
    <2> QED BY <1>2, <1>3, <2>2
  <1>17. /\ pc' \in {"write", "written"}
         /\ pc' = "written" => Ent(vol, c) = Eoc /\ EndsCluster(p + m, c)
    <2>1. pc' \in {"write", "written"} /\ (pc' = "written" => a = 0)
      BY <1>8
    <2>2. a = 0 => Ent(vol, c) = Eoc
      <3>1. PICK own, rank : Owns(own, rank)
        BY <1>1 DEF Inv, Linked
      <3>2. own[c] = f /\ f # 0
        BY <1>1, <1>2, <1>5, <3>1, FilesNotZero DEF Owns, InWrite
      <3>3. own[c] = 0 <=> Ent(vol, c) = 0
        BY <3>1 DEF Owns, ChainsOf, Table
      <3>4. Ent(vol, c) # 0 /\ Ent(w, c) = Ent(vol, c)
        BY <1>10, <1>12, <3>2, <3>3
      <3>5. \/ Ent(w, c) # Eoc /\ a = Ent(w, c)
            \/ Ent(w, c) = Eoc
        BY <1>9
      <3> QED BY <3>4, <3>5
    <2>3. EndsCluster(p + m, c)
      BY <1>1, <1>2, <1>4, <1>5, ClusterIsFull
    <2> QED BY <2>1, <2>2, <2>3
  <1> QED BY <1>1, <1>2, <1>4, <1>5, <1>11, <1>13, <1>14, <1>15, <1>16, <1>17, WroteKeeps

-----------------------------------------------------------------------------
(* The steps together *)

(* fat_write begins in the cluster its handle has come to, in a new one, or  *)
(* not at all, if the volume is full.                                        *)
LEMMA WriteStartKeeps ==
  ASSUME Known, Known', Track, NEW f \in Files, HasRoom(f), NEW v \in Values, NEW n \in WriteSizes,
         WriteStart(f, v, n)
  PROVE  Fulfils
PROOF
  <1>1. CASE handle[f].cur # 0
    BY <1>1, WriteOnKeeps
  <1>2. CASE handle[f].cur = 0 /\ FindFree(vol).at # 0
    BY <1>2, WriteFirstKeeps
  <1>3. CASE handle[f].cur = 0 /\ FindFree(vol).at = 0
    BY <1>3, WriteNotKeeps
  <1> QED BY <1>1, <1>2, <1>3

LEMMA RestKeeps ==
  ASSUME Known, Known', Track, UNCHANGED vars
  PROVE  Fulfils
PROOF
  <1>1. vol' = vol /\ handle' = handle /\ pc' = pc /\ call' = call /\ got' = got
    BY DEF vars
  <1>2. PICK own, rank : Owns(own, rank) /\ Measured(own, rank)
    BY DEF Known, Inv, Linked
  <1>3. ASSUME NEW f \in Files
        PROVE  /\ Unlinking(f)' <=> Unlinking(f)
               /\ At(f)' = At(f) /\ (f \in Live' <=> f \in Live) /\ Reach(f)' = Reach(f)
    BY <1>1 DEF Unlinking, At, Reading, Live, UsedFiles, Reach, Size, InWrite
  <1>4. \A c \in Clusters : ClusterStands(vol, vol', c)
    BY <1>1 DEF ClusterStands
  <1>5. ASSUME NEW f \in Live PROVE Stays(f)
    <2>1. f \in Files /\ FirstOf(f)' = FirstOf(f)
      BY <1>1, LiveFiles DEF Known, Seen
    <2> QED BY <1>2, <1>3, <1>4, <2>1, TextStands DEF Known
  <1>6. ASSUME NEW f \in Files PROVE Standing(f)'
    <2>1. handle[f].open /\ ~Unlinking(f) => f \in Live
      BY DEF Known, Inv, HandleInv, Live
    <2>2. Standing(f)
      BY DEF Track
    <2> QED BY <1>1, <1>3, <1>5, <2>1, <2>2 DEF Standing, Stays
  <1>7. Heard'
    <2> SUFFICES ASSUME NEW f \in Files, pc \in {"read", "readend"}, call.f = f
                 PROVE  Text(f)' = Text(f)
      BY <1>1 DEF Heard, Track
    <2>1. handle[f].open /\ ~Unlinking(f)
      BY DEF Heard, Track, Unlinking
    <2>2. f \in Live
      BY <2>1 DEF Known, Inv, HandleInv, Live
    <2> QED BY <1>5, <2>2 DEF Stays
  <1>8. Said'
    BY <1>1 DEF Said, Track
  <1>9. \A f \in Files : At(f)' = At(f) /\ (f \in Live' <=> f \in Live) /\ (f \in Live => Text(f)' = Text(f))
    BY <1>3, <1>5 DEF Stays
  <1>10. UNCHANGED Promise!vars
    <2>1. Live' = Live
      BY <1>9, LiveFiles DEF Live, UsedFiles
    <2>2. Contents' = Contents
      BY <1>9, <2>1, LiveFiles DEF Known, Seen
    <2>3. Positions' = Positions
      BY <1>9 DEF Known, Seen
    <2> QED BY <1>1, <2>2, <2>3 DEF Promise!vars
  <1> QED BY <1>6, <1>7, <1>8, <1>10 DEF Fulfils, Track

LEMMA StepKeeps ==
  Known /\ Known' /\ Track /\ WritesBounded /\ [Next]_vars
    => Track' /\ [Promise!Next]_(Promise!vars)
PROOF
  <1> SUFFICES ASSUME Known, Known', Track, WritesBounded, [Next]_vars PROVE Fulfils
    BY DEF Fulfils
  <1>1. CASE Counted /\ \E f \in Files : Careful(f)
    <2>1. PICK f \in Files : Careful(f)
      BY <1>1
    <2>2. CASE \E async \in BOOLEAN : Create(f, async) \/ (Synced(f) /\ Open(f, async))
      BY <2>2, CreateKeeps, OpenKeeps
    <2>3. CASE Sync(f)
      BY <2>3, SyncKeeps
    <2>4. CASE /\ handle[f].size > 0
               /\ \E offset \in SeekOffsets, whence \in {"SET", "CUR", "END"} : Seek(f, offset, whence)
      BY <2>4, SeekKeeps
    <2>5. CASE /\ f # HostFile /\ HasRoom(f)
               /\ \E v \in Values, n \in WriteSizes : WriteStart(f, v, n)
      BY <2>5, WriteStartKeeps
    <2>6. CASE handle[f].size > 0 /\ \E n \in ReadSizes : ReadStart(f, n)
      BY <2>6, ReadStartKeeps
    <2>7. CASE f # HostFile /\ Synced(f) /\ UnlinkStart(f)
      BY <2>7, UnlinkStartKeeps
    <2> QED BY <2>1, <2>2, <2>3, <2>4, <2>5, <2>6, <2>7 DEF Careful
  <1>2. CASE Internal
    BY <1>2, WriteSectorKeeps, WriteAcrossKeeps, WriteDoneKeeps, ReadSectorKeeps, ReadDoneKeeps,
       UnlinkStepKeeps, UnlinkDoneKeeps DEF Internal
  <1>3. CASE UNCHANGED vars
    BY <1>3, RestKeeps
  <1> QED BY <1>1, <1>2, <1>3 DEF Next, Rest

LEMMA InitKeeps == Init /\ Seen => Track /\ Promise!Init
PROOF
  <1> SUFFICES ASSUME Init, Seen PROVE Track /\ Promise!Init
    OBVIOUS
  <1>1. pc = "idle" /\ got = <<>> /\ \A f \in Files : ~handle[f].open
    BY DEF Init, NoHandle
  <1>2. \A f \in Files : At(f) = -1
    BY <1>1 DEF At
  <1>3. DOMAIN Contents = Live /\ Positions = [f \in Files |-> -1]
    BY <1>2 DEF Seen
  <1>4. Promise!Init
    BY <1>1, <1>3, LiveFiles DEF Promise!Init, Promise!Existing, Promise!Closed
  <1>5. Track
    BY <1>1 DEF Track, Standing, Heard, Said
  <1> QED BY <1>4, <1>5

(* KeepsFiles: FatVolume implements ByteFiles. For careful callers a file    *)
(* holds what was written to it, fat_read returns what it holds and the      *)
(* files are each their own, whatever the geometry of the volume, wherever   *)
(* the bytes are, in whatever order the calls come and though fat_write may  *)
(* find the volume full.                                                     *)
THEOREM FilesKept == Mirrored /\ Aligned /\ WritesBounded /\ Spec => KeepsFiles
PROOF
  <1>1. (Aligned => Aligned') /\ (WritesBounded => WritesBounded')
    BY DEF Aligned, WritesBounded
  <1>2. Inv /\ Aligned /\ Bounded => Known
    BY InvSeen DEF Known
  <1>3. Known => Seen
    BY DEF Known
  <1> QED BY <1>1, <1>2, <1>3, InitBounded, StepEnds, InvUnlinkLeft, Invariance, InitKeeps, StepKeeps, PTL
      DEF Spec, KeepsFiles, Promise!Spec
=============================================================================
