---------------------------- MODULE BuddyProofs ----------------------------
(***************************************************************************)
(* Proofs about Buddy, for every number of orders and every assignment of   *)
(* spans that BuddyAssumption allows. The inductive invariant IInv is the   *)
(* type invariant, Tiling, ListsAgree and CallsSound together: blocks keep  *)
(* tiling the region because the lists name exactly the free heads, and the *)
(* lists stay right because heads are aligned and do not overlap. Then free *)
(* and held pages add up to all of memory, the order of a block stays with  *)
(* it while it is held, and the allocator implements PageAllocator.         *)
(***************************************************************************)
EXTENDS Buddy, SequenceTheorems, SumFacts, TLAPS

LEMMA SpanFacts ==
  /\ \A k \in 0 .. MaxOrder : Span[k] \in Nat \ {0}
  /\ \A k \in Orders : k > 0 => Span[k] = 2 * Span[k - 1]
  /\ NPages \in Nat \ {0}
PROOF
  <1>1. \A k \in 0 .. MaxOrder : Span[k] \in Nat \ {0}
    BY BuddyAssumption
  <1>2. \A k \in Orders : k > 0 => Span[k] = 2 * Span[k - 1]
    <2> SUFFICES ASSUME NEW k \in Orders, k > 0 PROVE Span[k] = 2 * Span[k - 1]
      OBVIOUS
    <2>1. k - 1 \in 0 .. MaxOrder - 1 /\ (k - 1) + 1 = k
      BY BuddyAssumption DEF Orders
    <2> QED BY <2>1, BuddyAssumption
  <1>3. NPages \in Nat \ {0}
    <2>1. Span[MaxOrder - 1] \in Nat \ {0}
      BY <1>1, BuddyAssumption
    <2>2. \A a, b \in Nat \ {0} : a * b \in Nat \ {0}
      OBVIOUS
    <2> QED BY <2>1, <2>2, BuddyAssumption DEF NPages
  <1> QED BY <1>1, <1>2, <1>3

LEMMA ListDelLemma ==
  ASSUME NEW S, NEW l \in Seq(S), IsInjective(l), NEW p \in ToSet(l)
  PROVE  /\ ListDel(l, p) \in Seq(S)
         /\ Len(ListDel(l, p)) = Len(l) - 1
         /\ ToSet(ListDel(l, p)) = ToSet(l) \ {p}
         /\ IsInjective(ListDel(l, p))
PROOF
  <1>1. PICK i \in 1 .. Len(l) : l[i] = p
    BY DEF ToSet
  <1> DEFINE new == SubSeq(l, 1, i - 1) \o SubSeq(l, i + 1, Len(l))
  <1>2. {j \in 1 .. Len(l) : l[j] = p} = {i}
    BY <1>1 DEF IsInjective
  <1>3. ListDel(l, p) = new
    <2>1. Min({i}) = i
      BY DEF Min
    <2>2. SelectInSeq(l, LAMBDA v : v = p) = i
      BY <1>2, <2>1 DEF SelectInSeq
    <2> QED BY <1>1, <2>2 DEF ListDel, RemoveFirst, RemoveAt
  <1> HIDE DEF new
  <1>4. /\ new \in Seq(S)
        /\ Len(new) = Len(l) - 1
        /\ \A j \in 1 .. Len(new) : new[j] = IF j < i THEN l[j] ELSE l[j + 1]
    <2> DEFINE a == SubSeq(l, 1, i - 1)
               b == SubSeq(l, i + 1, Len(l))
    <2>1. a \in Seq(S) /\ Len(a) = i - 1 /\ \A j \in 1 .. i - 1 : a[j] = l[j]
      BY <1>1, SubSeqProperties
    <2>2. b \in Seq(S) /\ Len(b) = Len(l) - i
      BY <1>1, SubSeqProperties
    <2>3. \A j \in 1 .. Len(l) - i : b[j] = l[i + j]
      BY <1>1, SubSeqProperties
    <2>4. new = a \o b
      BY DEF new
    <2> HIDE DEF a, b
    <2>5. new \in Seq(S) /\ Len(new) = Len(a) + Len(b)
      BY <2>1, <2>2, <2>4, ConcatProperties
    <2>6. \A j \in 1 .. Len(new) : new[j] = IF j <= Len(a) THEN a[j] ELSE b[j - Len(a)]
      BY <2>1, <2>2, <2>4, ConcatProperties
    <2>7. ASSUME NEW j \in 1 .. Len(new) PROVE new[j] = IF j < i THEN l[j] ELSE l[j + 1]
      <3>1. CASE j < i
        BY <3>1, <1>1, <2>1, <2>6, <2>7
      <3>2. CASE j >= i
        <4>1. new[j] = b[j - (i - 1)]
          BY <3>2, <1>1, <2>1, <2>6, <2>7
        <4>2. j - (i - 1) \in 1 .. Len(l) - i
          BY <3>2, <1>1, <2>1, <2>2, <2>5, <2>7
        <4>3. b[j - (i - 1)] = l[i + (j - (i - 1))]
          BY <4>2, <2>3
        <4>4. i + (j - (i - 1)) = j + 1
          BY <1>1, <2>7, <2>5
        <4> QED BY <4>1, <4>3, <4>4, <3>2, <1>1
      <3> QED BY <3>1, <3>2, <1>1
    <2>8. Len(new) = Len(l) - 1
      BY <1>1, <2>1, <2>2, <2>5
    <2> QED BY <2>5, <2>7, <2>8
  <1>5. ToSet(new) = ToSet(l) \ {p}
    <2>1. ASSUME NEW j \in 1 .. Len(new) PROVE new[j] \in ToSet(l) /\ new[j] # p
      BY <1>1, <1>4 DEF ToSet, IsInjective
    <2>2. ASSUME NEW j \in 1 .. Len(l), l[j] # p PROVE \E m \in 1 .. Len(new) : new[m] = l[j]
      <3>1. CASE j < i
        BY <3>1, <1>1, <1>4
      <3>2. CASE j > i
        <4>1. j - 1 \in 1 .. Len(new) /\ new[j - 1] = l[j]
          BY <3>2, <1>1, <1>4
        <4> QED BY <4>1
      <3> QED BY <3>1, <3>2, <1>1, <2>2
    <2>3. ToSet(new) = {new[j] : j \in 1 .. Len(new)} /\ ToSet(l) = {l[j] : j \in 1 .. Len(l)}
      <3>1. DOMAIN new = 1 .. Len(new) /\ DOMAIN l = 1 .. Len(l)
        BY <1>4
      <3> QED BY <3>1 DEF ToSet
    <2> QED BY <2>1, <2>2, <2>3
  <1>6. IsInjective(new)
    <2> DEFINE At(j) == IF j < i THEN j ELSE j + 1
    <2>1. DOMAIN new = 1 .. Len(new) /\ DOMAIN l = 1 .. Len(l)
      BY <1>4
    <2>2. ASSUME NEW j \in 1 .. Len(new) PROVE At(j) \in 1 .. Len(l) /\ new[j] = l[At(j)]
      BY <1>1, <1>4
    <2>3. ASSUME NEW j \in 1 .. Len(new), NEW m \in 1 .. Len(new), At(j) = At(m) PROVE j = m
      BY <1>1, <2>3
    <2> HIDE DEF At
    <2>4. ASSUME NEW j \in 1 .. Len(new), NEW m \in 1 .. Len(new), new[j] = new[m] PROVE j = m
      <3>1. l[At(j)] = l[At(m)] /\ At(j) \in DOMAIN l /\ At(m) \in DOMAIN l
        BY <2>1, <2>2, <2>4
      <3>2. At(j) = At(m)
        BY <3>1 DEF IsInjective
      <3> QED BY <3>2, <2>3
    <2> QED BY <2>1, <2>4 DEF IsInjective
  <1> QED BY <1>3, <1>4, <1>5, <1>6

LEMMA AppendLemma ==
  ASSUME NEW S, NEW l \in Seq(S), IsInjective(l), NEW p \in S, p \notin ToSet(l)
  PROVE  /\ Append(l, p) \in Seq(S)
         /\ Len(Append(l, p)) = Len(l) + 1
         /\ ToSet(Append(l, p)) = ToSet(l) \cup {p}
         /\ IsInjective(Append(l, p))
PROOF
  <1> DEFINE new == Append(l, p)
  <1>1. /\ new \in Seq(S)
        /\ Len(new) = Len(l) + 1
        /\ \A j \in 1 .. Len(l) : new[j] = l[j]
        /\ new[Len(l) + 1] = p
    BY AppendProperties
  <1>2. DOMAIN new = 1 .. Len(l) + 1 /\ DOMAIN l = 1 .. Len(l)
    BY <1>1
  <1> HIDE DEF new
  <1>3. ToSet(new) = ToSet(l) \cup {p}
    BY <1>1, <1>2 DEF ToSet
  <1>4. IsInjective(new)
    BY <1>1, <1>2 DEF IsInjective, ToSet
  <1> QED BY <1>1, <1>3, <1>4 DEF new

LEMMA TailLemma ==
  ASSUME NEW S, NEW l \in Seq(S), IsInjective(l), l # <<>>
  PROVE  /\ Head(l) \in ToSet(l) /\ Head(l) \in S
         /\ Tail(l) \in Seq(S)
         /\ Len(Tail(l)) = Len(l) - 1
         /\ ToSet(Tail(l)) = ToSet(l) \ {Head(l)}
         /\ IsInjective(Tail(l))
PROOF
  <1> DEFINE new == Tail(l)
  <1>1. /\ new \in Seq(S)
        /\ Len(l) \in Nat \ {0}
        /\ Len(new) = Len(l) - 1
        /\ \A j \in 1 .. Len(l) - 1 : new[j] = l[j + 1]
        /\ Head(l) = l[1]
        /\ Head(l) \in S
    BY HeadTailProperties, EmptySeq
  <1>2. DOMAIN new = 1 .. Len(l) - 1 /\ DOMAIN l = 1 .. Len(l)
    BY <1>1
  <1> HIDE DEF new
  <1>3. \A x \in ToSet(l) : x = Head(l) \/ x \in ToSet(new)
    <2> SUFFICES ASSUME NEW j \in 1 .. Len(l), j # 1 PROVE l[j] \in ToSet(new)
      BY <1>1, <1>2 DEF ToSet
    <2>1. j - 1 \in 1 .. Len(l) - 1 /\ new[j - 1] = l[j]
      BY <1>1
    <2> QED BY <2>1, <1>2 DEF ToSet
  <1>4. \A x \in ToSet(new) : x \in ToSet(l) /\ x # Head(l)
    <2> SUFFICES ASSUME NEW j \in 1 .. Len(l) - 1
                 PROVE  new[j] \in ToSet(l) /\ new[j] # Head(l)
      BY <1>2 DEF ToSet
    <2>1. j + 1 \in 1 .. Len(l) /\ 1 \in 1 .. Len(l) /\ new[j] = l[j + 1]
      BY <1>1
    <2> QED BY <2>1, <1>1, <1>2 DEF ToSet, IsInjective
  <1>5. Head(l) \in ToSet(l)
    BY <1>1, <1>2 DEF ToSet
  <1>6. IsInjective(new)
    <2> SUFFICES ASSUME NEW j \in 1 .. Len(l) - 1, NEW m \in 1 .. Len(l) - 1, new[j] = new[m]
                 PROVE  j = m
      BY <1>2 DEF IsInjective
    <2>1. j + 1 \in 1 .. Len(l) /\ m + 1 \in 1 .. Len(l) /\ l[j + 1] = l[m + 1]
      BY <1>1
    <2>2. j + 1 = m + 1
      BY <2>1, <1>2 DEF IsInjective
    <2> QED BY <2>2
  <1> QED BY <1>1, <1>3, <1>4, <1>5, <1>6 DEF new

(* size2order: the shifts find the logarithm, or give up at MaxOrder. *)
LEMMA FloorLog2Facts ==
  ASSUME NEW n \in Nat
  PROVE  /\ FloorLog2(n) \in 0 .. MaxOrder
         /\ FloorLog2(n) < MaxOrder => n < 2 * Span[FloorLog2(n)]
PROOF
  <1> DEFINE T == {k \in 0 .. MaxOrder : k = MaxOrder \/ n < 2 * Span[k]}
  <1>1. T \in SUBSET Nat /\ MaxOrder \in T
    BY BuddyAssumption
  <1> HIDE DEF T
  <1>2. PICK x \in T : \A y \in T : x <= y
    BY <1>1, SumFold!NatLeast
  <1>3. x \in 0 .. MaxOrder /\ (x = MaxOrder \/ n < 2 * Span[x])
    BY <1>2 DEF T
  <1>4. x = 0 \/ Span[x] <= n
    <2> SUFFICES ASSUME x # 0 PROVE Span[x] <= n
      OBVIOUS
    <2>1. x - 1 \in 0 .. MaxOrder - 1 /\ x - 1 \notin T
      BY <1>1, <1>2, <1>3, BuddyAssumption
    <2>2. ~(n < 2 * Span[x - 1])
      BY <2>1, BuddyAssumption DEF T
    <2>3. PICK y \in 0 .. MaxOrder - 1 : y = x - 1
      BY <2>1
    <2>4. Span[y + 1] = 2 * Span[y]
      BY BuddyAssumption
    <2>5. x = y + 1 /\ Span[x - 1] = Span[y]
      BY <1>1, <1>2, <2>3
    <2>6. y \in 0 .. MaxOrder /\ Span[y] \in Nat
      BY BuddyAssumption
    <2> QED BY <1>3, <2>2, <2>3, <2>4, <2>5, <2>6
  <1>5. LET k == FloorLog2(n)
        IN  /\ k \in 0 .. MaxOrder
            /\ k = 0 \/ Span[k] <= n
            /\ k = MaxOrder \/ n < 2 * Span[k]
    BY <1>3, <1>4 DEF FloorLog2
  <1> QED BY <1>5

LEMMA Size2OrderType ==
  ASSUME NEW s \in Nat
  PROVE  Size2Order(s) \in 0 .. MaxOrder + 1
PROOF
  <1>1. (s \div PageSize) % NrPageMod \in Nat
    BY BuddyAssumption
  <1>2. FloorLog2((s \div PageSize) % NrPageMod) \in 0 .. MaxOrder
    BY <1>1, FloorLog2Facts
  <1> QED BY <1>2, BuddyAssumption DEF Size2Order

-----------------------------------------------------------------------------
(* The inductive invariant: the properties need each other, and CallsSound. *)
IInv == TypeOK /\ Tiling /\ ListsAgree /\ CallsSound

LEMMA SpanOfPage ==
  ASSUME TypeOK, NEW p \in Pages
  PROVE  order[p] \in Orders /\ Span[order[p]] \in Nat \ {0}
PROOF
  <1>1. order[p] \in Orders
    BY DEF TypeOK
  <1>2. order[p] \in 0 .. MaxOrder
    BY <1>1, BuddyAssumption DEF Orders
  <1> QED BY <1>1, <1>2, SpanFacts

(* What a block on a list is. *)
LEMMA OnList ==
  ASSUME IInv, NEW k \in Orders, lists[k] # <<>>
  PROVE  /\ Head(lists[k]) \in FreeHeads(k)
         /\ Head(lists[k]) \in Pages
         /\ Tail(lists[k]) \in Seq(Pages)
         /\ ToSet(Tail(lists[k])) = FreeHeads(k) \ {Head(lists[k])}
         /\ IsInjective(Tail(lists[k]))
         /\ Len(Tail(lists[k])) = nr[k] - 1
         /\ nr[k] > 0
PROOF
  <1>1. lists[k] \in Seq(Pages) /\ IsInjective(lists[k])
    BY DEF IInv, TypeOK, ListsAgree
  <1>2. ToSet(lists[k]) = FreeHeads(k) /\ nr[k] = Len(lists[k])
    BY DEF IInv, ListsAgree
  <1>3. nr[k] > 0
    BY <1>1, <1>2, EmptySeq
  <1> HIDE DEF FreeHeads
  <1> QED BY <1>1, <1>2, <1>3, TailLemma

(* A block above order 0 has room for a second head in its middle, where    *)
(* there is none yet.                                                       *)
LEMMA MiddleFree ==
  ASSUME IInv, NEW p \in Heads, order[p] > 0
  PROVE  /\ p + Span[order[p] - 1] \in Pages
         /\ p + Span[order[p] - 1] \notin Heads
         /\ p + Span[order[p] - 1] # p
         /\ Span[order[p]] = 2 * Span[order[p] - 1]
         /\ Span[order[p] - 1] \in Nat \ {0}
         /\ order[p] - 1 \in Orders
PROOF
  <1>1. order[p] \in Orders /\ p \in Pages
    BY DEF IInv, TypeOK, Heads
  <1>2. order[p] - 1 \in Orders /\ order[p] - 1 \in 0 .. MaxOrder
    <2>1. MaxOrder \in Nat
      BY BuddyAssumption
    <2> QED BY <1>1, <2>1 DEF Orders
  <1>3. Span[order[p]] = 2 * Span[order[p] - 1] /\ Span[order[p] - 1] \in Nat \ {0}
    BY <1>1, <1>2, SpanFacts
  <1>4. p + Span[order[p]] <= NPages
    BY DEF IInv, Tiling
  <1>5. p + Span[order[p] - 1] \in Pages
    BY <1>1, <1>3, <1>4, SpanFacts DEF Pages
  <1>6. ASSUME p + Span[order[p] - 1] \in Heads PROVE FALSE
    <2> DEFINE b == p + Span[order[p] - 1]
    <2>1. p # b
      BY <1>1, <1>3 DEF Pages
    <2>2. Apart(p, b)
      BY <1>6, <2>1 DEF IInv, Tiling
    <2>3. Span[order[b]] \in Nat \ {0}
      BY <1>5, SpanOfPage DEF IInv
    <2> QED BY <1>1, <1>3, <2>2, <2>3 DEF Apart, Pages
  <1> QED BY <1>1, <1>2, <1>3, <1>5, <1>6 DEF Pages

LEMMA ChunkFacts ==
  /\ \A i \in 1 .. NrChunks :
       Chunk(i) \in Pages /\ Chunk(i) + Span[MaxOrder - 1] <= NPages
  /\ \A i, j \in 1 .. NrChunks :
       i < j => Chunk(i) + Span[MaxOrder - 1] <= Chunk(j)
  /\ \A p \in Pages : \E i \in 1 .. NrChunks :
       Chunk(i) <= p /\ p < Chunk(i) + Span[MaxOrder - 1]
PROOF
  <1> DEFINE C == Span[MaxOrder - 1]
  <1>1. C \in Nat \ {0} /\ NPages = NrChunks * C
    BY SpanFacts, BuddyAssumption DEF NPages
  <1>2. \A i : Chunk(i) = (i - 1) * C
    BY DEF Chunk
  <1> HIDE DEF C
  <1>3. \A a, b, c \in Nat : a < b => a * c + c <= b * c
    <2> SUFFICES ASSUME NEW a \in Nat, NEW b \in Nat, NEW c \in Nat, a < b
                 PROVE  a * c + c <= b * c
      OBVIOUS
    <2> DEFINE d == b - (a + 1)
    <2>1. d \in Nat /\ b = a + 1 + d
      OBVIOUS
    <2>2. b * c = a * c + c + d * c
      BY <2>1
    <2>3. d * c \in Nat /\ a * c \in Nat
      BY <2>1
    <2> QED BY <2>2, <2>3
  <1>4. \A i, j \in 1 .. NrChunks : i < j => Chunk(i) + C <= Chunk(j)
    <2> SUFFICES ASSUME NEW i \in 1 .. NrChunks, NEW j \in 1 .. NrChunks, i < j
                 PROVE  Chunk(i) + C <= Chunk(j)
      OBVIOUS
    <2>1. i - 1 \in Nat /\ j - 1 \in Nat /\ i - 1 < j - 1
      BY BuddyAssumption
    <2> QED BY <2>1, <1>1, <1>2, <1>3
  <1>5. ASSUME NEW i \in 1 .. NrChunks
        PROVE  Chunk(i) \in Pages /\ Chunk(i) + C <= NPages
    <2>1. i - 1 \in Nat /\ i - 1 < NrChunks /\ NrChunks \in Nat
      BY BuddyAssumption
    <2>2. Chunk(i) + C <= NPages
      BY <2>1, <1>1, <1>2, <1>3
    <2>3. Chunk(i) \in Nat
      BY <2>1, <1>1, <1>2
    <2> QED BY <2>2, <2>3, <1>1, SpanFacts DEF Pages
  <1>6. ASSUME NEW p \in Pages
        PROVE  \E i \in 1 .. NrChunks : Chunk(i) <= p /\ p < Chunk(i) + C
    <2> DEFINE q == p \div C
    <2>1. p \in Nat /\ p < NPages
      BY SpanFacts DEF Pages
    <2>2. q \in Nat /\ q * C <= p /\ p < q * C + C
      BY <1>1, <2>1
    <2> HIDE DEF q
    <2>3. q < NrChunks
      <3> SUFFICES ASSUME NrChunks <= q PROVE FALSE
        BY <2>2, BuddyAssumption
      <3>1. NrChunks * C <= q * C
        <4>1. CASE NrChunks = q
          BY <4>1, <1>1, <2>2
        <4>2. CASE NrChunks < q
          BY <4>2, <1>1, <1>3, <2>2, BuddyAssumption
        <4> QED BY <4>1, <4>2, <2>2, BuddyAssumption
      <3>2. q * C \in Nat
        BY <1>1, <2>2
      <3> QED BY <3>1, <3>2, <1>1, <2>1, <2>2, SpanFacts
    <2>4. q + 1 \in 1 .. NrChunks /\ Chunk(q + 1) = q * C
      BY <1>2, <2>2, <2>3, BuddyAssumption
    <2> QED BY <2>2, <2>4
  <1> QED BY <1>4, <1>5, <1>6 DEF C

LEMMA InitIInv == Init => IInv
PROOF
  <1> SUFFICES ASSUME Init PROVE IInv
    OBVIOUS
  <1> DEFINE M == MaxOrder - 1
  <1>1. M \in Orders /\ 0 \in Orders /\ Span[M] \in Nat \ {0}
    BY SpanFacts, BuddyAssumption DEF Orders
  <1>2. ChunkHeads \subseteq Pages /\ 0 \in Pages
    BY ChunkFacts, SpanFacts DEF ChunkHeads, Pages
  <1>3. Heads = ChunkHeads
    BY <1>2 DEF Init, Heads, PG_HEAD, NoFlag
  <1>4. \A p \in ChunkHeads : order[p] = M /\ free[p] = 1
    BY <1>2 DEF Init
  <1> HIDE DEF M
  <1>5. lists = [k \in Orders |-> IF k = M THEN [i \in 1 .. NrChunks |-> Chunk(i)]
                                  ELSE <<>>]
    BY DEF Init, M
  <1>6. TypeOK
    <2>1. [i \in 1 .. NrChunks |-> Chunk(i)] \in Seq(Pages)
      BY ChunkFacts, BuddyAssumption, IsASeq
    <2>2. lists \in [Orders -> Seq(Pages)]
      BY <1>5, <2>1, EmptySeq
    <2>3. /\ order \in [Pages -> Orders]
          /\ free \in [Pages -> {0, 1}]
          /\ flag \in [Pages -> {NoFlag, PG_HEAD, PG_TAIL}]
          /\ nr \in [Orders -> Nat]
      BY <1>1, BuddyAssumption DEF Init, M
    <2>4. live = {} /\ pc = "idle" /\ size = 0 /\ want = 0 /\ tmp = 0 /\ page = 0
      BY DEF Init
    <2> QED BY <1>2, <2>2, <2>3, <2>4, BuddyAssumption DEF TypeOK
  <1>7. Tiling
    <2>1. \A p \in Heads : p + Span[order[p]] <= NPages
      BY <1>3, <1>4, ChunkFacts DEF ChunkHeads, M
    <2>2. ASSUME NEW i \in 1 .. NrChunks, NEW j \in 1 .. NrChunks, Chunk(i) # Chunk(j)
          PROVE  Apart(Chunk(i), Chunk(j))
      <3>1. order[Chunk(i)] = M /\ order[Chunk(j)] = M
        BY <1>4 DEF ChunkHeads
      <3>2. i < j \/ j < i
        BY <2>2, BuddyAssumption
      <3> QED BY <3>1, <3>2, ChunkFacts DEF Apart, M
    <2>3. ASSUME NEW p \in Pages PROVE \E q \in Heads : q <= p /\ p < q + Span[order[q]]
      <3>1. PICK i \in 1 .. NrChunks : Chunk(i) <= p /\ p < Chunk(i) + Span[M]
        BY ChunkFacts DEF M
      <3>2. Chunk(i) \in Heads /\ order[Chunk(i)] = M
        BY <1>3, <1>4 DEF ChunkHeads
      <3> QED BY <3>1, <3>2
    <2> QED BY <2>1, <2>2, <2>3, <1>3 DEF Tiling, ChunkHeads
  <1>8. ListsAgree
    <2>1. ASSUME NEW k \in Orders, k # M
          PROVE  /\ ToSet(lists[k]) = FreeHeads(k) /\ IsInjective(lists[k])
                 /\ nr[k] = Len(lists[k])
      <3>1. lists[k] = <<>> /\ FreeHeads(k) = {} /\ nr[k] = 0
        BY <1>3, <1>4, <1>5, <2>1 DEF FreeHeads, Init, M
      <3> QED BY <3>1 DEF ToSet, IsInjective
    <2>2. /\ ToSet(lists[M]) = FreeHeads(M) /\ IsInjective(lists[M])
          /\ nr[M] = Len(lists[M])
      <3> DEFINE l == [i \in 1 .. NrChunks |-> Chunk(i)]
      <3>1. lists[M] = l /\ DOMAIN l = 1 .. NrChunks
        BY <1>1, <1>5
      <3>2. Len(l) = NrChunks
        BY BuddyAssumption
      <3>3. ToSet(l) = ChunkHeads
        BY DEF ToSet, ChunkHeads
      <3>4. FreeHeads(M) = ChunkHeads
        BY <1>3, <1>4 DEF FreeHeads
      <3>5. nr[M] = NrChunks
        BY <1>1 DEF Init, M
      <3>6. IsInjective(l)
        <4> SUFFICES ASSUME NEW i \in 1 .. NrChunks, NEW j \in 1 .. NrChunks,
                            Chunk(i) = Chunk(j), i # j
                     PROVE  FALSE
          BY DEF IsInjective
        <4>1. i < j \/ j < i
          BY BuddyAssumption
        <4>2. Chunk(i) \in Nat
          BY ChunkFacts DEF Pages
        <4> QED BY <4>1, <4>2, <1>1, ChunkFacts DEF M
      <3> QED BY <3>1, <3>2, <3>3, <3>4, <3>5, <3>6
    <2>3. live = {p \in Heads : free[p] = 0}
      <3>1. \A p \in Heads : free[p] # 0
        BY <1>3, <1>4
      <3>2. live = {}
        BY DEF Init
      <3> QED BY <3>1, <3>2
    <2> QED BY <2>1, <2>2, <2>3 DEF ListsAgree
  <1>9. CallsSound
    BY DEF Init, CallsSound
  <1> QED BY <1>6, <1>7, <1>8, <1>9 DEF IInv

-----------------------------------------------------------------------------
(* Steps that leave pages and lists alone. *)
LEMMA QuietStep ==
  ASSUME IInv, UNCHANGED <<pageVars, listVars, live>>
  PROVE  Tiling' /\ ListsAgree'
PROOF
  <1>1. Heads' = Heads /\ UNCHANGED <<order, free, lists, nr, live>>
    BY DEF Heads, pageVars, listVars
  <1>2. \A k : FreeHeads(k)' = FreeHeads(k)
    BY <1>1 DEF FreeHeads
  <1>3. Tiling'
    BY <1>1 DEF IInv, Tiling, Apart
  <1>4. ListsAgree'
    BY <1>1, <1>2 DEF IInv, ListsAgree
  <1> QED BY <1>3, <1>4

(* When every block keeps its place, order and head, memory stays cut up. *)
LEMMA TilingKept ==
  ASSUME IInv, UNCHANGED <<order, flag>>
  PROVE  Tiling' /\ Heads' = Heads
  BY DEF IInv, Tiling, Heads, Apart

(* The values Return leaves in the locals are of their types. *)
LEMMA LocalsReset == 0 \in Pages /\ 0 \in Nat /\ 0 \in 0 .. MaxOrder + 1 /\ 0 \in 0 .. MaxOrder
  BY SpanFacts, BuddyAssumption DEF Pages

(* Taking the block q, free and of order k, from the lists and handing it out. *)
LEMMA HandOut ==
  ASSUME IInv, NEW k \in Orders, NEW q \in FreeHeads(k), NEW l \in Seq(Pages),
         ToSet(l) = FreeHeads(k) \ {q}, IsInjective(l), Len(l) = nr[k] - 1,
         UNCHANGED <<order, flag>>,
         free' = [free EXCEPT ![q] = 0],
         lists' = [lists EXCEPT ![k] = l],
         nr' = [nr EXCEPT ![k] = @ - 1],
         live' = live \cup {q}
  PROVE  /\ Tiling' /\ ListsAgree'
         /\ free' \in [Pages -> {0, 1}] /\ lists' \in [Orders -> Seq(Pages)]
         /\ nr' \in [Orders -> Nat] /\ live' \subseteq Pages
PROOF
  <1>1. q \in Pages /\ q \in Heads /\ order[q] = k /\ free[q] = 1
    BY DEF FreeHeads, Heads
  <1>2. Tiling' /\ Heads' = Heads
    BY TilingKept
  <1>3. TypeOK
    BY DEF IInv
  <1>4. free' \in [Pages -> {0, 1}] /\ free'[q] = 0 /\ \A p \in Pages : p # q => free'[p] = free[p]
    BY <1>1, <1>3 DEF TypeOK
  <1>5. \A p \in Heads : p \in Pages
    BY DEF Heads
  <1>6. ASSUME NEW j \in Orders, j # k PROVE FreeHeads(j)' = FreeHeads(j)
    BY <1>1, <1>2, <1>4, <1>5, <1>6 DEF FreeHeads
  <1>7. FreeHeads(k)' = FreeHeads(k) \ {q}
    BY <1>1, <1>2, <1>4, <1>5 DEF FreeHeads
  <1>8. Len(l) \in Nat /\ nr[k] \in Nat /\ nr'[k] = Len(l)
    BY <1>3 DEF TypeOK
  <1>9. nr' \in [Orders -> Nat] /\ lists' \in [Orders -> Seq(Pages)]
    BY <1>3, <1>8 DEF TypeOK
  <1>10. ASSUME NEW j \in Orders
         PROVE  /\ ToSet(lists'[j]) = FreeHeads(j)' /\ IsInjective(lists'[j])
                /\ nr'[j] = Len(lists'[j])
    <2>1. CASE j = k
      BY <2>1, <1>3, <1>7, <1>8 DEF TypeOK
    <2>2. CASE j # k
      <3>1. lists'[j] = lists[j] /\ nr'[j] = nr[j]
        BY <2>2, <1>3 DEF TypeOK
      <3> QED BY <3>1, <2>2, <1>6 DEF IInv, ListsAgree
    <2> QED BY <2>1, <2>2
  <1>11. live' = {p \in Heads' : free'[p] = 0}
    BY <1>1, <1>2, <1>4, <1>5 DEF IInv, ListsAgree
  <1>12. ListsAgree'
    BY <1>10, <1>11 DEF ListsAgree
  <1>13. live' \subseteq Pages
    BY <1>1, <1>3 DEF TypeOK
  <1> QED BY <1>2, <1>4, <1>9, <1>12, <1>13

LEMMA AllocateExactStep ==
  ASSUME IInv, AllocateExact
  PROVE  IInv'
PROOF
  <1>1. want \in Orders
    BY BuddyAssumption DEF IInv, TypeOK, AllocateExact, Orders
  <1>2. lists[want] # <<>>
    <2> SUFFICES ASSUME lists[want] = <<>> PROVE FALSE
      OBVIOUS
    <2>1. nr[want] = Len(lists[want])
      BY <1>1 DEF IInv, ListsAgree
    <2> QED BY <2>1 DEF AllocateExact
  <1> DEFINE q == Head(lists[want])
             l == Tail(lists[want])
  <1>3. /\ q \in FreeHeads(want) /\ l \in Seq(Pages)
        /\ ToSet(l) = FreeHeads(want) \ {q} /\ IsInjective(l) /\ Len(l) = nr[want] - 1
    BY <1>1, <1>2, OnList
  <1>4. /\ free' = [free EXCEPT ![q] = 0]
        /\ lists' = [lists EXCEPT ![want] = l]
        /\ nr' = [nr EXCEPT ![want] = @ - 1]
        /\ live' = live \cup {q}
        /\ pc' = "idle"
        /\ UNCHANGED <<order, flag>>
        /\ size' = 0 /\ want' = 0 /\ tmp' = 0 /\ page' = 0
    BY DEF AllocateExact, Return
  <1> HIDE DEF q, l
  <1>5. /\ Tiling' /\ ListsAgree'
        /\ free' \in [Pages -> {0, 1}] /\ lists' \in [Orders -> Seq(Pages)]
        /\ nr' \in [Orders -> Nat] /\ live' \subseteq Pages
    BY <1>1, <1>3, <1>4, HandOut
  <1>6. TypeOK'
    BY <1>4, <1>5, LocalsReset DEF IInv, TypeOK
  <1>7. CallsSound'
    BY <1>4 DEF CallsSound
  <1> QED BY <1>5, <1>6, <1>7 DEF IInv

LEMMA SplitDoneStep ==
  ASSUME IInv, SplitDone
  PROVE  IInv'
PROOF
  <1>1. want \in Orders /\ page \in FreeHeads(want)
    BY BuddyAssumption DEF IInv, CallsSound, SplitDone, Orders
  <1> DEFINE l == ListDel(lists[want], page)
  <1>2. /\ lists[want] \in Seq(Pages) /\ IsInjective(lists[want])
        /\ ToSet(lists[want]) = FreeHeads(want) /\ nr[want] = Len(lists[want])
    BY <1>1 DEF IInv, TypeOK, ListsAgree
  <1>3. /\ l \in Seq(Pages) /\ ToSet(l) = FreeHeads(want) \ {page}
        /\ IsInjective(l) /\ Len(l) = nr[want] - 1
    BY <1>1, <1>2, ListDelLemma
  <1>4. /\ free' = [free EXCEPT ![page] = 0]
        /\ lists' = [lists EXCEPT ![want] = l]
        /\ nr' = [nr EXCEPT ![want] = @ - 1]
        /\ live' = live \cup {page}
        /\ pc' = "idle"
        /\ UNCHANGED <<order, flag>>
        /\ size' = 0 /\ want' = 0 /\ tmp' = 0 /\ page' = 0
    BY DEF SplitDone, Return
  <1> HIDE DEF l
  <1>5. /\ Tiling' /\ ListsAgree'
        /\ free' \in [Pages -> {0, 1}] /\ lists' \in [Orders -> Seq(Pages)]
        /\ nr' \in [Orders -> Nat] /\ live' \subseteq Pages
    BY <1>1, <1>3, <1>4, HandOut
  <1>6. TypeOK'
    BY <1>4, <1>5, LocalsReset DEF IInv, TypeOK
  <1>7. CallsSound'
    BY <1>4 DEF CallsSound
  <1> QED BY <1>5, <1>6, <1>7 DEF IInv

-----------------------------------------------------------------------------
(* One iteration of buddy_split. *)
LEMMA SplitStepStep ==
  ASSUME IInv, SplitStep
  PROVE  IInv'
PROOF
  <1>0. PICK t, p, o, b : /\ t = tmp /\ p = Head(lists[t])
                          /\ o = order[p] - 1 /\ b = p + Span[o]
    OBVIOUS
  <1> DEFINE lo == Append(Append(lists[o], p), b)
  <1>1. /\ t \in Orders /\ want \in Orders /\ want < t
        /\ lists[t] # <<>> /\ t \in Nat /\ want \in Nat
    BY <1>0, BuddyAssumption DEF IInv, CallsSound, SplitStep, Orders
  <1>2. /\ p \in FreeHeads(t) /\ p \in Pages
        /\ Tail(lists[t]) \in Seq(Pages)
        /\ ToSet(Tail(lists[t])) = FreeHeads(t) \ {p}
        /\ IsInjective(Tail(lists[t]))
        /\ Len(Tail(lists[t])) = nr[t] - 1 /\ nr[t] > 0
    BY <1>0, <1>1, OnList
  <1>3. order[p] = t /\ free[p] = 1 /\ p \in Heads
    BY <1>2 DEF FreeHeads
  <1>4. /\ b \in Pages /\ b \notin Heads /\ b # p
        /\ Span[t] = 2 * Span[o] /\ Span[o] \in Nat \ {0} /\ o \in Orders /\ o = t - 1
    BY <1>0, <1>1, <1>3, MiddleFree
  <1>5. /\ order' = [order EXCEPT ![p] = @ - 1, ![b] = o]
        /\ free' = [free EXCEPT ![p] = 1, ![b] = 1]
        /\ flag' = [flag EXCEPT ![p] = PG_HEAD, ![b] = PG_HEAD]
        /\ lists' = [lists EXCEPT ![t] = Tail(@), ![t - 1] = Append(Append(@, p), b)]
        /\ nr' = [nr EXCEPT ![t] = @ - 1, ![t - 1] = @ + 2]
        /\ page' = p /\ tmp' = o
        /\ UNCHANGED <<live, pc, size, want>>
    BY <1>0, <1>3, <1>4 DEF SplitStep
  <1>6. TypeOK
    BY DEF IInv
  <1>7. b = p + Span[o]
    BY <1>0
  <1>8. /\ order' \in [Pages -> Orders] /\ order'[p] = o /\ order'[b] = o
        /\ \A q \in Pages : q # p /\ q # b => order'[q] = order[q]
    BY <1>1, <1>2, <1>3, <1>4, <1>5, <1>6 DEF TypeOK
  <1>9. /\ free' \in [Pages -> {0, 1}] /\ free'[p] = 1 /\ free'[b] = 1
        /\ \A q \in Pages : q # p /\ q # b => free'[q] = free[q]
    BY <1>2, <1>4, <1>5, <1>6 DEF TypeOK
  <1>10. /\ flag' \in [Pages -> {NoFlag, PG_HEAD, PG_TAIL}]
         /\ flag'[p] = PG_HEAD /\ flag'[b] = PG_HEAD
         /\ \A q \in Pages : q # p /\ q # b => flag'[q] = flag[q]
    BY <1>2, <1>4, <1>5, <1>6 DEF TypeOK
  <1>11. Heads' = Heads \cup {b} /\ Heads \subseteq Pages
    BY <1>2, <1>3, <1>4, <1>10 DEF Heads
  <1>21. p \in Nat /\ t # o
    BY <1>1, <1>2, <1>4 DEF Pages
  <1>12. Tiling'
    <2>1. \A q \in Heads : q # p => /\ q \in Nat /\ Span[order[q]] \in Nat /\ order'[q] = order[q]
                                    /\ p + Span[t] <= q \/ q + Span[order[q]] <= p
      <3> SUFFICES ASSUME NEW q \in Heads, q # p
                   PROVE  /\ q \in Nat /\ Span[order[q]] \in Nat /\ order'[q] = order[q]
                          /\ p + Span[t] <= q \/ q + Span[order[q]] <= p
        OBVIOUS
      <3>1. Span[order[q]] \in Nat \ {0} /\ order'[q] = order[q]
        BY <1>4, <1>6, <1>8, <1>11, SpanOfPage
      <3>2. Apart(p, q)
        BY <1>3 DEF IInv, Tiling
      <3>3. q \in Nat
        BY <1>11 DEF Pages
      <3> QED BY <3>1, <3>2, <3>3, <1>3 DEF Apart
    <2>2. p + Span[t] <= NPages
      BY <1>3 DEF IInv, Tiling
    <2>3. ASSUME NEW q \in Heads' PROVE q + Span[order'[q]] <= NPages
      <3>1. CASE q = p \/ q = b
        BY <3>1, <2>2, <1>2, <1>4, <1>7, <1>8, SpanFacts DEF Pages
      <3>2. CASE q # p /\ q # b
        BY <3>2, <1>11, <1>8 DEF IInv, Tiling
      <3> QED BY <3>1, <3>2
    <2>4. ASSUME NEW q \in Heads', NEW r \in Heads', q # r PROVE Apart(q, r)'
      <3>1. CASE q \in {p, b} /\ r \in {p, b}
        <4>1. p + Span[o] <= b
          BY <1>2, <1>4, <1>7 DEF Pages
        <4> QED BY <3>1, <4>1, <2>4, <1>8 DEF Apart
      <3>2. CASE q \in {p, b} /\ r \notin {p, b}
        <4>1. p + Span[t] <= r \/ r + Span[order[r]] <= p
          BY <3>2, <1>11, <2>1
        <4>2. r \in Nat /\ p \in Nat /\ Span[order[r]] \in Nat /\ order'[r] = order[r]
          BY <3>2, <1>11, <1>21, <2>1
        <4>3. q + Span[o] <= r \/ r + Span[order[r]] <= q
          BY <3>2, <4>1, <4>2, <1>4, <1>7
        <4> QED BY <3>2, <4>2, <4>3, <1>8 DEF Apart
      <3>3. CASE q \notin {p, b} /\ r \in {p, b}
        <4>1. p + Span[t] <= q \/ q + Span[order[q]] <= p
          BY <3>3, <1>11, <2>1
        <4>2. q \in Nat /\ p \in Nat /\ Span[order[q]] \in Nat /\ order'[q] = order[q]
          BY <3>3, <1>11, <1>21, <2>1
        <4>3. r + Span[o] <= q \/ q + Span[order[q]] <= r
          BY <3>3, <4>1, <4>2, <1>4, <1>7
        <4> QED BY <3>3, <4>2, <4>3, <1>8 DEF Apart
      <3>4. CASE q \notin {p, b} /\ r \notin {p, b}
        <4>1. q \in Heads /\ r \in Heads /\ order'[q] = order[q] /\ order'[r] = order[r]
          BY <3>4, <1>11, <2>1
        <4> QED BY <4>1, <2>4 DEF IInv, Tiling, Apart
      <3> QED BY <3>1, <3>2, <3>3, <3>4
    <2>5. ASSUME NEW i \in Pages PROVE \E q \in Heads' : q <= i /\ i < q + Span[order'[q]]
      <3>1. PICK q \in Heads : q <= i /\ i < q + Span[order[q]]
        BY DEF IInv, Tiling
      <3>2. CASE q # p
        BY <3>1, <3>2, <2>1, <1>11
      <3>3. CASE q = p
        <4>1. i < b \/ (b <= i /\ i < b + Span[o])
          BY <3>1, <3>3, <1>2, <1>3, <1>4, <1>7 DEF Pages
        <4> QED BY <4>1, <3>1, <3>3, <1>3, <1>7, <1>8, <1>11
      <3> QED BY <3>2, <3>3
    <2> QED BY <2>3, <2>4, <2>5 DEF Tiling
  <1>13. /\ FreeHeads(t)' = FreeHeads(t) \ {p}
         /\ FreeHeads(o)' = (FreeHeads(o) \cup {p}) \cup {b}
         /\ p \notin FreeHeads(o) /\ b \notin FreeHeads(o)
    <2>1. p \notin FreeHeads(o) /\ b \notin FreeHeads(o)
      BY <1>3, <1>4, <1>21 DEF FreeHeads
    <2>2. FreeHeads(t)' = FreeHeads(t) \ {p}
      <3>1. ASSUME NEW q \in Heads' PROVE free'[q] = 1 /\ order'[q] = t
                                            <=> q \in FreeHeads(t) \ {p}
        BY <1>3, <1>4, <1>8, <1>9, <1>11, <1>21 DEF FreeHeads
      <3>2. FreeHeads(t) \subseteq Heads'
        BY <1>11 DEF FreeHeads
      <3> QED BY <3>1, <3>2 DEF FreeHeads
    <2>3. FreeHeads(o)' = (FreeHeads(o) \cup {p}) \cup {b}
      <3>1. ASSUME NEW q \in Heads' PROVE free'[q] = 1 /\ order'[q] = o
                                            <=> q \in (FreeHeads(o) \cup {p}) \cup {b}
        BY <1>3, <1>4, <1>8, <1>9, <1>11, <1>21 DEF FreeHeads
      <3>2. (FreeHeads(o) \cup {p}) \cup {b} \subseteq Heads'
        BY <1>3, <1>11 DEF FreeHeads
      <3> QED BY <3>1, <3>2 DEF FreeHeads
    <2> QED BY <2>1, <2>2, <2>3
  <1>14. ASSUME NEW k \in Orders, k # t, k # o PROVE FreeHeads(k)' = FreeHeads(k)
    BY <1>14, <1>3, <1>4, <1>8, <1>9, <1>11 DEF FreeHeads
  <1>15. /\ lo \in Seq(Pages) /\ Len(lo) = nr[o] + 2
         /\ ToSet(lo) = FreeHeads(o)' /\ IsInjective(lo)
    <2>1. /\ lists[o] \in Seq(Pages) /\ IsInjective(lists[o])
          /\ ToSet(lists[o]) = FreeHeads(o) /\ nr[o] = Len(lists[o]) /\ nr[o] \in Nat
      BY <1>4 DEF IInv, TypeOK, ListsAgree
    <2> DEFINE m == Append(lists[o], p)
    <2>2. /\ m \in Seq(Pages) /\ Len(m) = nr[o] + 1
          /\ ToSet(m) = FreeHeads(o) \cup {p} /\ IsInjective(m)
      BY <2>1, <1>2, <1>13, AppendLemma
    <2> HIDE DEF m
    <2>3. b \notin ToSet(m)
      BY <2>2, <1>4, <1>13
    <2>4. /\ Append(m, b) \in Seq(Pages) /\ Len(Append(m, b)) = Len(m) + 1
          /\ ToSet(Append(m, b)) = ToSet(m) \cup {b} /\ IsInjective(Append(m, b))
      BY <2>2, <2>3, <1>4, AppendLemma
    <2>5. lo = Append(m, b)
      BY DEF m
    <2> QED BY <2>1, <2>2, <2>4, <2>5, <1>13
  <1>16. /\ lists' = [lists EXCEPT ![t] = Tail(lists[t]), ![o] = lo]
         /\ nr' = [nr EXCEPT ![t] = nr[t] - 1, ![o] = nr[o] + 2]
    BY <1>1, <1>4, <1>5, <1>6 DEF TypeOK
  <1> HIDE DEF lo
  <1>17. /\ lists'[t] = Tail(lists[t]) /\ lists'[o] = lo
         /\ nr'[t] = nr[t] - 1 /\ nr'[o] = nr[o] + 2
         /\ \A k \in Orders : k # t /\ k # o => lists'[k] = lists[k] /\ nr'[k] = nr[k]
         /\ nr[t] \in Nat /\ nr[o] \in Nat
    BY <1>1, <1>4, <1>6, <1>16, <1>21 DEF TypeOK
  <1>18. TypeOK'
    <2>1. lists' \in [Orders -> Seq(Pages)]
      BY <1>1, <1>2, <1>4, <1>6, <1>15, <1>16 DEF TypeOK
    <2>2. nr[t] - 1 \in Nat /\ nr[o] + 2 \in Nat
      BY <1>2, <1>17
    <2>3. nr' \in [Orders -> Nat]
      BY <1>6, <1>16, <2>2 DEF TypeOK
    <2>4. tmp' \in 0 .. MaxOrder
      BY <1>4, <1>5, BuddyAssumption DEF Orders
    <2> QED BY <1>2, <1>5, <1>6, <1>8, <1>9, <1>10, <2>1, <2>3, <2>4 DEF TypeOK
  <1>19. ListsAgree'
    <2>1. ASSUME NEW k \in Orders
          PROVE  /\ ToSet(lists'[k]) = FreeHeads(k)' /\ IsInjective(lists'[k])
                 /\ nr'[k] = Len(lists'[k])
      <3>1. CASE k = t
        BY <3>1, <1>2, <1>13, <1>17
      <3>2. CASE k = o
        BY <3>2, <1>15, <1>17
      <3>3. CASE k # t /\ k # o
        <4>1. lists'[k] = lists[k] /\ nr'[k] = nr[k]
          BY <3>3, <1>17
        <4> QED BY <4>1, <3>3, <1>14 DEF IInv, ListsAgree
      <3> QED BY <3>1, <3>2, <3>3
    <2>2. live' = {q \in Heads' : free'[q] = 0}
      BY <1>3, <1>4, <1>5, <1>9, <1>11 DEF IInv, ListsAgree
    <2> QED BY <2>1, <2>2 DEF ListsAgree
  <1>20. CallsSound'
    <2>1. lists'[o] # <<>>
      <3> SUFFICES ASSUME lo = <<>> PROVE FALSE
        BY <1>17
      <3> QED BY <1>15, <1>17
    <2>2. page' \in FreeHeads(o)'
      BY <1>5, <1>13
    <2>3. pc' = "split" /\ want' = want /\ tmp' = o
      BY <1>5 DEF SplitStep
    <2>4. want <= o
      BY <1>1, <1>4
    <2>5. tmp' = want' => page' \in FreeHeads(want)'
      BY <2>2, <2>3
    <2> QED BY <2>1, <2>3, <2>4, <2>5, <1>1, <1>4 DEF CallsSound
  <1> QED BY <1>12, <1>18, <1>19, <1>20 DEF IInv

-----------------------------------------------------------------------------
(* kfree up to its loop. *)
LEMMA KfreeStep ==
  ASSUME IInv, NEW p \in Pages, flag[p] # NoFlag, Kfree(p)
  PROVE  IInv'
PROOF
  <1>0. PICK k : k = order[p]
    OBVIOUS
  <1> DEFINE lk == Append(lists[k], p)
  <1>1. TypeOK
    BY DEF IInv
  <1>2. k \in Orders /\ p \in Heads /\ free[p] = 0
    BY <1>0, <1>1 DEF TypeOK, Kfree, MayFree, Heads, NoFlag, PG_HEAD, PG_TAIL
  <1>3. /\ free' = [free EXCEPT ![p] = 1]
        /\ lists' = [lists EXCEPT ![k] = lk]
        /\ nr' = [nr EXCEPT ![k] = @ + 1]
        /\ live' = live \ {p}
        /\ page' = p /\ pc' = "merge"
        /\ UNCHANGED <<order, flag, size, want, tmp>>
    BY <1>0, <1>1, <1>2 DEF Kfree, TypeOK
  <1>4. Tiling' /\ Heads' = Heads
    BY <1>3, TilingKept
  <1>5. /\ free' \in [Pages -> {0, 1}] /\ free'[p] = 1
        /\ \A q \in Pages : q # p => free'[q] = free[q]
    BY <1>1, <1>3 DEF TypeOK
  <1>6. Heads \subseteq Pages
    BY DEF Heads
  <1>7. FreeHeads(k)' = FreeHeads(k) \cup {p} /\ p \notin FreeHeads(k)
    BY <1>0, <1>2, <1>3, <1>4, <1>5, <1>6 DEF FreeHeads
  <1>8. ASSUME NEW j \in Orders, j # k PROVE FreeHeads(j)' = FreeHeads(j)
    BY <1>0, <1>2, <1>3, <1>4, <1>5, <1>6, <1>8 DEF FreeHeads
  <1>9. /\ lists[k] \in Seq(Pages) /\ IsInjective(lists[k])
        /\ ToSet(lists[k]) = FreeHeads(k) /\ nr[k] = Len(lists[k]) /\ nr[k] \in Nat
    BY <1>1, <1>2 DEF IInv, TypeOK, ListsAgree
  <1>10. /\ lk \in Seq(Pages) /\ Len(lk) = nr[k] + 1
         /\ ToSet(lk) = FreeHeads(k)' /\ IsInjective(lk)
    BY <1>7, <1>9, AppendLemma
  <1> HIDE DEF lk
  <1>11. /\ lists'[k] = lk /\ nr'[k] = nr[k] + 1
         /\ \A j \in Orders : j # k => lists'[j] = lists[j] /\ nr'[j] = nr[j]
         /\ lists' \in [Orders -> Seq(Pages)]
    BY <1>1, <1>2, <1>3, <1>10 DEF TypeOK
  <1>12. nr' \in [Orders -> Nat]
    <2>1. nr \in [Orders -> Nat]
      BY <1>1 DEF TypeOK
    <2>2. nr[k] + 1 \in Nat
      BY <1>9
    <2> QED BY <2>1, <2>2, <1>3
  <1>13. TypeOK'
    <2>1. live' \subseteq Pages /\ page' \in Pages
      BY <1>1, <1>3 DEF TypeOK
    <2>2. /\ order' \in [Pages -> Orders] /\ flag' \in [Pages -> {NoFlag, PG_HEAD, PG_TAIL}]
          /\ size' \in Nat /\ want' \in 0 .. MaxOrder + 1 /\ tmp' \in 0 .. MaxOrder
      BY <1>1, <1>3 DEF TypeOK
    <2>3. pc' \in {"idle"} \cup Running \cup Stopped
      BY <1>3 DEF Running
    <2> QED BY <2>1, <2>2, <2>3, <1>5, <1>11, <1>12 DEF TypeOK
  <1>14. ListsAgree'
    <2>1. ASSUME NEW j \in Orders
          PROVE  /\ ToSet(lists'[j]) = FreeHeads(j)' /\ IsInjective(lists'[j])
                 /\ nr'[j] = Len(lists'[j])
      <3>1. CASE j = k
        BY <3>1, <1>10, <1>11
      <3>2. CASE j # k
        <4>1. lists'[j] = lists[j] /\ nr'[j] = nr[j]
          BY <3>2, <1>11
        <4> QED BY <4>1, <3>2, <1>8 DEF IInv, ListsAgree
      <3> QED BY <3>1, <3>2
    <2>2. live' = {q \in Heads' : free'[q] = 0}
      BY <1>2, <1>3, <1>4, <1>5, <1>6 DEF IInv, ListsAgree
    <2> QED BY <2>1, <2>2 DEF ListsAgree
  <1>15. CallsSound'
    BY <1>2, <1>3, <1>4, <1>5 DEF CallsSound
  <1> QED BY <1>4, <1>13, <1>14, <1>15 DEF IInv

-----------------------------------------------------------------------------
(* One iteration of the loop of buddy_free_page. *)
LEMMA MergeStepStep ==
  ASSUME IInv, MergeStep
  PROVE  IInv'
PROOF
  <1>0. PICK p, k, b : p = page /\ k = order[p] /\ b = p + Span[k]
    OBVIOUS
  <1> DEFINE l1 == ListDel(lists[k], b)
             l2 == ListDel(l1, p)
             up == Append(lists[k + 1], p)
  <1>1. TypeOK
    BY DEF IInv
  <1>2. /\ p \in Heads /\ free[p] = 1 /\ p \in Pages
        /\ b \in Heads /\ free[b] = 1 /\ b \in Pages /\ order[b] = k
        /\ k \in Orders /\ k + 1 \in Orders /\ k \in Nat
    <2>1. p \in Heads /\ free[p] = 1 /\ p \in Pages
      BY <1>0 DEF IInv, CallsSound, MergeStep, Heads
    <2>2. b \in Pages /\ free[b] = 1 /\ flag[b] = PG_HEAD /\ order[b] = k /\ k < MaxOrder - 1
      BY <1>0 DEF MergeStep, CanMerge, BuddyPage
    <2>3. k \in Orders
      BY <2>1, <1>0, <1>1 DEF TypeOK
    <2>4. k + 1 \in Orders /\ k \in Nat
      BY <2>2, <2>3, BuddyAssumption DEF Orders
    <2>5. b \in Heads
      BY <2>2 DEF Heads
    <2> QED BY <2>1, <2>2, <2>3, <2>4, <2>5
  <1>3. Span[k + 1] = 2 * Span[k] /\ Span[k] \in Nat \ {0} /\ p \in Nat /\ b # p /\ k # k + 1
    <2>1. (k + 1) - 1 = k /\ k + 1 > 0
      BY <1>2
    <2>2. Span[k + 1] = 2 * Span[k]
      BY <2>1, <1>2, SpanFacts
    <2>3. Span[k] \in Nat \ {0}
      BY <1>0, <1>1, <1>2, SpanOfPage
    <2>4. p \in Nat
      BY <1>2 DEF Pages
    <2> QED BY <2>2, <2>3, <2>4, <1>0, <1>2
  <1>4. /\ flag' = [flag EXCEPT ![b] = PG_TAIL]
        /\ order' = [order EXCEPT ![p] = k + 1]
        /\ lists' = [lists EXCEPT ![k] = l2, ![k + 1] = up]
        /\ nr' = [nr EXCEPT ![k] = @ - 2, ![k + 1] = @ + 1]
        /\ UNCHANGED <<free, live, pc, size, want, tmp, page>>
    BY <1>0, <1>1, <1>2, <1>3 DEF MergeStep, BuddyPage, callVars, TypeOK
  <1>5. /\ order' \in [Pages -> Orders] /\ order'[p] = k + 1
        /\ \A q \in Pages : q # p => order'[q] = order[q]
    BY <1>1, <1>2, <1>4 DEF TypeOK
  <1>6. /\ flag' \in [Pages -> {NoFlag, PG_HEAD, PG_TAIL}] /\ flag'[b] = PG_TAIL
        /\ \A q \in Pages : q # b => flag'[q] = flag[q]
    BY <1>1, <1>2, <1>4 DEF TypeOK
  <1>7. Heads' = Heads \ {b} /\ Heads \subseteq Pages
    BY <1>6 DEF Heads, PG_HEAD, PG_TAIL
  <1>8. Tiling'
    <2>1. \A q \in Heads : q # p /\ q # b =>
                 /\ q \in Nat /\ Span[order[q]] \in Nat /\ order'[q] = order[q]
                 /\ p + Span[k + 1] <= q \/ q + Span[order[q]] <= p
      <3> SUFFICES ASSUME NEW q \in Heads, q # p, q # b
                   PROVE  /\ q \in Nat /\ Span[order[q]] \in Nat /\ order'[q] = order[q]
                          /\ p + Span[k + 1] <= q \/ q + Span[order[q]] <= p
        OBVIOUS
      <3>1. q \in Pages /\ q \in Nat
        BY <1>7 DEF Pages
      <3>2. Span[order[q]] \in Nat \ {0} /\ order'[q] = order[q]
        BY <3>1, <1>1, <1>5, SpanOfPage
      <3>3. Apart(p, q) /\ Apart(b, q)
        BY <1>2 DEF IInv, Tiling
      <3> QED BY <3>1, <3>2, <3>3, <1>0, <1>2, <1>3 DEF Apart
    <2>2. p + Span[k + 1] <= NPages
      <3>1. b + Span[k] <= NPages
        BY <1>2 DEF IInv, Tiling
      <3> QED BY <3>1, <1>0, <1>3, SpanFacts
    <2>3. ASSUME NEW q \in Heads' PROVE q + Span[order'[q]] <= NPages
      <3>1. CASE q = p
        BY <3>1, <2>2, <1>5
      <3>2. CASE q # p
        BY <3>2, <1>7, <2>1 DEF IInv, Tiling
      <3> QED BY <3>1, <3>2
    <2>4. ASSUME NEW q \in Heads', NEW r \in Heads', q # r PROVE Apart(q, r)'
      <3>1. CASE q = p
        BY <3>1, <2>1, <2>4, <1>5, <1>7 DEF Apart
      <3>2. CASE r = p
        BY <3>2, <2>1, <2>4, <1>5, <1>7 DEF Apart
      <3>3. CASE q # p /\ r # p
        <4>1. /\ q \in Heads /\ r \in Heads
              /\ order'[q] = order[q] /\ order'[r] = order[r]
          BY <3>3, <1>7, <2>1
        <4> QED BY <4>1, <2>4 DEF IInv, Tiling, Apart
      <3> QED BY <3>1, <3>2, <3>3
    <2>5. ASSUME NEW i \in Pages PROVE \E q \in Heads' : q <= i /\ i < q + Span[order'[q]]
      <3>1. PICK q \in Heads : q <= i /\ i < q + Span[order[q]]
        BY DEF IInv, Tiling
      <3>2. CASE q # p /\ q # b
        BY <3>1, <3>2, <2>1, <1>7
      <3>3. CASE q = p \/ q = b
        <4>1. i \in Nat
          BY DEF Pages
        <4>2. p <= i /\ i < p + Span[k + 1]
          BY <3>1, <3>3, <4>1, <1>0, <1>2, <1>3
        <4> QED BY <4>2, <1>2, <1>3, <1>5, <1>7
      <3> QED BY <3>2, <3>3
    <2> QED BY <2>3, <2>4, <2>5 DEF Tiling
  <1>9. p \in FreeHeads(k) /\ b \in FreeHeads(k) /\ p \notin FreeHeads(k + 1)
    BY <1>0, <1>2, <1>3 DEF FreeHeads
  <1>10. FreeHeads(k)' = (FreeHeads(k) \ {b}) \ {p}
    BY <1>0, <1>2, <1>3, <1>4, <1>5, <1>7 DEF FreeHeads
  <1>11. FreeHeads(k + 1)' = FreeHeads(k + 1) \cup {p}
    BY <1>0, <1>2, <1>3, <1>4, <1>5, <1>7 DEF FreeHeads
  <1>12. ASSUME NEW j \in Orders, j # k, j # k + 1 PROVE FreeHeads(j)' = FreeHeads(j)
    BY <1>0, <1>2, <1>4, <1>5, <1>7, <1>12 DEF FreeHeads
  <1>13. \A j \in Orders :
           /\ lists[j] \in Seq(Pages) /\ IsInjective(lists[j])
           /\ ToSet(lists[j]) = FreeHeads(j) /\ nr[j] = Len(lists[j]) /\ nr[j] \in Nat
    BY <1>1 DEF IInv, TypeOK, ListsAgree
  <1>14. /\ l2 \in Seq(Pages) /\ Len(l2) = nr[k] - 2
         /\ ToSet(l2) = FreeHeads(k)' /\ IsInjective(l2)
    <2>1. /\ l1 \in Seq(Pages) /\ Len(l1) = nr[k] - 1
          /\ ToSet(l1) = FreeHeads(k) \ {b} /\ IsInjective(l1)
      BY <1>2, <1>9, <1>13, ListDelLemma
    <2> HIDE DEF l1
    <2>2. p \in ToSet(l1)
      BY <2>1, <1>3, <1>9
    <2>3. /\ l2 \in Seq(Pages) /\ Len(l2) = Len(l1) - 1
          /\ ToSet(l2) = ToSet(l1) \ {p} /\ IsInjective(l2)
      BY <2>1, <2>2, ListDelLemma
    <2> HIDE DEF l2
    <2>4. nr[k] \in Nat
      BY <1>2, <1>13
    <2> QED BY <2>1, <2>3, <2>4, <1>10
  <1>15. /\ up \in Seq(Pages) /\ Len(up) = nr[k + 1] + 1
         /\ ToSet(up) = FreeHeads(k + 1)' /\ IsInjective(up)
    <2>1. /\ lists[k + 1] \in Seq(Pages) /\ IsInjective(lists[k + 1])
          /\ ToSet(lists[k + 1]) = FreeHeads(k + 1) /\ nr[k + 1] = Len(lists[k + 1])
      BY <1>2, <1>13
    <2>2. p \in Pages /\ p \notin ToSet(lists[k + 1])
      BY <2>1, <1>2, <1>9
    <2>3. /\ up \in Seq(Pages) /\ Len(up) = Len(lists[k + 1]) + 1
          /\ ToSet(up) = ToSet(lists[k + 1]) \cup {p} /\ IsInjective(up)
      BY <2>1, <2>2, AppendLemma
    <2> QED BY <2>1, <2>3, <1>11
  <1> HIDE DEF l1, l2, up
  <1>16. nr[k] - 2 \in Nat
    BY <1>2, <1>13, <1>14, LenProperties
  <1>17. /\ lists'[k] = l2 /\ lists'[k + 1] = up
         /\ nr'[k] = nr[k] - 2 /\ nr'[k + 1] = nr[k + 1] + 1
         /\ \A j \in Orders : j # k /\ j # k + 1 => lists'[j] = lists[j] /\ nr'[j] = nr[j]
    BY <1>1, <1>2, <1>3, <1>4 DEF TypeOK
  <1>18. TypeOK'
    <2>1. lists' \in [Orders -> Seq(Pages)]
      BY <1>1, <1>2, <1>4, <1>14, <1>15 DEF TypeOK
    <2>2. nr' \in [Orders -> Nat]
      BY <1>1, <1>2, <1>4, <1>16 DEF TypeOK
    <2> QED BY <1>1, <1>4, <1>5, <1>6, <2>1, <2>2 DEF TypeOK
  <1>19. ListsAgree'
    <2>1. ASSUME NEW j \in Orders
          PROVE  /\ ToSet(lists'[j]) = FreeHeads(j)' /\ IsInjective(lists'[j])
                 /\ nr'[j] = Len(lists'[j])
      <3>1. CASE j = k
        BY <3>1, <1>14, <1>17
      <3>2. CASE j = k + 1
        BY <3>2, <1>15, <1>17
      <3>3. CASE j # k /\ j # k + 1
        <4>1. lists'[j] = lists[j] /\ nr'[j] = nr[j]
          BY <3>3, <1>17
        <4> QED BY <4>1, <3>3, <1>12 DEF IInv, ListsAgree
      <3> QED BY <3>1, <3>2, <3>3
    <2>2. live' = {q \in Heads' : free'[q] = 0}
      BY <1>2, <1>4, <1>7 DEF IInv, ListsAgree
    <2> QED BY <2>1, <2>2 DEF ListsAgree
  <1>20. CallsSound'
    BY <1>0, <1>2, <1>3, <1>4, <1>7 DEF CallsSound, MergeStep
  <1> QED BY <1>8, <1>18, <1>19, <1>20 DEF IInv

-----------------------------------------------------------------------------
(* Every step of every kind of caller preserves the invariant. *)
LEMMA InternalStep ==
  ASSUME IInv, Internal
  PROVE  IInv'
PROOF
  <1>1. CASE AllocateTooLarge
    <2>1. UNCHANGED <<pageVars, listVars, live, callVars>> /\ pc' = "panic"
      BY <1>1 DEF AllocateTooLarge
    <2>2. Tiling' /\ ListsAgree'
      BY <2>1, QuietStep
    <2>3. TypeOK'
      BY <2>1 DEF IInv, TypeOK, pageVars, listVars, callVars, Stopped
    <2>4. CallsSound'
      BY <2>1 DEF CallsSound
    <2> QED BY <2>2, <2>3, <2>4 DEF IInv
  <1>2. CASE AllocateExact
    BY <1>2, AllocateExactStep
  <1>3. CASE AllocateSearch
    <2>1. PICK k \in Larger : tmp' = k
      BY <1>3 DEF AllocateSearch
    <2>2. /\ UNCHANGED <<pageVars, listVars, live, size, want, page>> /\ pc' = "split"
          /\ want < MaxOrder
      BY <1>3 DEF AllocateSearch
    <2>3. /\ want \in Orders /\ k \in Orders /\ want < k /\ nr[k] # 0
      BY <2>1, <2>2, BuddyAssumption DEF Larger, IInv, TypeOK, Orders
    <2>4. Tiling' /\ ListsAgree'
      BY <2>2, QuietStep
    <2>5. lists[k] # <<>>
      <3>1. nr[k] = Len(lists[k])
        BY <2>3 DEF IInv, ListsAgree
      <3> QED BY <3>1, <2>3
    <2>6. TypeOK'
      <3>1. tmp' \in 0 .. MaxOrder
        BY <2>1, <2>3, BuddyAssumption DEF Orders
      <3>2. pc' \in Running
        BY <2>2 DEF Running
      <3> QED BY <3>1, <3>2, <2>2 DEF IInv, TypeOK, pageVars, listVars
    <2>7. CallsSound'
      BY <2>1, <2>2, <2>3, <2>5, BuddyAssumption DEF CallsSound, listVars, Orders
    <2> QED BY <2>4, <2>6, <2>7 DEF IInv
  <1>4. CASE AllocateOverrun
    <2>1. /\ UNCHANGED <<pageVars, listVars, live, size, want, page>>
          /\ pc' \in Stopped /\ tmp' = MaxOrder
      BY <1>4 DEF AllocateOverrun
    <2>2. Tiling' /\ ListsAgree'
      BY <2>1, QuietStep
    <2>3. TypeOK'
      BY <2>1, BuddyAssumption DEF IInv, TypeOK, pageVars, listVars
    <2>4. CallsSound'
      BY <2>1 DEF CallsSound, Stopped
    <2> QED BY <2>2, <2>3, <2>4 DEF IInv
  <1>5. CASE SplitStep
    BY <1>5, SplitStepStep
  <1>6. CASE SplitDone
    BY <1>6, SplitDoneStep
  <1>7. CASE MergeStep
    BY <1>7, MergeStepStep
  <1>8. CASE MergeDone
    <2>1. /\ UNCHANGED <<pageVars, listVars, live>> /\ pc' = "idle"
          /\ size' = 0 /\ want' = 0 /\ tmp' = 0 /\ page' = 0
      BY <1>8 DEF MergeDone, Return
    <2>2. Tiling' /\ ListsAgree'
      BY <2>1, QuietStep
    <2>3. TypeOK'
      BY <2>1, LocalsReset DEF IInv, TypeOK, pageVars, listVars
    <2>4. CallsSound'
      BY <2>1 DEF CallsSound
    <2> QED BY <2>2, <2>3, <2>4 DEF IInv
  <1> QED BY <1>1, <1>2, <1>3, <1>4, <1>5, <1>6, <1>7, <1>8 DEF Internal

LEMMA StutterStep ==
  ASSUME IInv, UNCHANGED vars
  PROVE  IInv'
PROOF
  <1>1. UNCHANGED <<pageVars, listVars, live, callVars, pc>>
    BY DEF vars, pageVars, listVars, callVars
  <1>2. Tiling' /\ ListsAgree'
    BY <1>1, QuietStep
  <1>3. TypeOK'
    BY <1>1 DEF IInv, TypeOK, pageVars, listVars, callVars
  <1>4. CallsSound'
    <2>1. Heads' = Heads /\ UNCHANGED <<order, free, lists, pc, want, tmp, page>>
      BY <1>1 DEF Heads, pageVars, listVars, callVars
    <2>2. FreeHeads(want)' = FreeHeads(want)
      BY <2>1 DEF FreeHeads
    <2> QED BY <2>1, <2>2 DEF IInv, CallsSound
  <1> QED BY <1>2, <1>3, <1>4 DEF IInv

LEMMA CarelessStep ==
  ASSUME IInv, [CarelessNext]_vars
  PROVE  IInv'
PROOF
  <1>1. ASSUME NEW s \in Sizes, Kalloc(s) PROVE IInv'
    <2>1. /\ UNCHANGED <<pageVars, listVars, live, tmp, page>> /\ pc' = "alloc"
          /\ size' = s /\ want' = Size2Order(IF s >= PageSize THEN s ELSE PageSize)
      BY <1>1 DEF Kalloc
    <2>2. s \in Nat /\ want' \in 0 .. MaxOrder + 1
      BY <2>1, BuddyAssumption, Size2OrderType
    <2>3. Tiling' /\ ListsAgree'
      BY <2>1, QuietStep
    <2>4. TypeOK'
      BY <2>1, <2>2 DEF IInv, TypeOK, pageVars, listVars, Running
    <2>5. CallsSound'
      BY <2>1 DEF CallsSound
    <2> QED BY <2>3, <2>4, <2>5 DEF IInv
  <1>2. ASSUME NEW p \in Pages, flag[p] # NoFlag, Kfree(p) PROVE IInv'
    BY <1>2, KfreeStep
  <1>3. ASSUME NEW p \in Pages, KfreeRejected(p) PROVE IInv'
    <2>1. UNCHANGED <<pageVars, listVars, live, callVars>> /\ pc' = "panic"
      BY <1>3 DEF KfreeRejected
    <2>2. Tiling' /\ ListsAgree'
      BY <2>1, QuietStep
    <2>3. TypeOK'
      BY <2>1 DEF IInv, TypeOK, pageVars, listVars, callVars, Stopped
    <2>4. CallsSound'
      BY <2>1 DEF CallsSound
    <2> QED BY <2>2, <2>3, <2>4 DEF IInv
  <1>4. CASE Internal
    BY <1>4, InternalStep
  <1>5. CASE Halted \/ UNCHANGED vars
    BY <1>5, StutterStep DEF Halted
  <1> QED BY <1>1, <1>2, <1>3, <1>4, <1>5 DEF CarelessNext, AllocateOrContinue

(* A page that is held heads a block, so callers that free what they hold are *)
(* a special case of careless ones.                                           *)
LEMMA NextIsCareless ==
  ASSUME IInv, [Next]_vars
  PROVE  [CarelessNext]_vars
PROOF
  <1>1. \A p \in live : p \in Pages /\ flag[p] # NoFlag
    BY DEF IInv, ListsAgree, Heads, NoFlag, PG_HEAD
  <1> QED BY <1>1 DEF Next, CarelessNext

LEMMA CarelessInductive == CarelessSpec => []IInv
PROOF
  <1>1. Init => IInv
    BY InitIInv
  <1>2. IInv /\ [CarelessNext]_vars => IInv'
    BY CarelessStep
  <1> QED BY <1>1, <1>2, PTL DEF CarelessSpec

LEMMA Inductive == SafetySpec => []IInv
PROOF
  <1>1. Init => IInv
    BY InitIInv
  <1>2. IInv /\ [Next]_vars => IInv'
    BY NextIsCareless, CarelessStep
  <1> QED BY <1>1, <1>2, PTL DEF SafetySpec

(* Types, for every number of chunks, of orders and of pages. *)
THEOREM TypesCorrect == SafetySpec => []TypeOK
PROOF
  <1>1. IInv => TypeOK
    BY DEF IInv
  <1> QED BY <1>1, Inductive, PTL

(* Splitting and merging never overlap two blocks and never lose a page, even *)
(* when callers free blocks twice (buddy_split, buddy_free_page).             *)
THEOREM BlocksTile == CarelessSpec => []Tiling
PROOF
  <1>1. IInv => Tiling
    BY DEF IInv
  <1> QED BY <1>1, CarelessInductive, PTL

(* The lists, their counters and the flags of the pages agree after every     *)
(* step, with careful and with careless callers.                              *)
THEOREM ListsCorrect == CarelessSpec => []ListsAgree
PROOF
  <1>1. IInv => ListsAgree
    BY DEF IInv
  <1> QED BY <1>1, CarelessInductive, PTL

(* The three panics of buddy_split are unreachable. *)
THEOREM SplitNeverPanics == CarelessSpec => []CallsSound
PROOF
  <1>1. IInv => CallsSound
    BY DEF IInv
  <1> QED BY <1>1, CarelessInductive, PTL

-----------------------------------------------------------------------------
(* Accounting. IInv says which counter and which block a step touches; what    *)
(* remains is arithmetic on the two sums.                                      *)

FreeBytes(n) == SumFunctionOnSet([k \in Orders |-> n[k] * Bytes(k)], Orders)
HeldBytes(o, L) == SumFunctionOnSet([p \in L |-> Bytes(o[p])], L)

LEMMA BytesFacts ==
  /\ \A k \in Orders : Bytes(k) \in Nat
  /\ \A k \in Orders : k - 1 \in Orders => Bytes(k) = 2 * Bytes(k - 1)
  /\ IsFiniteSet(Orders) /\ IsFiniteSet(Pages)
PROOF
  <1>1. \A k \in Orders : Span[k] \in Nat /\ k \in Nat
    BY SpanFacts, BuddyAssumption DEF Orders
  <1>2. \A k \in Orders : Bytes(k) \in Nat
    BY <1>1, BuddyAssumption DEF Bytes
  <1>3. ASSUME NEW k \in Orders, k - 1 \in Orders PROVE Bytes(k) = 2 * Bytes(k - 1)
    <2>1. Span[k] = 2 * Span[k - 1] /\ Span[k - 1] \in Nat
      BY <1>1, <1>3, SpanFacts DEF Orders
    <2>2. \A a, b \in Nat : a * (2 * b) = 2 * (a * b)
      OBVIOUS
    <2> QED BY <2>1, <2>2, BuddyAssumption DEF Bytes
  <1>4. IsFiniteSet(Orders) /\ IsFiniteSet(Pages)
    <2>1. 0 \in Int /\ MaxOrder - 1 \in Int /\ NPages - 1 \in Int
      BY BuddyAssumption, SpanFacts
    <2> QED BY <2>1, FS_Interval DEF Orders, Pages
  <1> QED BY <1>2, <1>3, <1>4

(* d more blocks of order k on its list.                                       *)
LEMMA FreeChange ==
  ASSUME NEW n, \A j \in Orders : n[j] \in Int, NEW k \in Orders, NEW d \in Int,
         NEW m, m[k] = n[k] + d, \A j \in Orders \ {k} : m[j] = n[j]
  PROVE  /\ FreeBytes(n) \in Int
         /\ FreeBytes(m) = FreeBytes(n) + d * Bytes(k)
PROOF
  <1>2. PICK f, g : /\ f = [j \in Orders |-> n[j] * Bytes(j)]
                    /\ g = [j \in Orders |-> m[j] * Bytes(j)]
    OBVIOUS
  <1>3. PICK rest : rest = Orders \ {k}
    OBVIOUS
  <1>4. IsFiniteSet(Orders) /\ IsFiniteSet(rest)
    BY <1>3, BytesFacts, FS_RemoveElement
  <1>5. m[k] = n[k] + d /\ \A j \in rest : m[j] = n[j]
    BY <1>3
  <1>6. \A j \in rest : f[j] = g[j]
    BY <1>2, <1>3, <1>5
  <1>7. g[k] = f[k] + d * Bytes(k) /\ f[k] \in Int /\ d * Bytes(k) \in Int
    <2>1. n[k] \in Int /\ Bytes(k) \in Int
      BY BytesFacts
    <2>2. (n[k] + d) * Bytes(k) = n[k] * Bytes(k) + d * Bytes(k)
          /\ n[k] * Bytes(k) \in Int /\ d * Bytes(k) \in Int
      BY <2>1
    <2> QED BY <1>2, <1>5, <2>2
  <1>8. (\A j \in Orders : f[j] \in Int) /\ (\A j \in Orders : g[j] \in Int)
    <2>1. \A j \in Orders : f[j] \in Int
      <3>1. \A j \in Orders : n[j] \in Int /\ Bytes(j) \in Int
        BY BytesFacts
      <3>2. \A a, b \in Int : a * b \in Int
        OBVIOUS
      <3> QED BY <1>2, <3>1, <3>2
    <2> QED BY <1>3, <1>6, <1>7, <2>1
  <1>9. /\ SumFunctionOnSet(f, Orders) = f[k] + SumFunctionOnSet(f, rest)
        /\ SumFunctionOnSet(g, Orders) = g[k] + SumFunctionOnSet(g, rest)
    BY <1>3, <1>4, <1>8, SumRemove
  <1>10. /\ SumFunctionOnSet(g, rest) = SumFunctionOnSet(f, rest)
         /\ SumFunctionOnSet(f, rest) \in Int
    BY <1>3, <1>4, <1>6, <1>8, SumSame, SumInt
  <1>11. FreeBytes(n) = SumFunctionOnSet(f, Orders) /\ FreeBytes(m) = SumFunctionOnSet(g, Orders)
    BY <1>2 DEF FreeBytes
  <1>12. PICK x \in Int, r \in Int, e \in Int :
            x = f[k] /\ r = SumFunctionOnSet(f, rest) /\ e = d * Bytes(k)
    BY <1>7, <1>10
  <1>13. FreeBytes(n) = x + r /\ FreeBytes(m) = (x + e) + r
    BY <1>7, <1>9, <1>10, <1>11, <1>12
  <1> QED BY <1>12, <1>13

(* One more block in callers' hands, and that only orders of held blocks count. *)
LEMMA HeldChange ==
  ASSUME NEW o \in [Pages -> Orders], NEW L \in SUBSET Pages
  PROVE  /\ HeldBytes(o, L) \in Int
         /\ \A p \in Pages \ L : HeldBytes(o, L \cup {p}) = HeldBytes(o, L) + Bytes(o[p])
         /\ \A u : (\A p \in L : u[p] = o[p]) => HeldBytes(u, L) = HeldBytes(o, L)
PROOF
  <1>1. IsFiniteSet(L) /\ \A p \in L : Bytes(o[p]) \in Int
    BY BytesFacts, FS_Subset
  <1>2. PICK f : f = [p \in L |-> Bytes(o[p])]
    OBVIOUS
  <1>3. HeldBytes(o, L) = SumFunctionOnSet(f, L) /\ SumFunctionOnSet(f, L) \in Int
    BY <1>1, <1>2, SumInt DEF HeldBytes
  <1>4. ASSUME NEW p \in Pages \ L
        PROVE  HeldBytes(o, L \cup {p}) = HeldBytes(o, L) + Bytes(o[p])
    <2>1. PICK M, g : M = L \cup {p} /\ g = [q \in M |-> Bytes(o[q])]
      OBVIOUS
    <2>2. IsFiniteSet(M) /\ p \in M /\ M \ {p} = L /\ \A q \in M : g[q] \in Int
      BY <1>1, <2>1, BytesFacts, FS_AddElement
    <2>3. SumFunctionOnSet(g, M) = g[p] + SumFunctionOnSet(g, M \ {p})
      BY <2>2, SumRemove
    <2>4. SumFunctionOnSet(g, L) = SumFunctionOnSet(f, L)
      BY <1>1, <1>2, <2>1, SumSame
    <2>5. g[p] = Bytes(o[p]) /\ g[p] \in Int
      BY <2>1, <2>2
    <2>6. HeldBytes(o, M) = SumFunctionOnSet(g, M)
      BY <2>1 DEF HeldBytes
    <2>7. HeldBytes(o, M) = Bytes(o[p]) + HeldBytes(o, L)
      BY <1>3, <2>2, <2>3, <2>4, <2>5, <2>6
    <2>8. Bytes(o[p]) \in Int /\ HeldBytes(o, L) \in Int
      BY <1>3, <2>5
    <2> QED BY <2>1, <2>7, <2>8
  <1>5. ASSUME NEW u, \A p \in L : u[p] = o[p] PROVE HeldBytes(u, L) = HeldBytes(o, L)
    <2>1. PICK g : g = [p \in L |-> Bytes(u[p])]
      OBVIOUS
    <2>2. \A p \in L : g[p] = f[p]
      BY <1>2, <1>5, <2>1
    <2>3. SumFunctionOnSet(g, L) = SumFunctionOnSet(f, L)
      BY <1>1, <2>2, SumSame
    <2> QED BY <1>3, <2>1, <2>3 DEF HeldBytes
  <1> QED BY <1>3, <1>4, <1>5

LEMMA AccountsFacts ==
  ASSUME IInv
  PROVE  /\ FreeAccounting <=> FreeBytes(nr) + HeldBytes(order, live) = NPages * PageSize
         /\ nr \in [Orders -> Int] /\ order \in [Pages -> Orders] /\ live \in SUBSET Pages
         /\ live = {p \in Heads : free[p] = 0}
         /\ FreeBytes(nr) \in Int /\ HeldBytes(order, live) \in Int /\ NPages * PageSize \in Int
PROOF
  <1>1. FreeAccounting <=> FreeBytes(nr) + HeldBytes(order, live) = NPages * PageSize
    BY DEF FreeAccounting, Statistics, FreeBytes, HeldBytes
  <1>2. /\ nr \in [Orders -> Int] /\ order \in [Pages -> Orders] /\ live \in SUBSET Pages
        /\ live = {p \in Heads : free[p] = 0}
    BY DEF IInv, TypeOK, ListsAgree
  <1>3. 0 \in Orders /\ 0 \in Int
    BY BuddyAssumption DEF Orders
  <1>4. FreeBytes(nr) \in Int /\ HeldBytes(order, live) \in Int
    BY <1>2, <1>3, FreeChange, HeldChange
  <1>5. NPages * PageSize \in Int
    BY SpanFacts, BuddyAssumption
  <1> QED BY <1>1, <1>2, <1>4, <1>5

(* A block goes from its list to a caller, or back.                            *)
LEMMA HandedOver ==
  ASSUME IInv, IInv', FreeAccounting, NEW k \in Orders, NEW p \in Pages, order[p] = k,
         order' = order,
         \/ /\ p \notin live /\ live' = live \cup {p} /\ nr' = [nr EXCEPT ![k] = @ + (-1)]
         \/ /\ p \in live /\ live' = live \ {p} /\ nr' = [nr EXCEPT ![k] = @ + 1]
  PROVE  FreeAccounting'
PROOF
  <1>1. PICK x \in Int, h \in Int, total \in Int :
          x = FreeBytes(nr) /\ h = HeldBytes(order, live) /\ total = NPages * PageSize
    BY AccountsFacts
  <1>2. x + h = total
    BY <1>1, AccountsFacts
  <1>3. /\ FreeBytes(nr) + HeldBytes(order, live) = NPages * PageSize
        /\ nr \in [Orders -> Int] /\ order \in [Pages -> Orders] /\ live \in SUBSET Pages
    BY AccountsFacts
  <1>4. PICK y \in Int : y = Bytes(k)
    BY BytesFacts
  <1>5. CASE p \notin live /\ live' = live \cup {p} /\ nr' = [nr EXCEPT ![k] = @ + (-1)]
    <2>1. FreeBytes(nr') = x + (-1) * y
      <3>1. PICK m : m = nr'
        OBVIOUS
      <3>2. m[k] = nr[k] + (-1) /\ \A j \in Orders \ {k} : m[j] = nr[j]
        BY <1>3, <1>5, <3>1
      <3>3. FreeBytes(m) = FreeBytes(nr) + (-1) * Bytes(k)
        BY <1>3, <3>2, FreeChange
      <3> QED BY <1>1, <1>4, <3>1, <3>3
    <2>2. HeldBytes(order, live') = h + y
      BY <1>1, <1>3, <1>4, <1>5, HeldChange
    <2>3. FreeBytes(nr') + HeldBytes(order', live') = total
      BY <1>2, <2>1, <2>2
    <2> QED BY <1>1, <2>3 DEF FreeAccounting, Statistics, FreeBytes, HeldBytes
  <1>6. CASE p \in live /\ live' = live \ {p} /\ nr' = [nr EXCEPT ![k] = @ + 1]
    <2>1. FreeBytes(nr') = x + (1) * y
      <3>1. PICK m : m = nr'
        OBVIOUS
      <3>2. m[k] = nr[k] + (1) /\ \A j \in Orders \ {k} : m[j] = nr[j]
        BY <1>3, <1>6, <3>1
      <3>3. FreeBytes(m) = FreeBytes(nr) + (1) * Bytes(k)
        BY <1>3, <3>2, FreeChange
      <3> QED BY <1>1, <1>4, <3>1, <3>3
    <2>2. PICK L \in SUBSET Pages : L = live' /\ L \cup {p} = live /\ p \in Pages \ L
      BY <1>3, <1>6
    <2>3. HeldBytes(order, live) = HeldBytes(order, L) + y /\ HeldBytes(order, L) \in Int
      BY <1>3, <1>4, <2>2, HeldChange
    <2>4. FreeBytes(nr') + HeldBytes(order', live') = total
      BY <1>1, <1>2, <2>1, <2>2, <2>3
    <2> QED BY <1>1, <2>4 DEF FreeAccounting, Statistics, FreeBytes, HeldBytes
  <1> QED BY <1>5, <1>6

(* One block becomes two of half its size, or two become one.                  *)
LEMMA CutUp ==
  ASSUME IInv, IInv', FreeAccounting, NEW k \in Orders, k - 1 \in Orders, live' = live,
         \A p \in live : order'[p] = order[p], NEW d \in {-1, 1},
         nr'[k] = nr[k] + d, nr'[k - 1] = nr[k - 1] - 2 * d,
         \A j \in Orders \ {k, k - 1} : nr'[j] = nr[j]
  PROVE  FreeAccounting'
PROOF
  <1>1. PICK x \in Int, h \in Int, total \in Int :
          x = FreeBytes(nr) /\ h = HeldBytes(order, live) /\ total = NPages * PageSize
    BY AccountsFacts
  <1>2. x + h = total
    BY <1>1, AccountsFacts
  <1>3. nr \in [Orders -> Int] /\ order \in [Pages -> Orders] /\ live \in SUBSET Pages
    BY AccountsFacts
  <1>4. PICK y \in Int : y = Bytes(k - 1) /\ Bytes(k) = 2 * y
    BY BytesFacts
  <1>5. PICK m : m = [nr EXCEPT ![k] = nr[k] + d]
    OBVIOUS
  <1>6. FreeBytes(m) = x + d * (2 * y)
    <2>1. /\ \A j \in Orders : nr[j] \in Int
          /\ m[k] = nr[k] + d /\ \A j \in Orders \ {k} : m[j] = nr[j]
      BY <1>3, <1>5
    <2>2. FreeBytes(m) = FreeBytes(nr) + d * Bytes(k)
      BY <2>1, FreeChange
    <2> QED BY <1>1, <1>4, <2>2
  <1>7. PICK e \in Int : e = (-2) * d
    OBVIOUS
  <1>8. PICK n, j : n = nr' /\ j = k - 1
    OBVIOUS
  <1>9. FreeBytes(n) = FreeBytes(m) + e * y
    <2>1. k \in Int /\ nr[k] \in Int /\ j \in Orders /\ nr[j] \in Int
      BY <1>3, <1>8, BuddyAssumption DEF Orders
    <2>2. m \in [Orders -> Int] /\ m[k] = nr[k] + d /\ \A i \in Orders \ {k} : m[i] = nr[i]
      BY <1>3, <1>5, <2>1
    <2>3. k # j
      BY <1>8, <2>1
    <2>4. n[j] = m[j] + e
      <3>1. n[j] = nr[j] - 2 * d /\ m[j] = nr[j]
        BY <1>8, <2>1, <2>2, <2>3
      <3> QED BY <1>7, <2>1, <3>1
    <2>5. \A i \in Orders \ {j} : n[i] = m[i]
      <3>1. n[k] = m[k]
        BY <1>8, <2>2
      <3>2. \A i \in Orders \ {k, j} : n[i] = nr[i]
        BY <1>8
      <3> QED BY <2>2, <3>1, <3>2
    <2>6. \A i \in Orders : m[i] \in Int
      BY <2>2
    <2>7. FreeBytes(n) = FreeBytes(m) + e * Bytes(j)
      BY <1>7, <2>1, <2>4, <2>5, <2>6, FreeChange
    <2> QED BY <1>4, <1>8, <2>7
  <1>10. FreeBytes(nr') = x
    <2>1. CASE d = 1
      BY <1>6, <1>7, <1>8, <1>9, <2>1
    <2>2. CASE d = -1
      BY <1>6, <1>7, <1>8, <1>9, <2>2
    <2> QED BY <2>1, <2>2
  <1>11. HeldBytes(order', live') = h
    BY <1>1, <1>3, HeldChange
  <1> QED BY <1>1, <1>2, <1>10, <1>11 DEF FreeAccounting, Statistics, FreeBytes, HeldBytes

LEMMA AccountsStep ==
  ASSUME IInv, IInv', FreeAccounting, [CarelessNext]_vars
  PROVE  FreeAccounting'
PROOF
  <1>0. TypeOK /\ 0 \in Orders /\ Orders \subseteq Int
    BY BuddyAssumption DEF IInv, Orders
  <1>10. nr \in [Orders -> Int]
    BY AccountsFacts
  <1>1. CASE AllocateExact
    <2>1. want \in Orders
      BY <1>0, <1>1, BuddyAssumption DEF TypeOK, AllocateExact, Orders
    <2>2. lists[want] # <<>>
      <3> SUFFICES ASSUME lists[want] = <<>> PROVE FALSE
        OBVIOUS
      <3>1. nr[want] = Len(lists[want])
        BY <2>1 DEF IInv, ListsAgree
      <3> QED BY <1>1, <3>1 DEF AllocateExact
    <2>3. PICK p : p = Head(lists[want])
      OBVIOUS
    <2>4. p \in Pages /\ order[p] = want /\ free[p] = 1
      BY <2>1, <2>2, <2>3, OnList DEF FreeHeads
    <2>5. p \notin live
      BY <2>4, AccountsFacts
    <2>6. order' = order /\ live' = live \cup {p} /\ nr' = [nr EXCEPT ![want] = @ + (-1)]
      BY <1>0, <1>1, <2>1, <2>3 DEF AllocateExact, TypeOK
    <2> QED BY <2>1, <2>4, <2>5, <2>6, HandedOver
  <1>2. CASE SplitDone
    <2>1. want \in Orders /\ page \in FreeHeads(want)
      BY <1>2, BuddyAssumption DEF IInv, CallsSound, SplitDone, Orders
    <2>2. page \in Pages /\ order[page] = want /\ free[page] = 1
      BY <2>1 DEF FreeHeads, Heads
    <2>3. page \notin live
      BY <2>2, AccountsFacts
    <2>4. order' = order /\ live' = live \cup {page} /\ nr' = [nr EXCEPT ![want] = @ + (-1)]
      BY <1>0, <1>2, <2>1 DEF SplitDone, TypeOK
    <2> QED BY <2>1, <2>2, <2>3, <2>4, HandedOver
  <1>3. ASSUME NEW p \in Pages, flag[p] # NoFlag, Kfree(p) PROVE FreeAccounting'
    <2>1. p \in Heads /\ free[p] = 0 /\ order[p] \in Orders
      BY <1>0, <1>3 DEF TypeOK, Kfree, MayFree, Heads, NoFlag, PG_HEAD, PG_TAIL
    <2>2. p \in live
      BY <2>1, AccountsFacts
    <2>3. order' = order /\ live' = live \ {p} /\ nr' = [nr EXCEPT ![order[p]] = @ + 1]
      BY <1>3 DEF Kfree
    <2> QED BY <2>1, <2>2, <2>3, HandedOver
  <1>4. CASE SplitStep
    <2>1. PICK t, p, o, b : /\ t = tmp /\ p = Head(lists[t])
                            /\ o = order[p] - 1 /\ b = p + Span[o]
      OBVIOUS
    <2>2. t \in Orders /\ want \in Orders /\ want < t /\ lists[t] # <<>> /\ t > 0
      BY <1>4, <2>1, BuddyAssumption DEF IInv, CallsSound, SplitStep, Orders
    <2>3. p \in FreeHeads(t) /\ p \in Pages /\ p \in Heads /\ order[p] = t /\ free[p] = 1
      BY <2>1, <2>2, OnList DEF FreeHeads
    <2>4. b \in Pages /\ b \notin Heads /\ t - 1 \in Orders /\ o = t - 1
      BY <2>1, <2>2, <2>3, MiddleFree
    <2>5. /\ order' = [order EXCEPT ![p] = @ - 1, ![b] = o] /\ live' = live
          /\ nr' = [nr EXCEPT ![t] = @ - 1, ![t - 1] = @ + 2]
      BY <1>4, <2>1 DEF SplitStep
    <2>6. p \notin live /\ b \notin live /\ live \subseteq Pages /\ order \in [Pages -> Orders]
      BY <1>0, <2>3, <2>4, AccountsFacts DEF TypeOK
    <2>7. \A q \in live : order'[q] = order[q]
      BY <2>5, <2>6
    <2>8. /\ nr'[t] = nr[t] + (-1) /\ nr'[t - 1] = nr[t - 1] - 2 * (-1)
          /\ \A j \in Orders \ {t, t - 1} : nr'[j] = nr[j]
      <3>1. t \in Int /\ nr[t] \in Int /\ nr[t - 1] \in Int /\ t # t - 1
        BY <1>0, <1>10, <2>2, <2>4
      <3>2. nr'[t] = nr[t] - 1 /\ nr'[t - 1] = nr[t - 1] + 2
        BY <1>10, <2>2, <2>4, <2>5, <3>1
      <3>3. \A j \in Orders \ {t, t - 1} : nr'[j] = nr[j]
        BY <1>10, <2>5
      <3> QED BY <3>1, <3>2, <3>3
    <2> QED BY <2>2, <2>4, <2>5, <2>7, <2>8, CutUp
  <1>5. CASE MergeStep
    <2>1. PICK p, k : p = page /\ k = order[p]
      OBVIOUS
    <2>2. p \in Heads /\ free[p] = 1 /\ p \in Pages /\ k \in Orders
      BY <1>0, <1>5, <2>1 DEF IInv, CallsSound, MergeStep, Heads, TypeOK
    <2>3. k + 1 \in Orders /\ (k + 1) - 1 = k
      <3>1. k < MaxOrder - 1
        BY <1>5, <2>1 DEF MergeStep, CanMerge
      <3>2. MaxOrder \in Nat /\ k \in Nat
        BY <2>2, BuddyAssumption DEF Orders
      <3> QED BY <3>1, <3>2 DEF Orders
    <2>4. /\ order' = [order EXCEPT ![p] = k + 1] /\ live' = live
          /\ nr' = [nr EXCEPT ![k] = @ - 2, ![k + 1] = @ + 1]
      BY <1>5, <2>1 DEF MergeStep
    <2>5. p \notin live /\ live \subseteq Pages /\ order \in [Pages -> Orders]
      BY <1>0, <2>2, AccountsFacts DEF TypeOK
    <2>6. \A q \in live : order'[q] = order[q]
      BY <2>4, <2>5
    <2>7. PICK j \in Orders : j = k + 1 /\ j - 1 = k /\ j - 1 \in Orders
      BY <2>2, <2>3
    <2>8. /\ nr'[j] = nr[j] + 1 /\ nr'[j - 1] = nr[j - 1] - 2 * 1
          /\ \A i \in Orders \ {j, j - 1} : nr'[i] = nr[i]
      <3>1. k \in Int /\ nr[k] \in Int /\ nr[k + 1] \in Int /\ k # k + 1
        BY <1>0, <1>10, <2>2, <2>3
      <3>2. nr'[k] = nr[k] - 2 /\ nr'[k + 1] = nr[k + 1] + 1
        BY <1>10, <2>2, <2>3, <2>4, <3>1
      <3> QED BY <2>4, <2>7, <3>1, <3>2, AccountsFacts
    <2> QED BY <2>4, <2>6, <2>7, <2>8, CutUp
  <1>6. ASSUME UNCHANGED <<order, nr, live>> PROVE FreeAccounting'
    BY <1>6 DEF FreeAccounting, Statistics
  <1>7. CASE AllocateTooLarge \/ AllocateSearch \/ AllocateOverrun \/ MergeDone
    BY <1>6, <1>7 DEF AllocateTooLarge, AllocateSearch, AllocateOverrun, MergeDone, pageVars, listVars
  <1>8. CASE (\E s \in Sizes : Kalloc(s)) \/ (\E p \in Pages : KfreeRejected(p))
    BY <1>6, <1>8 DEF Kalloc, KfreeRejected, pageVars, listVars
  <1>9. CASE Halted \/ UNCHANGED vars
    BY <1>6, <1>9 DEF Halted, vars
  <1> QED BY <1>1, <1>2, <1>3, <1>4, <1>5, <1>7, <1>8, <1>9
        DEF CarelessNext, AllocateOrContinue, Internal

LEMMA InitAccounts == Init => FreeAccounting
PROOF
  <1> SUFFICES ASSUME Init PROVE FreeAccounting
    OBVIOUS
  <1>1. IInv
    BY InitIInv
  <1>2. PICK k : k = MaxOrder - 1
    OBVIOUS
  <1>3. k \in Orders /\ NrChunks \in Nat /\ Span[k] \in Nat /\ PageSize \in Nat
    BY <1>2, BuddyAssumption, SpanFacts DEF Orders
  <1>4. PICK none : none = [j \in Orders |-> 0]
    OBVIOUS
  <1>5. /\ \A j \in Orders : none[j] \in Int
        /\ nr[k] = none[k] + NrChunks /\ \A j \in Orders \ {k} : nr[j] = none[j]
    BY <1>2, <1>3, <1>4 DEF Init
  <1>6. FreeBytes(none) = 0
    <2>1. [j \in Orders |-> none[j] * Bytes(j)] = [j \in Orders |-> 0]
      BY <1>4, BytesFacts
    <2>2. PICK f : f = [j \in Orders |-> 0]
      OBVIOUS
    <2>3. SumFunctionOnSet(f, Orders) = 0
      BY <2>2, BytesFacts, SumZero
    <2> QED BY <2>1, <2>2, <2>3 DEF FreeBytes
  <1>7. FreeBytes(nr) = 0 + NrChunks * Bytes(k)
    <2>1. FreeBytes(nr) = FreeBytes(none) + NrChunks * Bytes(k)
      BY <1>3, <1>5, FreeChange
    <2> QED BY <1>6, <2>1
  <1>8. HeldBytes(order, live) = 0
    <2>1. live = {} /\ IsFiniteSet({})
      BY FS_EmptySet DEF Init
    <2> QED BY <2>1, SumEquation DEF HeldBytes
  <1>9. NrChunks * Bytes(k) = NPages * PageSize /\ NrChunks * Bytes(k) \in Int
    <2>1. \A a, b, c \in Nat : a * (b * c) = (a * c) * b /\ a * (b * c) \in Int
      OBVIOUS
    <2> QED BY <1>2, <1>3, <2>1 DEF Bytes, NPages
  <1> QED BY <1>1, <1>7, <1>8, <1>9, AccountsFacts

(* Free and held memory add up to all of it after every single step, whether   *)
(* callers are careful or not: kalloc and kfree never leak a page.             *)
THEOREM NothingLeaks == CarelessSpec => []FreeAccounting
PROOF
  <1>1. IInv /\ IInv' /\ FreeAccounting /\ [CarelessNext]_vars => FreeAccounting'
    BY AccountsStep
  <1> QED BY <1>1, InitAccounts, CarelessInductive, PTL DEF CarelessSpec

-----------------------------------------------------------------------------
(* The orders of held blocks, and the promise of PageAllocator *)

(* No size wraps the 32-bit page count of size2order. *)
SizesFit == \A s \in Sizes : s \div PageSize < NrPageMod

(* Rounding up is enough: a block of the order size2order picks has room for *)
(* the size (buddy.c:76-87).                                                 *)
LEMMA Size2OrderFits ==
  ASSUME NEW s \in Nat, s \div PageSize < NrPageMod, Size2Order(s) < MaxOrder
  PROVE  s <= Span[Size2Order(s)] * PageSize
PROOF
  <1> DEFINE n == s \div PageSize
             k == FloorLog2(n)
  <1>1. n \in Nat /\ n % NrPageMod = n
    <2>1. \A a, m \in Nat : a < m => a % m = a
      OBVIOUS
    <2>2. n \in Nat /\ NrPageMod \in Nat
      <3>1. PageSize \in Nat \ {0} /\ NrPageMod \in Nat
        BY BuddyAssumption
      <3>2. \A a \in Nat, b \in Nat \ {0} : a \div b \in Nat
        OBVIOUS
      <3> QED BY <3>1, <3>2
    <2> HIDE DEF n
    <2>3. n < NrPageMod
      BY DEF n
    <2> QED BY <2>1, <2>2, <2>3
  <1>2. s < (n + 1) * PageSize
    BY BuddyAssumption
  <1>3. k \in 0 .. MaxOrder /\ (k < MaxOrder => n < 2 * Span[k])
    BY <1>1, FloorLog2Facts
  <1>4. Size2Order(s) = IF s > Span[k] * PageSize THEN k + 1 ELSE k
    BY <1>1 DEF Size2Order
  <1> HIDE DEF n, k
  <1>5. Span[k] \in Nat \ {0} /\ PageSize \in Nat \ {0}
    BY <1>3, SpanFacts, BuddyAssumption
  <1>6. CASE s <= Span[k] * PageSize
    BY <1>4, <1>5, <1>6
  <1>7. CASE s > Span[k] * PageSize
    <2>1. Size2Order(s) = k + 1 /\ k < MaxOrder
      BY <1>3, <1>4, <1>7, BuddyAssumption
    <2>2. Span[k + 1] = 2 * Span[k]
      BY <2>1, <1>3, BuddyAssumption
    <2>3. n + 1 <= Span[k + 1]
      BY <2>1, <2>2, <1>1, <1>3, <1>5
    <2>4. \A a, b, c \in Nat : a <= b => a * c <= b * c
      <3> SUFFICES ASSUME NEW a \in Nat, NEW b \in Nat, NEW c \in Nat, a <= b
                   PROVE  a * c <= b * c
        OBVIOUS
      <3> DEFINE d == b - a
      <3>1. d \in Nat /\ b = a + d
        OBVIOUS
      <3>2. b * c = a * c + d * c /\ a * c \in Nat /\ d * c \in Nat
        BY <3>1
      <3> QED BY <3>2
    <2>5. (n + 1) * PageSize <= Span[k + 1] * PageSize
      BY <2>2, <2>3, <2>4, <1>1, <1>5
    <2>6. (n + 1) * PageSize \in Nat /\ Span[k + 1] * PageSize \in Nat
      BY <2>2, <1>1, <1>5
    <2> QED BY <2>1, <2>5, <2>6, <1>2
  <1> QED BY <1>6, <1>7, <1>5

(* The order kalloc looks for fits the size it was asked for. *)
WantFits ==
  pc \in {"alloc", "split"} /\ want < MaxOrder => size <= Span[want] * PageSize

LEMMA WantFitsStep ==
  ASSUME SizesFit, WantFits, [Next]_vars
  PROVE  WantFits'
PROOF
  <1>1. ASSUME NEW s \in Sizes, Kalloc(s) PROVE WantFits'
    <2> DEFINE r == IF s >= PageSize THEN s ELSE PageSize
    <2>1. size' = s /\ want' = Size2Order(r) /\ s \in Nat
      BY <1>1, BuddyAssumption DEF Kalloc
    <2>2. r \in Nat /\ r \div PageSize < NrPageMod /\ s <= r
      <3>1. CASE s >= PageSize
        BY <3>1, <2>1, BuddyAssumption DEF SizesFit
      <3>2. CASE s < PageSize
        <4>1. PageSize \div PageSize = 1
          BY BuddyAssumption
        <4> QED BY <3>2, <4>1, <2>1, BuddyAssumption
      <3> QED BY <3>1, <3>2, <2>1, BuddyAssumption
    <2> HIDE DEF r
    <2>3. ASSUME want' < MaxOrder PROVE size' <= Span[want'] * PageSize
      <3>1. r <= Span[Size2Order(r)] * PageSize
        BY <2>1, <2>2, <2>3, Size2OrderFits
      <3>2. Span[Size2Order(r)] * PageSize \in Nat
        <4>1. Size2Order(r) \in 0 .. MaxOrder
          <5>1. Size2Order(r) \in 0 .. MaxOrder + 1
            BY <2>2, Size2OrderType
          <5>2. Size2Order(r) < MaxOrder
            BY <2>1, <2>3
          <5> QED BY <5>1, <5>2, BuddyAssumption
        <4>2. Span[Size2Order(r)] \in Nat /\ PageSize \in Nat
          BY <4>1, SpanFacts, BuddyAssumption
        <4> QED BY <4>2
      <3> QED BY <3>1, <3>2, <2>1, <2>2
    <2> QED BY <2>3 DEF WantFits
  <1>2. CASE /\ pc \in {"alloc", "split"} \/ pc' \notin {"alloc", "split"}
             /\ size' = size /\ want' = want
    BY <1>2 DEF WantFits
  <1>3. CASE Internal
    BY <1>2, <1>3
      DEF Internal, AllocateTooLarge, AllocateExact, AllocateSearch, AllocateOverrun,
          SplitStep, SplitDone, MergeStep, MergeDone, callVars, Return, WantFits
  <1>4. CASE Halted \/ UNCHANGED vars
    BY <1>4 DEF Halted, vars, WantFits
  <1>5. ASSUME NEW p \in live, Kfree(p) PROVE WantFits'
    BY <1>2, <1>5 DEF Kfree
  <1> QED BY <1>1, <1>3, <1>4, <1>5 DEF Next, AllocateOrContinue

-----------------------------------------------------------------------------
(* The blocks held, as PageAllocator sees them. *)
Held == {Block(p) : p \in live}

(* A step that hands nothing out and takes nothing back leaves them alone. *)
LEMMA HeldUnchanged ==
  ASSUME live' = live, \A p \in live : order'[p] = order[p]
  PROVE  Held' = Held
  BY DEF Held, Block

LEMMA LiveFacts ==
  ASSUME IInv
  PROVE  /\ live \subseteq Pages
         /\ \A p \in live : flag[p] = PG_HEAD /\ free[p] = 0 /\ p \in Heads
         /\ \A p \in live : Span[order[p]] \in Nat \ {0}
PROOF
  <1>1. TypeOK /\ live \subseteq Pages
    BY DEF IInv, TypeOK
  <1>2. \A p \in live : flag[p] = PG_HEAD /\ free[p] = 0 /\ p \in Heads
    BY DEF IInv, ListsAgree, Heads
  <1>3. \A p \in live : Span[order[p]] \in Nat \ {0}
    BY <1>1, SpanOfPage
  <1> QED BY <1>1, <1>2, <1>3

(* Splitting and merging touch the order of free blocks only. *)
LEMMA SplitKeepsOrders ==
  ASSUME IInv, SplitStep
  PROVE  \A p \in live : order'[p] = order[p]
PROOF
  <1>0. PICK t, q, b : t = tmp /\ q = Head(lists[t]) /\ b = q + Span[order[q] - 1]
    OBVIOUS
  <1>1. t \in Orders /\ lists[t] # <<>> /\ t > 0
    BY <1>0, BuddyAssumption DEF IInv, CallsSound, SplitStep, Orders
  <1>2. q \in Heads /\ free[q] = 1 /\ order[q] = t
    BY <1>0, <1>1, OnList DEF FreeHeads
  <1>3. b \notin Heads
    BY <1>0, <1>1, <1>2, MiddleFree
  <1>4. order' = [order EXCEPT ![q] = @ - 1, ![b] = order[q] - 1]
    BY <1>0 DEF SplitStep
  <1>5. \A p \in live : p # q /\ p # b /\ p \in Pages
    BY <1>2, <1>3, LiveFacts
  <1> QED BY <1>4, <1>5 DEF IInv, TypeOK

LEMMA MergeKeepsOrders ==
  ASSUME IInv, MergeStep
  PROVE  \A p \in live : order'[p] = order[p]
PROOF
  <1>1. order' = [order EXCEPT ![page] = order[page] + 1]
    BY DEF MergeStep
  <1>2. \A p \in live : p # page /\ p \in Pages
    BY LiveFacts DEF IInv, CallsSound, MergeStep
  <1> QED BY <1>1, <1>2 DEF IInv, TypeOK

LEMMA OrderStableStep ==
  ASSUME IInv, [Next]_vars
  PROVE  [\A p \in live' : order'[p] = order[p]]_vars
PROOF
  <1>1. CASE SplitStep
    BY <1>1, SplitKeepsOrders DEF SplitStep
  <1>2. CASE MergeStep
    BY <1>2, MergeKeepsOrders DEF MergeStep
  <1>3. CASE UNCHANGED order
    BY <1>3
  <1> QED BY <1>1, <1>2, <1>3
      DEF Next, AllocateOrContinue, Internal, Kalloc, AllocateTooLarge, AllocateExact,
          AllocateSearch, AllocateOverrun, SplitDone, Kfree, MergeDone, Halted,
          vars, pageVars

(* "p->order should not change, because it will be used in free_page()": a    *)
(* block is freed with the order it was handed out with.                      *)
THEOREM OrdersStable == SafetySpec => OrderStable
PROOF
  <1>1. IInv /\ [Next]_vars => [\A p \in live' : order'[p] = order[p]]_vars
    BY OrderStableStep
  <1> QED BY <1>1, Inductive, PTL DEF SafetySpec, OrderStable

(* Handing out a free block of the wanted order is what PageAllocator grants. *)
LEMMA HandOutGrants ==
  ASSUME IInv, WantFits, pc \in {"alloc", "split"}, want \in Orders,
         NEW q \in FreeHeads(want), live' = live \cup {q}, order' = order,
         pc' = "idle", size \in Nat
  PROVE  Promise!Grant
PROOF
  <1> DEFINE c == Span[want]
  <1>1. q \in Heads /\ q \in Pages /\ order[q] = want /\ free[q] = 1
    BY DEF FreeHeads, Heads
  <1>2. c \in Nat \ {0} /\ size <= c * PageSize
    BY <1>1, SpanOfPage, BuddyAssumption DEF WantFits, IInv, Orders
  <1>3. q + c <= NPages /\ c \in 1 .. NPages
    <2>1. q + c <= NPages
      BY <1>1 DEF IInv, Tiling
    <2>2. q \in Nat
      BY <1>1 DEF Pages
    <2> QED BY <2>1, <2>2, <1>2, SpanFacts
  <1>4. ASSUME NEW p \in live PROVE Promise!Disjoint(<<q, c>>, Block(p))
    <2>1. p \in Heads /\ p # q
      BY <1>1, LiveFacts
    <2>2. Apart(q, p)
      BY <2>1, <1>1 DEF IInv, Tiling
    <2> QED BY <2>2, <1>1 DEF Promise!Disjoint, Apart, Block
  <1>5. Held' = Held \cup {<<q, c>>}
    BY <1>1 DEF Held, Block
  <1>6. \A b \in Held : Promise!Disjoint(<<q, c>>, b)
    BY <1>4 DEF Held
  <1>7. c * PageSize >= size
    <2>1. c * PageSize \in Nat
      BY <1>2, BuddyAssumption
    <2> QED BY <2>1, <1>2
  <1> HIDE DEF c
  <1> QED
    <2>1. Promise!Pages = Pages
      BY DEF Promise!Pages, Pages
    <2>2. pc \notin Stopped /\ pc' \notin Stopped /\ pc' \notin {"alloc", "split"}
      BY DEF Stopped
    <2>3. size # -1
      OBVIOUS
    <2>4. \E first \in Promise!Pages, count \in 1 .. NPages :
            /\ first + count <= NPages
            /\ count * PageSize >= size
            /\ \A b \in Held : Promise!Disjoint(<<first, count>>, b)
            /\ Held' = Held \cup {<<first, count>>}
      BY <1>1, <1>3, <1>5, <1>6, <1>7, <2>1
    <2> HIDE DEF Held
    <2> DEFINE A == IF pc \in {"alloc", "split"} THEN size ELSE -1
    <2>5. A = size /\ A' = -1 /\ Promise!NoRequest = -1
      BY <2>2 DEF Promise!NoRequest
    <2>6. (pc \in Stopped) = FALSE /\ (pc \in Stopped)' = FALSE
      BY <2>2
    <2> QED BY <2>3, <2>4, <2>5, <2>6 DEF Promise!Grant, Held

(* Steps PageAllocator does not see. *)
LEMMA HiddenStep ==
  ASSUME live' = live, \A p \in live : order'[p] = order[p],
         size' = size \/ pc' \notin {"alloc", "split"},
         (pc \in {"alloc", "split"}) = (pc' \in {"alloc", "split"}),
         (pc \in Stopped) = (pc' \in Stopped)
  PROVE  UNCHANGED Promise!vars
PROOF
  <1>1. Held' = Held
    BY HeldUnchanged
  <1> QED BY <1>1 DEF Promise!vars, Held

LEMMA Simulates ==
  ASSUME IInv, WantFits, [Next]_vars
  PROVE  [Promise!Next]_(Promise!vars)
PROOF
  <1> DEFINE A == IF pc \in {"alloc", "split"} THEN size ELSE -1
  <1>0. size \in Nat /\ Promise!NoRequest = -1
    BY DEF IInv, TypeOK, Promise!NoRequest
  <1>1. ASSUME NEW s \in Sizes, Kalloc(s) PROVE Promise!Next
    <2>1. /\ pc = "idle" /\ pc' = "alloc" /\ size' = s /\ live' = live /\ order' = order
      BY <1>1 DEF Kalloc, Idle, pageVars
    <2>2. Held' = Held
      BY <2>1, HeldUnchanged
    <2>3. Promise!Ask(s)
      BY <2>1, <2>2, <1>0 DEF Promise!Ask, Held, Stopped
    <2> QED BY <2>3 DEF Promise!Next
  <1>2. CASE AllocateTooLarge \/ AllocateOverrun
    <2>1. /\ pc = "alloc" /\ pc' \in Stopped /\ size' = size /\ live' = live /\ order' = order
      BY <1>2 DEF AllocateTooLarge, AllocateOverrun, pageVars, callVars, Stopped
    <2>2. Held' = Held
      BY <2>1, HeldUnchanged
    <2>3. Promise!Halt
      <3>1. (pc \in Stopped) = FALSE /\ (pc \in Stopped)' = TRUE
        BY <2>1 DEF Stopped
      <3>2. A = size /\ A' = -1
        BY <2>1 DEF Stopped
      <3> QED BY <1>0, <2>2, <3>1, <3>2 DEF Promise!Halt, Held
    <2> QED BY <2>3 DEF Promise!Next
  <1>3. CASE AllocateExact
    <2>1. want \in Orders /\ lists[want] # <<>>
      <3>1. want \in Orders
        BY <1>3, BuddyAssumption DEF IInv, TypeOK, AllocateExact, Orders
      <3>2. nr[want] = Len(lists[want]) /\ nr[want] > 0
        BY <1>3, <3>1 DEF IInv, ListsAgree, AllocateExact
      <3> QED BY <3>1, <3>2
    <2>2. PICK q : q = Head(lists[want])
      OBVIOUS
    <2>3. q \in FreeHeads(want)
      BY <2>1, <2>2, OnList
    <2>4. /\ pc = "alloc" /\ pc' = "idle" /\ live' = live \cup {q} /\ order' = order
      BY <1>3, <2>2 DEF AllocateExact, Return
    <2>5. Promise!Grant
      BY <2>1, <2>3, <2>4, <1>0, HandOutGrants
    <2> QED BY <2>5 DEF Promise!Next
  <1>4. CASE AllocateSearch
    <2>1. /\ pc = "alloc" /\ pc' = "split" /\ size' = size /\ live' = live /\ order' = order
      BY <1>4 DEF AllocateSearch, pageVars
    <2> QED BY <2>1, HiddenStep DEF Stopped
  <1>5. CASE SplitStep
    <2>1. /\ pc = "split" /\ pc' = "split" /\ size' = size /\ live' = live
      BY <1>5 DEF SplitStep
    <2> QED BY <2>1, <1>5, SplitKeepsOrders, HiddenStep
  <1>6. CASE SplitDone
    <2>1. want \in Orders /\ page \in FreeHeads(want)
      BY <1>6, BuddyAssumption DEF IInv, CallsSound, SplitDone, Orders
    <2>2. PICK q : q = page
      OBVIOUS
    <2>3. /\ pc = "split" /\ pc' = "idle" /\ live' = live \cup {q} /\ order' = order
      BY <1>6, <2>2 DEF SplitDone, Return
    <2>4. Promise!Grant
      BY <2>1, <2>2, <2>3, <1>0, HandOutGrants
    <2> QED BY <2>4 DEF Promise!Next
  <1>7. CASE MergeStep
    <2>1. /\ pc = "merge" /\ pc' = "merge" /\ size' = size /\ live' = live
      BY <1>7 DEF MergeStep, callVars
    <2> QED BY <2>1, <1>7, MergeKeepsOrders, HiddenStep
  <1>8. CASE MergeDone
    <2>1. /\ pc = "merge" /\ pc' = "idle" /\ live' = live /\ order' = order
      BY <1>8 DEF MergeDone, Return, pageVars
    <2> QED BY <2>1, HiddenStep DEF Stopped
  <1>9. ASSUME NEW p \in live, Kfree(p) PROVE Promise!Next
    <2>1. /\ pc = "idle" /\ pc' = "merge" /\ live' = live \ {p} /\ order' = order
      BY <1>9 DEF Kfree, Idle
    <2>2. Held' = Held \ {Block(p)} /\ Block(p) \in Held
      BY <2>1 DEF Held, Block
    <2>3. Promise!Release(Block(p))
      BY <2>1, <2>2, <1>0 DEF Promise!Release, Held, Stopped
    <2> QED BY <2>2, <2>3 DEF Promise!Next, Held
  <1>10. CASE Halted \/ UNCHANGED vars
    BY <1>10, HiddenStep DEF Halted, vars
  <1> QED BY <1>1, <1>2, <1>3, <1>4, <1>5, <1>6, <1>7, <1>8, <1>9, <1>10
      DEF Next, AllocateOrContinue, Internal

(* The buddy allocator keeps the safety part of what PageAllocator promises,  *)
(* provided no request is so large that its page count wraps.                 *)
THEOREM Implements == ASSUME SizesFit PROVE SafetySpec => Promise!SafetySpec
PROOF
  <1>1. Init => Promise!Init /\ WantFits
    BY DEF Init, Promise!Init, Promise!NoRequest, Stopped, WantFits
  <1>2. IInv /\ WantFits /\ [Next]_vars => WantFits' /\ [Promise!Next]_(Promise!vars)
    BY WantFitsStep, Simulates
  <1> QED BY <1>1, <1>2, Inductive, PTL DEF SafetySpec, Promise!SafetySpec
=============================================================================
