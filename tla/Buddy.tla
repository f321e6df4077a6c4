------------------------------- MODULE Buddy -------------------------------
(***************************************************************************)
(* The page allocator: kalloc and kfree of kernel/mm/pmm.c over the buddy  *)
(* allocator of kernel/mm/buddy.c.                                         *)
(*                                                                         *)
(* A page is its index in the array pages[].  The fields order, free and   *)
(* flag of struct Page are three functions on pages, the list_link fields  *)
(* and the heads of buddy_lists[] are one sequence of pages per order, and *)
(* buddy_lists[].nr is a function of its own because the code keeps it by  *)
(* hand beside the lists.  Sizes in pages are Span[order] = 2^order.       *)
(*                                                                         *)
(* One call runs to its end before the next one starts (the kernel does    *)
(* not preempt itself and runs on one CPU), so the state has one program   *)
(* counter; the iterations of the two loops are steps of their own.  What  *)
(* a call does before and after its loop is one step.                      *)
(***************************************************************************)
EXTENDS Integers, Sequences, SequencesExt

CONSTANTS
  NrChunks,    (* chunks of the largest order; 2 in the code               *)
  MaxOrder,    (* BUDDY_MAX_ORDER: orders are 0 .. MaxOrder - 1; 14        *)
  Span,        (* Span[k] = 2^k, for k in 0 .. MaxOrder                    *)
  PageSize,    (* BUDDY_PAGE_SIZE and PGSIZE; 4096                         *)
  NrPageMod,   (* nr_page of size2order is a uint: 2^32                    *)
  Sizes        (* the sizes callers of kalloc ask for, in bytes            *)

ASSUME BuddyAssumption ==
  /\ NrChunks \in Nat \ {0}
  /\ MaxOrder \in Nat \ {0}
  /\ Span \in [0 .. MaxOrder -> Nat \ {0}]
  /\ Span[0] = 1
  /\ \A k \in 0 .. MaxOrder - 1 : Span[k + 1] = 2 * Span[k]
  /\ PageSize \in Nat \ {0}
  /\ NrPageMod \in Nat \ {0, 1}
  /\ Sizes \subseteq Nat

Orders == 0 .. MaxOrder - 1
NPages == NrChunks * Span[MaxOrder - 1]     \* npage
Pages  == 0 .. NPages - 1

(* Values of struct Page.flag; a page that never headed a block has NoFlag. *)
NoFlag  == 0
PG_HEAD == 1
PG_TAIL == 2

VARIABLES
  order,       (* pages[p].order                                           *)
  free,        (* pages[p].free                                            *)
  flag,        (* pages[p].flag                                            *)
  lists,       (* the pages linked from buddy_lists[k].head, in order      *)
  nr,          (* buddy_lists[k].nr                                        *)
  live,        (* ghost: the pages returned by kalloc and not freed since  *)
  pc,          (* where the call under way stands                          *)
  size,        (* argument of kalloc                                       *)
  want,        (* size2order of it: `order`, later `order_small`           *)
  tmp,         (* `tmp` of buddy_split                                     *)
  page         (* `p` of buddy_split and of buddy_free_page                *)

pageVars == <<order, free, flag>>
listVars == <<lists, nr>>
callVars == <<size, want, tmp, page>>
vars == <<order, free, flag, lists, nr, live, pc, size, want, tmp, page>>

(* "panic": the kernel loops for ever in panic(). "wild": it works on a list *)
(* head read from beyond buddy_lists[], and nothing can be said any more.    *)
Stopped == {"panic", "wild"}
Running == {"alloc", "split", "merge"}

-----------------------------------------------------------------------------
(* Helpers of the code. An operator X_Slip is X with a slip a programmer could  *)
(* make; it is used nowhere, and stands in for X to show that a property fails. *)

(* buddy_pages_init and buddy_lists_init: memory is a row of free chunks of *)
(* the largest order; the pages inside a chunk are never marked PG_TAIL.    *)
Chunk(i) == (i - 1) * Span[MaxOrder - 1]
ChunkHeads == {Chunk(i) : i \in 1 .. NrChunks}

Init ==
  /\ order = [p \in Pages |-> IF p \in ChunkHeads THEN MaxOrder - 1 ELSE 0]
  /\ free  = [p \in Pages |-> IF p \in ChunkHeads THEN 1 ELSE 0]
  /\ flag  = [p \in Pages |-> IF p \in ChunkHeads THEN PG_HEAD ELSE NoFlag]
  /\ lists = [k \in Orders |->
                IF k = MaxOrder - 1
                THEN [i \in 1 .. NrChunks |-> Chunk(i)]
                ELSE <<>>]
  /\ nr    = [k \in Orders |-> IF k = MaxOrder - 1 THEN NrChunks ELSE 0]
  /\ live  = {}
  /\ pc    = "idle"
  /\ size = 0 /\ want = 0 /\ tmp = 0 /\ page = 0

(* The shifts of size2order: floor(log2(n)). Every order from MaxOrder on is *)
(* refused alike, so the logarithm is not told apart beyond MaxOrder.        *)
FloorLog2(n) ==
  CHOOSE k \in 0 .. MaxOrder :
    /\ k = 0 \/ Span[k] <= n
    /\ k = MaxOrder \/ n < 2 * Span[k]

Size2Order_NoRoundUp(s) == FloorLog2((s \div PageSize) % NrPageMod)

Size2Order(s) ==
  LET k == FloorLog2((s \div PageSize) % NrPageMod)
  IN  IF s > Span[k] * PageSize THEN k + 1 ELSE k

(* list_del of the node of p. *)
ListDel_First(l, p) == Tail(l)

ListDel(l, p) == RemoveFirst(l, p)

(* get_buddy_page: always the neighbour on the right. *)
BuddyPage_Left(p) == p - Span[order[p]]

BuddyPage(p) == p + Span[order[p]]

(* The condition of the merge loop of buddy_free_page. The page right after *)
(* the last one is read too, beyond pages[]: the linker puts zeroed memory  *)
(* there, so its `free` is 0 and the condition false.                       *)
CanMerge_AnyOrder(p) ==
  LET b == BuddyPage(p)
  IN  /\ order[p] < MaxOrder - 1
      /\ b \in Pages
      /\ free[b] = 1
      /\ flag[b] = PG_HEAD

CanMerge_NoLimit(p) ==
  LET b == BuddyPage(p)
  IN  /\ b \in Pages
      /\ free[b] = 1
      /\ flag[b] = PG_HEAD
      /\ order[b] = order[p]

CanMerge(p) ==
  LET b == BuddyPage(p)
  IN  /\ order[p] < MaxOrder - 1
      /\ b \in Pages
      /\ free[b] = 1
      /\ flag[b] = PG_HEAD
      /\ order[b] = order[p]

-----------------------------------------------------------------------------
(* kalloc *)

Idle == pc = "idle"

(* A call comes back, and its locals are gone. *)
Return ==
  /\ pc' = "idle"
  /\ size' = 0 /\ want' = 0 /\ tmp' = 0 /\ page' = 0

(* Anything smaller than a page is rounded up to one. *)
Kalloc(s) ==
  /\ Idle
  /\ pc' = "alloc"
  /\ size' = s
  /\ want' = Size2Order(IF s >= PageSize THEN s ELSE PageSize)
  /\ UNCHANGED <<pageVars, listVars, live, tmp, page>>

AllocateTooLarge ==
  /\ pc = "alloc"
  /\ want >= MaxOrder
  /\ pc' = "panic"
  /\ UNCHANGED <<pageVars, listVars, live, callVars>>

(* A block of the wanted order is free: take the first one of its list. *)
AllocateExact_NrKept ==
  /\ pc = "alloc"
  /\ want < MaxOrder
  /\ nr[want] > 0
  /\ LET p == Head(lists[want])
     IN  /\ lists' = [lists EXCEPT ![want] = Tail(@)]
         /\ free' = [free EXCEPT ![p] = 0]
         /\ live' = live \cup {p}
  /\ Return
  /\ UNCHANGED <<order, flag, nr>>

AllocateExact ==
  /\ pc = "alloc"
  /\ want < MaxOrder
  /\ nr[want] > 0
  /\ LET p == Head(lists[want])
     IN  /\ lists' = [lists EXCEPT ![want] = Tail(@)]
         /\ free' = [free EXCEPT ![p] = 0]
         /\ live' = live \cup {p}
  /\ nr' = [nr EXCEPT ![want] = @ - 1]
  /\ Return
  /\ UNCHANGED <<order, flag>>

(* None is: find the next larger order that has one, and split it. *)
Larger_Empty == want + 1 .. MaxOrder - 1

Larger == {k \in want + 1 .. MaxOrder - 1 : nr[k] # 0}

AllocateSearch ==
  /\ pc = "alloc"
  /\ want < MaxOrder
  /\ nr[want] = 0
  /\ \E k \in Larger : (\A j \in Larger : k <= j) /\ tmp' = k
  /\ pc' = "split"
  /\ UNCHANGED <<pageVars, listVars, live, size, want, page>>

(* No larger block is free. The loop's test is order > BUDDY_MAX_ORDER, so it *)
(* reads buddy_lists[BUDDY_MAX_ORDER].nr, one past the array: 0 ends the      *)
(* search one order later and panics, anything else is split as if a block    *)
(* were there.                                                                *)
AllocateOverrun ==
  /\ pc = "alloc"
  /\ want < MaxOrder
  /\ nr[want] = 0
  /\ Larger = {}
  /\ tmp' = MaxOrder
  /\ pc' \in Stopped
  /\ UNCHANGED <<pageVars, listVars, live, size, want, page>>

-----------------------------------------------------------------------------
(* buddy_split. Its two panics on entry (an empty list, order 0) cannot be    *)
(* reached from AllocateSearch, and the one after the loop (p->order is not   *)
(* order_small) never is: CallsSound below.                                  *)

(* One iteration: the first block of order tmp becomes two of order tmp - 1. *)
SplitStep ==
  /\ pc = "split"
  /\ tmp > want
  /\ LET p == Head(lists[tmp])
         b == p + Span[order[p] - 1]
     IN  /\ order' = [order EXCEPT ![p] = @ - 1, ![b] = order[p] - 1]
         /\ free'  = [free EXCEPT ![p] = 1, ![b] = 1]
         /\ flag'  = [flag EXCEPT ![p] = PG_HEAD, ![b] = PG_HEAD]
         /\ lists' = [lists EXCEPT ![tmp] = Tail(@),
                                   ![tmp - 1] = Append(Append(@, p), b)]
         /\ nr'    = [nr EXCEPT ![tmp] = @ - 1, ![tmp - 1] = @ + 2]
         /\ page'  = p
  /\ tmp' = tmp - 1
  /\ UNCHANGED <<live, pc, size, want>>

(* The block split last is of the wanted order: hand it out. *)
SplitDone ==
  /\ pc = "split"
  /\ tmp <= want
  /\ free'  = [free EXCEPT ![page] = 0]
  /\ lists' = [lists EXCEPT ![want] = ListDel(@, page)]
  /\ nr'    = [nr EXCEPT ![want] = @ - 1]
  /\ live'  = live \cup {page}
  /\ Return
  /\ UNCHANGED <<order, flag>>

-----------------------------------------------------------------------------
(* kfree *)

MayFree(p) == flag[p] # PG_TAIL /\ free[p] # 1

Kfree(p) ==
  /\ Idle
  /\ MayFree(p)
  /\ free'  = [free EXCEPT ![p] = 1]
  /\ lists' = [lists EXCEPT ![order[p]] = Append(@, p)]
  /\ nr'    = [nr EXCEPT ![order[p]] = @ + 1]
  /\ live'  = live \ {p}
  /\ page'  = p
  /\ pc' = "merge"
  /\ UNCHANGED <<order, flag, size, want, tmp>>

KfreeRejected(p) ==
  /\ Idle
  /\ ~MayFree(p)
  /\ pc' = "panic"
  /\ UNCHANGED <<pageVars, listVars, live, callVars>>

(* One iteration: page swallows its right neighbour. *)
MergeStep ==
  /\ pc = "merge"
  /\ CanMerge(page)
  /\ LET b == BuddyPage(page)
         k == order[page]
     IN  /\ flag'  = [flag EXCEPT ![b] = PG_TAIL]
         /\ order' = [order EXCEPT ![page] = k + 1]
         /\ lists' = [lists EXCEPT ![k] = ListDel(ListDel(@, b), page),
                                   ![k + 1] = Append(@, page)]
         /\ nr'    = [nr EXCEPT ![k] = @ - 2, ![k + 1] = @ + 1]
  /\ UNCHANGED <<free, live, pc, callVars>>

MergeDone_NoBreak ==
  /\ pc = "merge"
  /\ ~CanMerge(page)
  /\ UNCHANGED vars

MergeDone ==
  /\ pc = "merge"
  /\ ~CanMerge(page)
  /\ Return
  /\ UNCHANGED <<pageVars, listVars, live>>

(* panic() is an endless loop; after a wild list access nothing is claimed. *)
Halted ==
  /\ pc \in Stopped
  /\ UNCHANGED vars

-----------------------------------------------------------------------------
(* The steps the allocator takes by itself once it is called. *)
Internal ==
  \/ AllocateTooLarge
  \/ AllocateExact
  \/ AllocateSearch
  \/ AllocateOverrun
  \/ SplitStep
  \/ SplitDone
  \/ MergeStep
  \/ MergeDone

AllocateOrContinue ==
  \/ \E s \in Sizes : Kalloc(s)
  \/ Internal
  \/ Halted

(* The kernel's own use: a caller frees a block it holds. *)
Next == AllocateOrContinue \/ \E p \in live : Kfree(p)

(* Careless callers free any page that was a block once: twice, or through a *)
(* pointer kept after the page went to somebody else.                        *)
CarelessNext ==
  \/ AllocateOrContinue
  \/ \E p \in {q \in Pages : flag[q] # NoFlag} : Kfree(p) \/ KfreeRejected(p)

SafetySpec   == Init /\ [][Next]_vars
CarelessSpec == Init /\ [][CarelessNext]_vars

(* The CPU keeps executing a call that has started. *)
Spec == SafetySpec /\ WF_vars(Internal)

-----------------------------------------------------------------------------
(* Properties *)

Heads == {p \in Pages : flag[p] = PG_HEAD}
FreeHeads(k) == {p \in Heads : free[p] = 1 /\ order[p] = k}

(* Types. page and tmp are only looked at inside a call. *)
TypeOK ==
  /\ order \in [Pages -> Orders]
  /\ free \in [Pages -> {0, 1}]
  /\ flag \in [Pages -> {NoFlag, PG_HEAD, PG_TAIL}]
  /\ lists \in [Orders -> Seq(Pages)]
  /\ nr \in [Orders -> Nat]
  /\ live \subseteq Pages
  /\ pc \in {"idle"} \cup Running \cup Stopped
  /\ size \in Nat
  /\ want \in 0 .. MaxOrder + 1
  /\ tmp \in 0 .. MaxOrder
  /\ page \in Pages

(* The blocks, free and held, cut memory up without a gap and without an       *)
(* overlap, after every single step of splitting and merging: two callers      *)
(* never share a page and no page is lost (buddy_split, buddy_free_page).      *)
Apart(p, q) == p + Span[order[p]] <= q \/ q + Span[order[q]] <= p

Tiling ==
  /\ \A p \in Heads : p + Span[order[p]] <= NPages
  /\ \A p, q \in Heads : p # q => Apart(p, q)
  /\ \A i \in Pages : \E p \in Heads : p <= i /\ i < p + Span[order[p]]

(* The three records of "this block is free" agree: the flags in pages[], the *)
(* lists, and the counters nr (the bugs 1 to 3 that buddy.c lists at its      *)
(* top); and what is not free is held by somebody.                            *)
ListsAgree ==
  /\ \A k \in Orders :
       /\ ToSet(lists[k]) = FreeHeads(k)
       /\ IsInjective(lists[k])
       /\ nr[k] = Len(lists[k])
  /\ live = {p \in Heads : free[p] = 0}

(* The panics of buddy_split cannot happen (buddy.c:104-107 and 138): there is *)
(* a block at every order it comes down to, and the one it stops at is free,  *)
(* linked, and of the order that was asked for. A block being merged is free  *)
(* and linked all along.                                                      *)
CallsSound ==
  /\ pc = "split" =>
       /\ want \in Orders /\ tmp \in Orders /\ want <= tmp
       /\ tmp > want => lists[tmp] # <<>>
       /\ tmp = want => page \in FreeHeads(want)
  /\ pc = "merge" => page \in Heads /\ free[page] = 1

(* buddy_statistics: the bytes on the free lists, by the counters. *)
Bytes(k) == PageSize * Span[k]

Statistics == SumFunctionOnSet([k \in Orders |-> nr[k] * Bytes(k)], Orders)

(* What buddy_statistics reports and what callers hold add up to all of      *)
(* memory after every single step: nothing leaks, whatever the history of    *)
(* splits and of merges to the right only.                                   *)
FreeAccounting ==
  Statistics + SumFunctionOnSet([p \in live |-> Bytes(order[p])], live)
    = NPages * PageSize

(* "p->order should not change, because it will be used in free_page()": the *)
(* order a block is handed out with stays with it until it is freed,         *)
(* whatever is split or merged around it.                                    *)
OrderStable == [][\A p \in live' : order'[p] = order[p]]_vars

(* Every call of kalloc or kfree comes back or stops the kernel: the search, *)
(* the splitting and the merging loops end.                                  *)
CallReturns == pc \in Running ~> pc \notin Running

(* The allocator keeps the promise of PageAllocator. *)
Block(p) == <<p, Span[order[p]]>>

Promise == INSTANCE PageAllocator WITH
  held   <- {Block(p) : p \in live},
  asked  <- IF pc \in {"alloc", "split"} THEN size ELSE -1,
  halted <- pc \in Stopped

KeepsPromise == Promise!Spec
=============================================================================
