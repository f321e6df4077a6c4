------------------------------ MODULE SpinLock ------------------------------
(***************************************************************************)
(* struct spinlock of kernel/sync/lock.c. acquire() looks at the lock once  *)
(* before it spins on the atomic swap, release() looks before it stores 0;  *)
(* both panic on what they see, so the look and the swap or store are       *)
(* separate steps here. The code runs on one CPU today, where the other     *)
(* party is an interrupt handler; the lock is modelled for any set of CPUs, *)
(* of which a handler and the code it interrupts are a special case with    *)
(* fewer interleavings.                                                     *)
(***************************************************************************)
EXTENDS Integers, FiniteSets, TLAPS

CONSTANT CPU      (* whoever may call acquire and release               *)

VARIABLES
  locked,         (* s->locked                                           *)
  at              (* where each CPU stands in its use of the lock        *)

vars == <<locked, at>>

(* "out": not using the lock.  "swap": acquire() has looked and spins on     *)
(* the swap.  "in": between acquire() and release().  "store": release() has *)
(* looked and is about to store 0.  "relock", "rerelease": the two panics.   *)
Places == {"out", "swap", "in", "store", "relock", "rerelease"}

Init == locked = 0 /\ at = [c \in CPU |-> "out"]

(* An operator X_Slip is X with a slip a programmer could make; it is used    *)
(* nowhere, and stands in for X to show that a property can fail.             *)

(* holding(): the lock is taken, by whomever. *)
holding == locked = 1

Go(c, place) == at' = [at EXCEPT ![c] = place]

(* acquire() *)
AcquireCheck(c) ==
  /\ at[c] = "out"
  /\ Go(c, IF holding THEN "relock" ELSE "swap")
  /\ UNCHANGED locked

(* __sync_lock_test_and_set found 0: the lock is ours. While it finds 1 the  *)
(* loop goes round without a change of state.                                *)
Swap_Adds(c) ==
  /\ at[c] = "swap"
  /\ locked' = locked + 1
  /\ Go(c, "in")

Swap(c) ==
  /\ at[c] = "swap"
  /\ locked = 0
  /\ locked' = 1
  /\ Go(c, "in")

(* release() *)
ReleaseCheck(c) ==
  /\ at[c] = "in"
  /\ Go(c, IF holding THEN "store" ELSE "rerelease")
  /\ UNCHANGED locked

Store_Lost(c) ==
  /\ at[c] = "store"
  /\ Go(c, "out")
  /\ UNCHANGED locked

Store(c) ==
  /\ at[c] = "store"
  /\ locked' = 0
  /\ Go(c, "out")

Step(c) == AcquireCheck(c) \/ Swap(c) \/ ReleaseCheck(c) \/ Store(c)

Next == \E c \in CPU : Step(c)

SafetySpec == Init /\ [][Next]_vars

(* A CPU that is inside acquire() or release(), or that holds the lock, goes *)
(* on executing; nobody has to ask for the lock.                             *)
Spec == SafetySpec /\ \A c \in CPU : WF_vars(Swap(c) \/ ReleaseCheck(c) \/ Store(c))

-----------------------------------------------------------------------------
Holders == {c \in CPU : at[c] \in {"in", "store"}}

TypeOK == locked \in {0, 1} /\ at \in [CPU -> Places]

(* At most one CPU is between acquire() and release(). *)
MutualExclusion == \A c, d \in Holders : c = d

(* The lock word is set exactly while somebody holds the lock, and so the    *)
(* "re-release" panic never happens to callers that pair their calls.        *)
WordMatchesHolder == (locked = 1 <=> Holders # {}) /\ \A c \in CPU : at[c] # "rerelease"

(* A CPU spinning on the swap is not left alone with a lock nobody releases: *)
(* somebody gets in, again and again. (Not necessarily the one who spins:    *)
(* the swap is not fair.)                                                    *)
SomebodyGetsIn == (\E c \in CPU : at[c] = "swap") ~> Holders # {}

-----------------------------------------------------------------------------
(* Proofs, for any set of CPUs *)

(* The three facts that carry each other. *)
LockInv ==
  /\ TypeOK
  /\ MutualExclusion
  /\ WordMatchesHolder

LEMMA LockInductive == SafetySpec => []LockInv
PROOF
  <1>1. Init => LockInv
    BY DEF Init, LockInv, TypeOK, MutualExclusion, WordMatchesHolder, Holders, Places
  <1>2. LockInv /\ [Next]_vars => LockInv'
    <2> SUFFICES ASSUME LockInv, [Next]_vars PROVE LockInv'
      OBVIOUS
    <2>0. TypeOK
      BY DEF LockInv
    <2>1. ASSUME NEW c \in CPU, AcquireCheck(c) PROVE LockInv'
      <3>1. locked' = locked /\ at' = [at EXCEPT ![c] = IF holding THEN "relock" ELSE "swap"]
        BY <2>1 DEF AcquireCheck, Go
      <3>2. Holders' = Holders
        BY <2>0, <2>1, <3>1 DEF TypeOK, Holders, AcquireCheck
      <3> QED BY <2>0, <3>1, <3>2
            DEF LockInv, TypeOK, MutualExclusion, WordMatchesHolder, Places
    <2>2. ASSUME NEW c \in CPU, Swap(c) PROVE LockInv'
      <3>1. locked = 0 /\ locked' = 1 /\ at' = [at EXCEPT ![c] = "in"]
        BY <2>2 DEF Swap, Go
      <3>2. Holders = {} /\ Holders' = {c}
        BY <2>0, <3>1 DEF LockInv, WordMatchesHolder, TypeOK, Holders
      <3> QED BY <2>0, <3>1, <3>2
            DEF LockInv, TypeOK, MutualExclusion, WordMatchesHolder, Places
    <2>3. ASSUME NEW c \in CPU, ReleaseCheck(c) PROVE LockInv'
      <3>1. c \in Holders /\ locked = 1
        BY <2>0, <2>3 DEF LockInv, WordMatchesHolder, Holders, ReleaseCheck
      <3>2. locked' = locked /\ at' = [at EXCEPT ![c] = "store"]
        BY <2>3, <3>1 DEF ReleaseCheck, Go, holding
      <3>3. Holders' = Holders
        BY <2>0, <2>3, <3>2 DEF TypeOK, Holders, ReleaseCheck
      <3> QED BY <2>0, <3>2, <3>3
            DEF LockInv, TypeOK, MutualExclusion, WordMatchesHolder, Places
    <2>4. ASSUME NEW c \in CPU, Store(c) PROVE LockInv'
      <3>1. locked' = 0 /\ at' = [at EXCEPT ![c] = "out"] /\ c \in Holders
        BY <2>4 DEF Store, Go, Holders
      <3>2. Holders = {c}
        BY <3>1 DEF LockInv, MutualExclusion
      <3>3. Holders' = {}
        BY <2>0, <3>1, <3>2 DEF TypeOK, Holders
      <3> QED BY <2>0, <3>1, <3>3
            DEF LockInv, TypeOK, MutualExclusion, WordMatchesHolder, Places
    <2>5. CASE UNCHANGED vars
      BY <2>5 DEF vars, LockInv, TypeOK, MutualExclusion, WordMatchesHolder, Holders
    <2> QED BY <2>1, <2>2, <2>3, <2>4, <2>5 DEF Next, Step
  <1> QED BY <1>1, <1>2, PTL DEF SafetySpec

(* Two CPUs are never both between acquire() and release(), however many     *)
(* CPUs there are.                                                           *)
THEOREM LockExcludes == SafetySpec => []MutualExclusion
PROOF
  <1>1. LockInv => MutualExclusion
    BY DEF LockInv
  <1> QED BY <1>1, LockInductive, PTL

(* The word is set exactly while the lock is held: the look release() takes   *)
(* never panics.                                                              *)
THEOREM WordIsRight == SafetySpec => []WordMatchesHolder
PROOF
  <1>1. LockInv => WordMatchesHolder
    BY DEF LockInv
  <1> QED BY <1>1, LockInductive, PTL
=============================================================================
