---------------------------- MODULE KernelProofs ----------------------------
(***************************************************************************)
(* Proofs about Kernel, for every number of tasks, counter width, set of    *)
(* values and program length. The inductive invariant adds to TypeOK and    *)
(* UserReady what holds on the way to the first process: before execve      *)
(* there is no process and memory is clear, after it the current one is     *)
(* alive. TicksAccounted is inductive with it, and with it every step of    *)
(* the kernel is a step of Processes.                                       *)
(***************************************************************************)
EXTENDS Kernel, SumFacts, TLAPS

Boot ==
  /\ at = "boot" => current = NoTask /\ alive = {} /\ \A p \in Pids : context[p].a0 = 0 /\ mem[p] = 0
  /\ at = "ready" => current \in alive

KInv == TypeOK /\ UserReady /\ Boot

-----------------------------------------------------------------------------
(* Loops that look for a task *)

LEMMA PidsFacts == Pids \subseteq Nat /\ NoTask \notin Pids
PROOF
  BY KernelAssumption DEF Pids, NoTask

(* alloc_pid finds a free number if there is one. *)
LEMMA NewPidFree ==
  ASSUME FreePids # {}
  PROVE  NewPid \in Pids /\ NewPid \notin alive
PROOF
  <1>1. FreePids \in SUBSET Nat
    BY PidsFacts DEF FreePids
  <1>2. \E p \in FreePids : \A q \in FreePids : p <= q
    BY <1>1, SumFold!NatLeast
  <1>3. NewPid \in FreePids
    BY <1>2 DEF NewPid
  <1> QED BY <1>3 DEF FreePids

(* schedule() stays with the current task or finds a live one. *)
LEMMA NextTaskAlive ==
  ASSUME alive \subseteq Pids, current \in alive, NEW cnt
  PROVE  NextTask(cnt) \in alive
PROOF
  <1>1. CASE Candidates(cnt) = {}
    BY <1>1 DEF NextTask
  <1>2. CASE Candidates(cnt) # {}
    <2>1. Candidates(cnt) \in SUBSET Nat /\ Candidates(cnt) \subseteq alive
      BY PidsFacts DEF Candidates
    <2>2. \E p \in Candidates(cnt) : \A q \in Candidates(cnt) : p <= q
      BY <1>2, <2>1, SumFold!NatLeast
    <2> QED BY <1>2, <2>1, <2>2 DEF NextTask
  <1> QED BY <1>1, <1>2

LEMMA ContextFacts ==
  ASSUME NEW c \in Contexts
  PROVE  /\ c = [sepc |-> c.sepc, a0 |-> c.a0]
         /\ Advance(c) = [sepc |-> (c.sepc + 1) % PcMod, a0 |-> c.a0]
         /\ Advance(c) \in Contexts
PROOF
  <1>1. c = [sepc |-> c.sepc, a0 |-> c.a0] /\ c.sepc \in 0 .. PcMod
    BY DEF Contexts
  <1>2. (c.sepc + 1) % PcMod \in 0 .. PcMod
    BY <1>1, KernelAssumption
  <1> QED BY <1>1, <1>2 DEF Contexts, Advance

LEMMA RegsInContexts == KernelRegs \in Contexts /\ [sepc |-> 0, a0 |-> 0] \in Contexts
PROOF
  BY KernelAssumption DEF KernelRegs, KernelPc, Contexts

-----------------------------------------------------------------------------
(* One lemma per group of actions: KInv is inductive *)

LEMMA InitKInv == Init => KInv
PROOF
  <1> SUFFICES ASSUME Init PROVE KInv
    OBVIOUS
  <1>1. TypeOK
    BY RegsInContexts, KernelAssumption DEF Init, TypeOK, Places, Stopped, Causes, NoTask
  <1>2. UserReady /\ Boot
    BY DEF Init, UserReady, Boot
  <1> QED BY <1>1, <1>2 DEF KInv

LEMMA BootStep ==
  ASSUME KInv, Execve \/ ExecveFails \/ SwitchTo
  PROVE  KInv'
PROOF
  <1>0. TypeOK /\ UserReady /\ Boot
    BY DEF KInv
  <1>1. CASE Execve
    <2>1. NewPid \in Pids /\ NewPid \notin alive
      BY <1>1, NewPidFree DEF Execve
    <2> HIDE DEF NewPid
    <2>2. context' \in [Pids -> Contexts]
      <3> DEFINE c == context[NewPid]
      <3>1. c \in Contexts
        BY <1>0, <2>1 DEF TypeOK
      <3>2. [c EXCEPT !.sepc = 0] \in Contexts
        BY <3>1, KernelAssumption DEF Contexts
      <3>3. context' = [context EXCEPT ![NewPid] = [c EXCEPT !.sepc = 0]]
        BY <1>1 DEF Execve
      <3> HIDE DEF c
      <3> QED BY <1>0, <3>2, <3>3 DEF TypeOK
    <2>3. counter' \in [Pids -> 0 .. CounterMod - 1]
      <3>1. InitialCounter \in 0 .. CounterMod - 1
        BY KernelAssumption
      <3>2. counter' = [counter EXCEPT ![NewPid] = InitialCounter]
        BY <1>1 DEF Execve
      <3> QED BY <1>0, <3>1, <3>2 DEF TypeOK
    <2>4. TypeOK'
      BY <1>0, <1>1, <2>1, <2>2, <2>3 DEF TypeOK, Execve, hartVars, Places
    <2> QED BY <1>1, <2>4 DEF Execve, KInv, UserReady, Boot
  <1>2. CASE ExecveFails
    <2>1. TypeOK'
      BY <1>0, <1>2 DEF TypeOK, ExecveFails, Stop, hartVars, taskVars, Places, Stopped
    <2> QED BY <1>0, <1>2, <2>1 DEF ExecveFails, Stop, hartVars, taskVars, KInv, UserReady, Boot
  <1>3. CASE SwitchTo
    <2>1. current \in alive /\ current \in Pids
      BY <1>0, <1>3 DEF SwitchTo, Boot, TypeOK
    <2>2. TypeOK'
      BY <1>0, <1>3, <2>1 DEF TypeOK, SwitchTo, taskVars, Places
    <2> QED BY <1>3, <2>1, <2>2 DEF SwitchTo, KInv, UserReady, Boot, taskVars
  <1> QED BY <1>1, <1>2, <1>3

LEMMA UserStep ==
  ASSUME KInv, Compute \/ StoreMem
  PROVE  KInv'
PROOF
  <1>0. TypeOK /\ UserReady /\ Boot
    BY DEF KInv
  <1>1. at = "user" /\ satp \in Pids /\ hart \in Contexts
    BY <1>0 DEF Compute, StoreMem, User, UserReady, TypeOK
  <1>2. hart' \in Contexts
    <2>1. CASE Compute
      <3>1. PICK v \in Values : hart' = Advance([hart EXCEPT !.a0 = v])
        BY <2>1 DEF Compute
      <3>2. [hart EXCEPT !.a0 = v] \in Contexts
        BY <1>1 DEF Contexts
      <3> QED BY <3>1, <3>2, ContextFacts
    <2>2. CASE StoreMem
      BY <1>1, <2>2, ContextFacts DEF StoreMem
    <2> QED BY <2>1, <2>2
  <1>3. mem' \in [Pids -> Values \cup {0}]
    BY <1>0, <1>1 DEF Compute, StoreMem, TypeOK, taskVars
  <1>4. at' = at /\ UNCHANGED <<cause, spp, satp, sscratch, frame, current, alive, context, counter, jiffies>>
    BY DEF Compute, StoreMem, taskVars
  <1>5. TypeOK'
    BY <1>0, <1>2, <1>3, <1>4 DEF TypeOK
  <1> QED BY <1>0, <1>1, <1>4, <1>5 DEF KInv, UserReady, Boot

LEMMA EntryStep ==
  ASSUME KInv, NEW why \in Causes, at = "user", TrapEntry(why, 0, hart)
  PROVE  KInv'
PROOF
  <1>0. TypeOK /\ UserReady /\ Boot
    BY DEF KInv
  <1>1. /\ sscratch = "frame" /\ frame' = hart /\ sscratch' = "user" /\ at' = "entry"
        /\ cause' = why /\ spp' = 0
        /\ UNCHANGED <<hart, satp, current, alive, context, counter, mem, jiffies>>
    BY <1>0 DEF TrapEntry, UserReady, taskVars
  <1>2. TypeOK'
    BY <1>0, <1>1 DEF TypeOK, Places
  <1> QED BY <1>0, <1>1, <1>2 DEF KInv, UserReady, Boot

(* trap_return_2 with well-formed contexts, for a live task that has the page *)
(* table.                                                                     *)
LEMMA ResumeStep ==
  ASSUME KInv, at = "entry", NEW ctx \in [Pids -> Contexts], NEW p, Resume(ctx, p),
         p \in alive', alive' \subseteq Pids, satp' = p,
         counter' \in [Pids -> 0 .. CounterMod - 1], mem' \in [Pids -> Values \cup {0}],
         jiffies' \in 0 .. CounterMod - 1, UNCHANGED <<hart, cause, spp, sscratch>>
  PROVE  KInv'
PROOF
  <1>0. TypeOK /\ UserReady
    BY DEF KInv
  <1>1. context' = ctx /\ current' = p /\ frame' = ctx[p] /\ at' = "return" /\ p \in Pids
    BY DEF Resume
  <1>2. TypeOK'
    BY <1>0, <1>1 DEF TypeOK, Places
  <1> QED BY <1>0, <1>1, <1>2 DEF KInv, UserReady, Boot

(* The registers saved for the current task, before and after the ecall. *)
LEMMA SavedFacts ==
  ASSUME TypeOK, current \in Pids
  PROVE  /\ Saved \in [Pids -> Contexts] /\ SavedPast \in [Pids -> Contexts]
         /\ Saved[current] = frame /\ SavedPast[current] = Advance(frame)
         /\ \A p \in Pids \ {current} : Saved[p] = context[p] /\ SavedPast[p] = context[p]
PROOF
  <1>1. frame \in Contexts /\ Advance(frame) \in Contexts
    BY ContextFacts DEF TypeOK
  <1> QED BY <1>1 DEF Saved, SavedPast, TypeOK

LEMMA WithA0 ==
  ASSUME NEW f \in [Pids -> Contexts], NEW p \in Pids, NEW q \in Pids
  PROVE  [f EXCEPT ![p].a0 = q] \in [Pids -> Contexts]
PROOF
  <1> DEFINE c == f[p]
  <1>1. c \in Contexts
    OBVIOUS
  <1>2. [c EXCEPT !.a0 = q] \in Contexts
    BY <1>1 DEF Contexts
  <1>3. [f EXCEPT ![p].a0 = q] = [f EXCEPT ![p] = [c EXCEPT !.a0 = q]]
    OBVIOUS
  <1> HIDE DEF c
  <1> QED BY <1>2, <1>3

LEMMA TimerStep ==
  ASSUME KInv, DoTimer
  PROVE  KInv'
PROOF
  <1>0. TypeOK /\ UserReady /\ at = "entry"
    BY DEF KInv, DoTimer, Handle
  <1>1. current \in alive /\ current \in Pids /\ satp = current /\ spp = 0
    BY <1>0 DEF UserReady, TypeOK
  <1>2. PICK left : /\ left = [counter EXCEPT ![current] = (@ - 1) % CounterMod]
                    /\ counter' = left /\ Resume(Saved, NextTask(left))
                    /\ satp' = IF NextTask(left) = current THEN satp ELSE NextTask(left)
    BY <1>1 DEF DoTimer
  <1>3. NextTask(left) \in alive
    BY <1>0, <1>1, NextTaskAlive DEF TypeOK
  <1>4. counter' \in [Pids -> 0 .. CounterMod - 1]
    <2>1. counter[current] \in Int
      BY <1>0, <1>1, KernelAssumption DEF TypeOK
    <2>2. (counter[current] - 1) % CounterMod \in 0 .. CounterMod - 1
      BY <2>1, KernelAssumption
    <2> QED BY <1>0, <1>2, <2>2 DEF TypeOK
  <1>5. jiffies' \in 0 .. CounterMod - 1
    BY <1>0, KernelAssumption DEF TypeOK, DoTimer
  <1>6. Saved \in [Pids -> Contexts]
    BY <1>0, <1>1, SavedFacts
  <1>7. /\ alive' = alive /\ mem' = mem /\ satp' = NextTask(left)
        /\ UNCHANGED <<hart, cause, spp, sscratch>>
    BY <1>1, <1>2 DEF DoTimer
  <1> HIDE DEF NextTask, Saved
  <1> QED BY <1>0, <1>2, <1>3, <1>4, <1>5, <1>6, <1>7, ResumeStep DEF TypeOK

LEMMA CallStep ==
  ASSUME KInv, SysGetpid \/ SysWrite
  PROVE  KInv'
PROOF
  <1>0. TypeOK /\ UserReady /\ at = "entry"
    BY DEF KInv, SysGetpid, SysWrite, Handle
  <1>1. current \in alive /\ current \in Pids /\ satp = current
    BY <1>0 DEF UserReady, TypeOK
  <1>2. SavedPast \in [Pids -> Contexts]
    BY <1>0, <1>1, SavedFacts
  <1> HIDE DEF SavedPast
  <1>3. PICK ctx \in [Pids -> Contexts] : Resume(ctx, current)
    BY <1>1, <1>2, WithA0 DEF SysGetpid, SysWrite
  <1>4. UNCHANGED <<hart, cause, spp, satp, sscratch, alive, counter, mem, jiffies>>
    BY DEF SysGetpid, SysWrite
  <1> QED BY <1>0, <1>1, <1>3, <1>4, ResumeStep DEF TypeOK

(* What fork leaves in the two contexts, and that nothing else changes. *)
LEMMA ForkFacts ==
  ASSUME KInv, SysFork
  PROVE  \E c \in Pids \ alive : \E ctx \in [Pids -> Contexts] :
           /\ Resume(ctx, current)
           /\ ctx[current] = [Advance(frame) EXCEPT !.a0 = c]
           /\ ctx[c] = [Advance(frame) EXCEPT !.a0 = 0]
           /\ \A p \in Pids \ {current, c} : ctx[p] = context[p]
           /\ alive' = alive \cup {c}
           /\ counter' = [counter EXCEPT ![c] = InitialCounter]
           /\ mem' = [mem EXCEPT ![c] = mem[current]]
PROOF
  <1>0. TypeOK /\ UserReady /\ at = "entry"
    BY DEF KInv, SysFork, Handle
  <1>1. current \in alive /\ current \in Pids /\ satp = current
    BY <1>0 DEF UserReady, TypeOK
  <1>2. PICK c : c = NewPid
    OBVIOUS
  <1>3. c \in Pids \ alive /\ c # current
    BY <1>1, <1>2, NewPidFree DEF SysFork
  <1>4. PICK old : old = SavedPast
    OBVIOUS
  <1>5. /\ old \in [Pids -> Contexts] /\ old[current] = Advance(frame)
        /\ \A p \in Pids \ {current} : old[p] = context[p]
    BY <1>0, <1>1, <1>4, SavedFacts
  <1>6. PICK mid : mid = [old EXCEPT ![c] = [old[current] EXCEPT !.a0 = 0]]
    OBVIOUS
  <1>7. [old[current] EXCEPT !.a0 = 0] \in Contexts
    BY <1>1, <1>5 DEF Contexts
  <1>8. mid \in [Pids -> Contexts]
    BY <1>5, <1>6, <1>7
  <1>9. PICK ctx : ctx = [mid EXCEPT ![current].a0 = c]
    OBVIOUS
  <1>10. ctx \in [Pids -> Contexts]
    BY <1>1, <1>3, <1>8, <1>9, WithA0
  <1>11. mid[current] = old[current] /\ mid[c] = [old[current] EXCEPT !.a0 = 0]
         /\ \A p \in Pids \ {current, c} : mid[p] = old[p]
    BY <1>3, <1>5, <1>6
  <1>12. ctx[current] = [mid[current] EXCEPT !.a0 = c] /\ \A p \in Pids \ {current} : ctx[p] = mid[p]
    BY <1>1, <1>8, <1>9
  <1>13. /\ Resume(ctx, current) /\ alive' = alive \cup {c}
         /\ counter' = [counter EXCEPT ![c] = InitialCounter]
         /\ mem' = [mem EXCEPT ![c] = mem[current]]
    BY <1>1, <1>2, <1>4, <1>6, <1>9 DEF SysFork
  <1> QED BY <1>3, <1>5, <1>10, <1>11, <1>12, <1>13

LEMMA ForkStep ==
  ASSUME KInv, SysFork
  PROVE  KInv'
PROOF
  <1>0. TypeOK /\ UserReady /\ at = "entry"
    BY DEF KInv, SysFork, Handle
  <1>1. current \in alive /\ current \in Pids /\ satp = current
    BY <1>0 DEF UserReady, TypeOK
  <1>2. PICK c \in Pids \ alive : \E ctx \in [Pids -> Contexts] :
           /\ Resume(ctx, current)
           /\ alive' = alive \cup {c}
           /\ counter' = [counter EXCEPT ![c] = InitialCounter]
           /\ mem' = [mem EXCEPT ![c] = mem[current]]
    BY ForkFacts
  <1>3. PICK ctx \in [Pids -> Contexts] : Resume(ctx, current)
    BY <1>2
  <1>4. counter' \in [Pids -> 0 .. CounterMod - 1] /\ mem' \in [Pids -> Values \cup {0}]
    <2>1. InitialCounter \in 0 .. CounterMod - 1 /\ mem[current] \in Values \cup {0}
      BY <1>0, <1>1, KernelAssumption DEF TypeOK
    <2> QED BY <1>0, <1>2, <2>1 DEF TypeOK
  <1>5. alive' \subseteq Pids /\ current \in alive' /\ UNCHANGED <<hart, cause, spp, satp, sscratch, jiffies>>
    BY <1>0, <1>1, <1>2 DEF TypeOK, SysFork
  <1> QED BY <1>0, <1>1, <1>3, <1>4, <1>5, ResumeStep DEF TypeOK

LEMMA StopStep ==
  ASSUME KInv, SysForkFails \/ Unexpected
  PROVE  KInv'
PROOF
  <1>0. TypeOK /\ UserReady
    BY DEF KInv
  <1>1. /\ at' = "panic" \/ (at' = "wild" /\ cause \in {"fork", "unknown"})
        /\ UNCHANGED <<hartVars, current, taskVars, jiffies>>
    BY DEF SysForkFails, Unexpected, Stop, Handle
  <1>2. TypeOK'
    BY <1>0, <1>1 DEF TypeOK, hartVars, taskVars, Places, Stopped
  <1> QED BY <1>1, <1>2 DEF KInv, UserReady, Boot, hartVars, taskVars

LEMMA ReturnStep ==
  ASSUME KInv, TrapReturn
  PROVE  KInv'
PROOF
  <1>0. TypeOK /\ UserReady /\ at = "return" /\ spp = 0 /\ current \in alive /\ satp = current
    BY DEF KInv, TrapReturn, UserReady
  <1>1. /\ sscratch' = "frame" /\ at' = "user" /\ hart' = frame
        /\ UNCHANGED <<cause, spp, satp, frame, current, alive, context, counter, mem, jiffies>>
    BY <1>0 DEF TrapReturn, taskVars
  <1>2. TypeOK'
    BY <1>0, <1>1 DEF TypeOK, Places
  <1> QED BY <1>0, <1>1, <1>2 DEF KInv, UserReady, Boot

LEMMA KernelInductive == SafetySpec => []KInv
PROOF
  <1>1. KInv /\ [Next]_vars => KInv'
    <2> SUFFICES ASSUME KInv, [Next]_vars PROVE KInv'
      OBVIOUS
    <2>1. CASE Execve \/ ExecveFails \/ SwitchTo
      BY <2>1, BootStep
    <2>2. CASE Compute \/ StoreMem
      BY <2>2, UserStep
    <2>3. CASE TimerInterrupt \/ Fault \/ \E n \in Syscalls : Ecall(n)
      BY <2>3, EntryStep DEF TimerInterrupt, Fault, Ecall, User, Causes
    <2>4. CASE DoTimer
      BY <2>4, TimerStep
    <2>5. CASE SysGetpid \/ SysWrite
      BY <2>5, CallStep
    <2>6. CASE SysFork
      BY <2>6, ForkStep
    <2>7. CASE SysForkFails \/ Unexpected
      BY <2>7, StopStep
    <2>8. CASE TrapReturn
      BY <2>8, ReturnStep
    <2>9. CASE Halted \/ UNCHANGED vars
      BY <2>9 DEF Halted, vars, KInv, TypeOK, UserReady, Boot
    <2> QED BY <2>1, <2>2, <2>3, <2>4, <2>5, <2>6, <2>7, <2>8, <2>9
          DEF Next, KernelStep, TrapStart
  <1> QED BY <1>1, InitKInv, PTL DEF SafetySpec

(* The state has its type in every reachable state, so alloc_pid and schedule *)
(* never leave task[], and counters never leave uint64.                       *)
THEOREM TypesHold == SafetySpec => []TypeOK
PROOF
  <1>1. KInv => TypeOK
    BY DEF KInv
  <1> QED BY <1>1, KernelInductive, PTL

(* Once the first process runs, a trap from it always finds sscratch and the   *)
(* page table of the current process in place, and the hart runs wild only out *)
(* of an empty allocator or a system call without a name.                      *)
THEOREM AlwaysReady == SafetySpec => []UserReady
PROOF
  <1>1. KInv => UserReady
    BY DEF KInv
  <1> QED BY <1>1, KernelInductive, PTL

-----------------------------------------------------------------------------
(* Ticks *)

LEMMA TaskSets ==
  ASSUME TypeOK
  PROVE  /\ IsFiniteSet(alive) /\ Cardinality(alive) \in Nat
         /\ \A p \in alive : counter[p] \in Int
         /\ SumFunctionOnSet(counter, alive) \in Int /\ jiffies \in Int
PROOF
  <1>1. IsFiniteSet(Pids)
    BY KernelAssumption, FS_Interval DEF Pids
  <1>2. IsFiniteSet(alive) /\ Cardinality(alive) \in Nat
    BY <1>1, FS_Subset, FS_CardinalityType DEF TypeOK
  <1>3. \A p \in alive : counter[p] \in Int
    BY KernelAssumption DEF TypeOK
  <1> QED BY <1>2, <1>3, SumInt DEF TypeOK

(* A new process comes with a full quantum.                                  *)
LEMMA TicksOfNew ==
  ASSUME KInv, TicksAccounted, at \notin Stopped, NEW c \in Pids \ alive,
         alive' = alive \cup {c}, counter' = [counter EXCEPT ![c] = InitialCounter],
         jiffies' = jiffies
  PROVE  TicksAccounted'
PROOF
  <1>0. TypeOK
    BY DEF KInv
  <1>1. PICK n \in Nat, s \in Int, j \in Int :
           n = Cardinality(alive) /\ s = SumFunctionOnSet(counter, alive) /\ j = jiffies
    BY <1>0, TaskSets
  <1>2. (j + s) % CounterMod = (n * InitialCounter) % CounterMod
    BY <1>1 DEF TicksAccounted
  <1>3. IsFiniteSet(alive') /\ Cardinality(alive') = n + 1
    BY <1>0, <1>1, TaskSets, FS_AddElement
  <1>4. SumFunctionOnSet(counter', alive') = InitialCounter + s
    <2>1. c \in alive' /\ alive' \ {c} = alive
      OBVIOUS
    <2>2. counter'[c] = InitialCounter /\ \A p \in alive : counter'[p] = counter[p]
      BY <1>0 DEF TypeOK
    <2>3. \A p \in alive' : counter'[p] \in Int
      BY <1>0, <2>2, TaskSets, KernelAssumption
    <2>4. SumFunctionOnSet(counter', alive') = counter'[c] + SumFunctionOnSet(counter', alive' \ {c})
      <3>1. PICK A, f : A = alive' /\ f = counter'
        OBVIOUS
      <3>2. IsFiniteSet(A) /\ c \in A /\ \A p \in A : f[p] \in Int
        BY <1>3, <2>1, <2>3, <3>1
      <3>3. SumFunctionOnSet(f, A) = f[c] + SumFunctionOnSet(f, A \ {c})
        BY <3>2, SumRemove
      <3> QED BY <3>1, <3>3
    <2>5. SumFunctionOnSet(counter', alive) = s
      BY <1>0, <1>1, <2>2, TaskSets, SumSame
    <2> QED BY <2>1, <2>2, <2>4, <2>5
  <1>5. InitialCounter \in Int /\ CounterMod \in Nat \ {0}
    BY KernelAssumption
  <1>6. n * InitialCounter \in Int /\ (n + 1) * InitialCounter = n * InitialCounter + InitialCounter
    BY <1>5
  <1>7. ((j + s) + InitialCounter) % CounterMod = (n * InitialCounter + InitialCounter) % CounterMod
    <2>1. PICK a \in Int, b \in Int : a = j + s /\ b = n * InitialCounter
      BY <1>1, <1>6
    <2>2. PICK i \in Int, m \in Nat \ {0} : i = InitialCounter /\ m = CounterMod
      BY <1>5
    <2>3. a % m = b % m
      BY <1>2, <2>1, <2>2
    <2>4. (a + i) % m = (b + i) % m
      BY <2>3, ModPlus
    <2> QED BY <2>1, <2>2, <2>4
  <1>8. jiffies' + SumFunctionOnSet(counter', alive') = (j + s) + InitialCounter
    BY <1>1, <1>4, <1>5
  <1> QED BY <1>3, <1>6, <1>7, <1>8 DEF TicksAccounted

(* A tick goes from the counter of the current process to jiffies.           *)
LEMMA TicksOfTimer ==
  ASSUME KInv, TicksAccounted, DoTimer
  PROVE  TicksAccounted'
PROOF
  <1>0. TypeOK /\ at = "entry" /\ current \in alive /\ current \in Pids /\ CounterMod \in Nat \ {0}
    BY KernelAssumption DEF KInv, DoTimer, Handle, UserReady, TypeOK
  <1>1. /\ counter' = [counter EXCEPT ![current] = (@ - 1) % CounterMod]
        /\ jiffies' = (jiffies + 1) % CounterMod /\ alive' = alive
    BY DEF DoTimer
  <1>2. PICK n \in Nat, s \in Int, j \in Int :
           n = Cardinality(alive) /\ s = SumFunctionOnSet(counter, alive) /\ j = jiffies
    BY <1>0, TaskSets
  <1>3. PICK rest \in Int, x \in Int :
           rest = SumFunctionOnSet(counter, alive \ {current}) /\ x = counter[current]
    <2>1. IsFiniteSet(alive \ {current})
      BY <1>0, TaskSets, FS_RemoveElement
    <2>2. \A p \in alive \ {current} : counter[p] \in Int
      BY <1>0, TaskSets
    <2> QED BY <1>0, <2>1, <2>2, TaskSets, SumInt
  <1>4. PICK y \in Int, i \in Int, a \in Int, b \in Int :
           /\ y = (x - 1) % CounterMod /\ x - 1 = CounterMod * a + y
           /\ i = (j + 1) % CounterMod /\ j + 1 = CounterMod * b + i
    <2>1. PICK u \in Int, v \in Int : u = x - 1 /\ v = j + 1
      OBVIOUS
    <2>2. /\ u = CounterMod * (u \div CounterMod) + (u % CounterMod)
          /\ u \div CounterMod \in Int /\ u % CounterMod \in Int
      BY <1>0, DivMod
    <2>3. /\ v = CounterMod * (v \div CounterMod) + (v % CounterMod)
          /\ v \div CounterMod \in Int /\ v % CounterMod \in Int
      BY <1>0, DivMod
    <2> QED BY <2>1, <2>2, <2>3
  <1>5. (j + s) % CounterMod = (n * InitialCounter) % CounterMod
    BY <1>0, <1>2 DEF TicksAccounted, Stopped
  <1>6. s = x + rest
    BY <1>0, <1>2, <1>3, TaskSets, SumRemove
  <1>7. SumFunctionOnSet(counter', alive) = y + rest
    <2>1. counter'[current] = y /\ \A p \in alive \ {current} : counter'[p] = counter[p]
      BY <1>0, <1>1, <1>3, <1>4 DEF TypeOK
    <2>2. \A p \in alive : counter'[p] \in Int
      BY <1>0, <2>1, TaskSets
    <2>3. SumFunctionOnSet(counter', alive) = counter'[current] + SumFunctionOnSet(counter', alive \ {current})
      BY <1>0, <2>2, TaskSets, SumRemove
    <2>4. SumFunctionOnSet(counter', alive \ {current}) = rest
      <3>1. IsFiniteSet(alive \ {current})
        BY <1>0, TaskSets, FS_RemoveElement
      <3> QED BY <1>3, <2>1, <3>1, SumSame
    <2> QED BY <2>1, <2>3, <2>4
  <1>8. (i + (y + rest)) % CounterMod = (j + s) % CounterMod
    <2>1. PICK k \in Int : k = a + b
      OBVIOUS
    <2>2. CounterMod * k = CounterMod * a + CounterMod * b
          /\ CounterMod * a \in Int /\ CounterMod * b \in Int
      BY <1>0, <2>1
    <2>3. i + (y + rest) = (j + s) - CounterMod * k
      <3>1. PICK ma \in Int, mb \in Int : ma = CounterMod * a /\ mb = CounterMod * b
        BY <2>2
      <3> QED BY <1>4, <1>6, <2>2, <3>1
    <2>4. PICK d \in Int : d = j + s
      OBVIOUS
    <2>5. (d - CounterMod * k) % CounterMod = d % CounterMod
      BY <1>0, ModMultiple
    <2> QED BY <2>3, <2>4, <2>5
  <1>9. jiffies' + SumFunctionOnSet(counter', alive') = i + (y + rest)
    BY <1>1, <1>2, <1>4, <1>7
  <1>10. Cardinality(alive') = n
    BY <1>1, <1>2
  <1> QED BY <1>5, <1>8, <1>9, <1>10 DEF TicksAccounted

(* Ticks given out = ticks left + jiffies, modulo 2^64, in every reachable    *)
(* state: fork and the timer neither lose nor invent time.                    *)
THEOREM TicksAddUp == SafetySpec => []TicksAccounted
PROOF
  <1>1. Init => TicksAccounted
    <2> SUFFICES ASSUME Init PROVE TicksAccounted
      OBVIOUS
    <2>1. alive = {} /\ jiffies = 0 /\ Cardinality({}) = 0 /\ IsFiniteSet({})
      BY FS_EmptySet DEF Init
    <2>2. SumFunctionOnSet(counter, {}) = 0
      BY <2>1, SumEquation
    <2>3. 0 * InitialCounter = 0 /\ 0 + 0 = 0
      BY KernelAssumption
    <2> QED BY <2>1, <2>2, <2>3 DEF TicksAccounted
  <1>2. KInv /\ TicksAccounted /\ [Next]_vars => TicksAccounted'
    <2> SUFFICES ASSUME KInv, TicksAccounted, [Next]_vars PROVE TicksAccounted'
      OBVIOUS
    <2>1. CASE Execve
      <3>1. at \notin Stopped /\ NewPid \in Pids \ alive
        BY <2>1, NewPidFree DEF Execve, Stopped
      <3>2. /\ alive' = alive \cup {NewPid} /\ jiffies' = jiffies
            /\ counter' = [counter EXCEPT ![NewPid] = InitialCounter]
        BY <2>1 DEF Execve
      <3> HIDE DEF NewPid
      <3> QED BY <3>1, <3>2, TicksOfNew
    <2>2. CASE SysFork
      <3>1. at \notin Stopped /\ jiffies' = jiffies
        BY <2>2 DEF SysFork, Handle, Stopped
      <3>2. PICK c \in Pids \ alive : /\ alive' = alive \cup {c}
                                     /\ counter' = [counter EXCEPT ![c] = InitialCounter]
        BY <2>2, ForkFacts
      <3> QED BY <3>1, <3>2, TicksOfNew
    <2>3. CASE DoTimer
      BY <2>3, TicksOfTimer
    <2>4. CASE ExecveFails \/ SysForkFails \/ Unexpected
      BY <2>4 DEF ExecveFails, SysForkFails, Unexpected, Stop, TicksAccounted, Stopped
    <2>5. CASE SwitchTo \/ TrapReturn
      BY <2>5 DEF SwitchTo, TrapReturn, taskVars, TicksAccounted, Stopped
    <2>6. CASE Compute \/ StoreMem
      BY <2>6 DEF Compute, StoreMem, User, taskVars, TicksAccounted, Stopped
    <2>7. CASE TimerInterrupt \/ Fault \/ \E n \in Syscalls : Ecall(n)
      BY <2>7 DEF TimerInterrupt, Fault, Ecall, User, TrapEntry, taskVars, TicksAccounted, Stopped
    <2>8. CASE SysGetpid \/ SysWrite
      BY <2>8 DEF SysGetpid, SysWrite, Handle, TicksAccounted, Stopped
    <2>9. CASE Halted \/ UNCHANGED vars
      BY <2>9 DEF Halted, vars, TicksAccounted
    <2> QED BY <2>1, <2>2, <2>3, <2>4, <2>5, <2>6, <2>7, <2>8, <2>9
          DEF Next, KernelStep, TrapStart
  <1> QED BY <1>1, <1>2, KernelInductive, PTL DEF SafetySpec

-----------------------------------------------------------------------------
(* Kernel implements Processes: under the mapping Machine of Kernel every      *)
(* step of the kernel is a step of one process, the start of the first one,    *)
(* the end of all, or invisible.                                               *)

LEMMA MachineFacts ==
  ASSUME at \notin Stopped
  PROVE  /\ P!Alive = alive
         /\ \A p \in alive :
              Machine[p] = [sepc |-> Registers(p).sepc, a0 |-> Registers(p).a0, mem |-> mem[p]]
PROOF
  BY DEF P!Alive, Machine

(* A step that moves no register and no memory out of its place, or moves      *)
(* registers from one place to another, is invisible.                          *)
LEMMA Invisible ==
  ASSUME at \notin Stopped, at' \notin Stopped, alive' = alive, mem' = mem,
         \A p \in alive : Registers(p)' = Registers(p)
  PROVE  UNCHANGED P!vars
PROOF
  <1>1. Machine' = Machine
    BY DEF Machine
  <1>2. (at \in Stopped)' = (at \in Stopped)
    OBVIOUS
  <1> QED BY <1>1, <1>2 DEF P!vars

(* A step in which only the current process changes, to registers c and        *)
(* memory v.                                                                   *)
LEMMA CurrentBecomes ==
  ASSUME at \notin Stopped, at' \notin Stopped, alive' = alive,
         current \in alive, current' = current, NEW c, NEW v,
         Registers(current)' = c, mem'[current] = v,
         \A p \in alive \ {current} : Registers(p)' = Registers(p) /\ mem'[p] = mem[p]
  PROVE  /\ Machine' = [Machine EXCEPT ![current] = [sepc |-> c.sepc, a0 |-> c.a0, mem |-> v]]
         /\ (at \in Stopped)' = (at \in Stopped)
PROOF
  <1>1. PICK cur : cur = current
    OBVIOUS
  <1>2. Registers(cur)' = c /\ mem'[cur] = v
    BY <1>1
  <1>3. Machine' = [p \in alive |->
          [sepc |-> Registers(p)'.sepc, a0 |-> Registers(p)'.a0, mem |-> mem'[p]]]
    BY DEF Machine
  <1>4. Machine = [p \in alive |->
          [sepc |-> Registers(p).sepc, a0 |-> Registers(p).a0, mem |-> mem[p]]]
    BY DEF Machine
  <1> HIDE DEF Registers
  <1>5. Machine' = [Machine EXCEPT ![cur] = [sepc |-> c.sepc, a0 |-> c.a0, mem |-> v]]
    BY <1>1, <1>2, <1>3, <1>4
  <1> QED BY <1>1, <1>5

LEMMA InitMaps == Init => P!Init
PROOF
  <1> SUFFICES ASSUME Init PROVE P!Init
    OBVIOUS
  <1>1. at \notin Stopped /\ alive = {}
    BY DEF Init, Stopped
  <1>2. Machine = [p \in {} |-> 0]
    BY <1>1 DEF Machine
  <1> QED BY <1>1, <1>2 DEF P!Init

LEMMA ExecveMaps ==
  ASSUME KInv, Execve
  PROVE  P!Start
PROOF
  <1>0. TypeOK /\ Boot
    BY DEF KInv
  <1>1. PICK n : n = NewPid
    OBVIOUS
  <1>2. n \in Pids /\ at = "boot" /\ at' = "ready" /\ alive = {} /\ alive' = {n}
    BY <1>0, <1>1, NewPidFree DEF Execve, Boot
  <1>3. context' = [context EXCEPT ![n].sepc = 0] /\ mem' = mem
    BY <1>1 DEF Execve
  <1>4. context'[n].sepc = 0 /\ context'[n].a0 = 0 /\ mem'[n] = 0
    <2>1. context[n] \in Contexts /\ context[n].a0 = 0 /\ mem[n] = 0
      BY <1>0, <1>2 DEF TypeOK, Boot
    <2>2. context'[n] = [context[n] EXCEPT !.sepc = 0]
      BY <1>0, <1>2, <1>3 DEF TypeOK
    <2> QED BY <1>3, <2>1, <2>2 DEF Contexts
  <1>5. Registers(n)' = context'[n]
    BY <1>2 DEF Registers
  <1>6. Machine' = [q \in {n} |-> [sepc |-> 0, a0 |-> 0, mem |-> 0]]
    <2>1. Machine' = [q \in {n} |->
            [sepc |-> Registers(q)'.sepc, a0 |-> Registers(q)'.a0, mem |-> mem'[q]]]
      BY <1>2 DEF Machine, Stopped
    <2> QED BY <1>4, <1>5, <2>1
  <1>7. at \notin Stopped /\ at' \notin Stopped /\ P!Alive = {}
    BY <1>2, MachineFacts DEF Stopped
  <1> QED BY <1>2, <1>6, <1>7 DEF P!Start

LEMMA StopMaps ==
  ASSUME at \notin Stopped, at' \in Stopped
  PROVE  P!Stop
PROOF
  <1>1. Machine' = [p \in {} |-> 0]
    BY DEF Machine
  <1> QED BY <1>1 DEF P!Stop

LEMMA UserMaps ==
  ASSUME KInv, Compute \/ StoreMem
  PROVE  P!Next
PROOF
  <1>0. TypeOK /\ UserReady /\ at = "user"
    BY DEF KInv, Compute, StoreMem, User
  <1>1. /\ current \in alive /\ current \in Pids /\ satp = current
        /\ at \notin Stopped /\ at' \notin Stopped /\ hart \in Contexts
    BY <1>0 DEF UserReady, TypeOK, Stopped, Compute, StoreMem
  <1>2. at' = at /\ UNCHANGED <<current, alive, context>>
    BY DEF Compute, StoreMem, taskVars
  <1>3. Registers(current)' = hart' /\ Registers(current) = hart
        /\ \A p \in alive \ {current} : Registers(p)' = Registers(p)
    BY <1>0, <1>2 DEF Registers
  <1>4. /\ P!Alive = alive
        /\ Machine[current] = [sepc |-> hart.sepc, a0 |-> hart.a0, mem |-> mem[current]]
    BY <1>1, <1>3, MachineFacts
  <1>5. CASE Compute
    <2>1. PICK v \in Values : hart' = Advance([hart EXCEPT !.a0 = v])
      BY <1>5 DEF Compute
    <2>2. hart' = [sepc |-> (hart.sepc + 1) % PcMod, a0 |-> v]
      BY <1>1, <2>1 DEF Advance, Contexts
    <2>3. mem' = mem
      BY <1>5 DEF Compute, taskVars
    <2>4. Machine' = [Machine EXCEPT ![current] =
                       [sepc |-> hart'.sepc, a0 |-> hart'.a0, mem |-> mem[current]]]
      BY <1>1, <1>2, <1>3, <2>3, CurrentBecomes
    <2>5. P!Compute(current)
      <3>1. hart'.sepc = (Machine[current].sepc + 1) % PcMod /\ hart'.a0 = v
            /\ mem[current] = Machine[current].mem
        BY <1>4, <2>2
      <3>2. P!Becomes(current, v, Machine[current].mem)
        BY <1>1, <2>4, <3>1 DEF P!Becomes, P!Past
      <3> QED BY <3>2 DEF P!Compute
    <2> QED BY <1>1, <1>4, <2>5 DEF P!Next
  <1>6. CASE StoreMem
    <2>1. PICK v \in Values : mem' = [mem EXCEPT ![current] = v]
      BY <1>1, <1>6 DEF StoreMem
    <2>2. hart' = [sepc |-> (hart.sepc + 1) % PcMod, a0 |-> hart.a0]
      BY <1>1, <1>6, ContextFacts DEF StoreMem
    <2>3. mem'[current] = v /\ \A p \in alive \ {current} : mem'[p] = mem[p]
      BY <1>0, <1>1, <2>1 DEF TypeOK
    <2>4. Machine' = [Machine EXCEPT ![current] = [sepc |-> hart'.sepc, a0 |-> hart'.a0, mem |-> v]]
      BY <1>1, <1>2, <1>3, <2>3, CurrentBecomes
    <2>5. P!StoreMem(current)
      <3>1. hart'.sepc = (Machine[current].sepc + 1) % PcMod /\ hart'.a0 = Machine[current].a0
        BY <1>4, <2>2
      <3>2. P!Becomes(current, Machine[current].a0, v)
        BY <1>1, <2>4, <3>1 DEF P!Becomes, P!Past
      <3> QED BY <3>2 DEF P!StoreMem
    <2> QED BY <1>1, <1>4, <2>5 DEF P!Next
  <1> QED BY <1>5, <1>6

(* Entering and leaving the kernel moves registers, and a tick exchanges who    *)
(* has them where.                                                              *)
LEMMA EntryInvisible ==
  ASSUME KInv, NEW why, at = "user", TrapEntry(why, 0, hart)
  PROVE  UNCHANGED P!vars
PROOF
  <1>1. frame' = hart /\ at' = "entry" /\ UNCHANGED <<current, alive, context, mem>>
    BY DEF KInv, UserReady, TrapEntry, taskVars
  <1>2. \A p \in alive : Registers(p)' = Registers(p)
    BY <1>1 DEF Registers
  <1> QED BY <1>1, <1>2, Invisible DEF Stopped

LEMMA SwitchInvisible ==
  ASSUME KInv, SwitchTo \/ TrapReturn
  PROVE  UNCHANGED P!vars
PROOF
  <1>1. at \in {"ready", "return"} /\ at' \in {"return", "user"}
        /\ UNCHANGED <<current, alive, context, mem>>
    BY DEF KInv, UserReady, SwitchTo, TrapReturn, taskVars
  <1>2. \A p \in alive : Registers(p)' = Registers(p)
    BY <1>1 DEF Registers, SwitchTo, TrapReturn, KInv, UserReady
  <1> QED BY <1>1, <1>2, Invisible DEF Stopped

LEMMA TimerInvisible ==
  ASSUME KInv, DoTimer
  PROVE  UNCHANGED P!vars
PROOF
  <1>0. TypeOK /\ UserReady /\ at = "entry"
    BY DEF KInv, DoTimer, Handle
  <1>1. current \in Pids
    BY <1>0 DEF UserReady, TypeOK
  <1>2. PICK next : Resume(Saved, next) /\ alive' = alive /\ mem' = mem
    BY DEF DoTimer
  <1>3. /\ Saved[current] = frame
        /\ \A p \in Pids \ {current} : Saved[p] = context[p]
    BY <1>0, <1>1, SavedFacts
  <1>4. context' = Saved /\ current' = next /\ frame' = Saved[next] /\ at' = "return"
    BY <1>2 DEF Resume
  <1> HIDE DEF Saved
  <1>5. ASSUME NEW p \in alive PROVE Registers(p)' = Saved[p] /\ Registers(p) = Saved[p]
    BY <1>0, <1>3, <1>4 DEF Registers, TypeOK
  <1> QED BY <1>0, <1>2, <1>4, <1>5, Invisible DEF Stopped

LEMMA CallMaps ==
  ASSUME KInv, SysGetpid \/ SysWrite
  PROVE  P!Next
PROOF
  <1>0. TypeOK /\ UserReady /\ at = "entry"
    BY DEF KInv, SysGetpid, SysWrite, Handle
  <1>1. current \in alive /\ current \in Pids /\ frame \in Contexts
    BY <1>0 DEF UserReady, TypeOK
  <1>2. PICK old : old = SavedPast
    OBVIOUS
  <1>3. /\ old \in [Pids -> Contexts] /\ old[current] = Advance(frame)
        /\ \A p \in Pids \ {current} : old[p] = context[p]
    BY <1>0, <1>1, <1>2, SavedFacts
  <1>4. Advance(frame) = [sepc |-> (frame.sepc + 1) % PcMod, a0 |-> frame.a0]
    BY <1>1, ContextFacts
  <1>5. alive' = alive /\ mem' = mem /\ alive \subseteq Pids
    BY <1>0 DEF SysGetpid, SysWrite, TypeOK
  <1>6. Registers(current) = frame
    BY <1>0 DEF Registers
  <1>7. /\ P!Alive = alive
        /\ Machine[current] = [sepc |-> frame.sepc, a0 |-> frame.a0, mem |-> mem[current]]
    BY <1>0, <1>1, <1>6, MachineFacts DEF Stopped
  <1>8. ASSUME NEW ctx, Resume(ctx, current), \A p \in Pids \ {current} : ctx[p] = old[p]
        PROVE  /\ Machine' = [Machine EXCEPT ![current] =
                     [sepc |-> ctx[current].sepc, a0 |-> ctx[current].a0, mem |-> mem[current]]]
               /\ at' \notin Stopped
    <2>1. context' = ctx /\ current' = current /\ frame' = ctx[current] /\ at' = "return"
      BY <1>8 DEF Resume
    <2>2. Registers(current)' = ctx[current]
          /\ \A p \in alive \ {current} : Registers(p)' = Registers(p)
      BY <1>0, <1>3, <1>5, <1>8, <2>1 DEF Registers
    <2> QED BY <1>0, <1>1, <1>5, <2>1, <2>2, CurrentBecomes DEF Stopped
  <1>9. CASE SysGetpid
    <2>1. PICK ctx : ctx = [old EXCEPT ![current].a0 = current]
      OBVIOUS
    <2>2. Resume(ctx, current)
      BY <1>2, <1>9, <2>1 DEF SysGetpid
    <2>3. ctx[current] = [sepc |-> (frame.sepc + 1) % PcMod, a0 |-> current]
      BY <1>1, <1>3, <1>4, <2>1
    <2>4. \A p \in Pids \ {current} : ctx[p] = old[p]
      BY <1>3, <2>1
    <2>5. P!Getpid(current)
      BY <1>0, <1>7, <1>8, <2>2, <2>3, <2>4 DEF P!Getpid, P!Becomes, P!Past, Stopped
    <2> QED BY <1>1, <1>7, <2>5 DEF P!Next
  <1>10. CASE SysWrite
    <2>1. Resume(old, current)
      BY <1>2, <1>10 DEF SysWrite
    <2>2. P!Write(current)
      BY <1>0, <1>3, <1>4, <1>7, <1>8, <2>1 DEF P!Write, P!Becomes, P!Past, Stopped
    <2> QED BY <1>1, <1>7, <2>2 DEF P!Next
  <1> QED BY <1>9, <1>10

LEMMA ForkMaps ==
  ASSUME KInv, SysFork
  PROVE  P!Next
PROOF
  <1>0. TypeOK /\ UserReady /\ at = "entry"
    BY DEF KInv, SysFork, Handle
  <1>1. current \in alive /\ current \in Pids /\ frame \in Contexts /\ alive \subseteq Pids
    BY <1>0 DEF UserReady, TypeOK
  <1>2. PICK c \in Pids \ alive, ctx \in [Pids -> Contexts] :
           /\ Resume(ctx, current)
           /\ ctx[current] = [Advance(frame) EXCEPT !.a0 = c]
           /\ ctx[c] = [Advance(frame) EXCEPT !.a0 = 0]
           /\ \A p \in Pids \ {current, c} : ctx[p] = context[p]
           /\ alive' = alive \cup {c}
           /\ mem' = [mem EXCEPT ![c] = mem[current]]
    BY ForkFacts
  <1>3. Advance(frame) = [sepc |-> (frame.sepc + 1) % PcMod, a0 |-> frame.a0]
    BY <1>1, ContextFacts
  <1>4. PICK old : old = Machine
    OBVIOUS
  <1>5. /\ P!Alive = alive
        /\ \A p \in alive : old[p] = [sepc |-> IF p = current THEN frame.sepc ELSE context[p].sepc,
                                      a0 |-> IF p = current THEN frame.a0 ELSE context[p].a0,
                                      mem |-> mem[p]]
    BY <1>0, <1>4, MachineFacts DEF Stopped, Registers
  <1> DEFINE PastFork(a) ==
        [sepc |-> (old[current].sepc + 1) % PcMod, a0 |-> a, mem |-> old[current].mem]
  <1>6. context' = ctx /\ current' = current /\ frame' = ctx[current] /\ at' = "return"
    BY <1>2 DEF Resume
  <1>7. \A p \in alive \cup {c} : Registers(p)' = ctx[p]
    BY <1>6 DEF Registers
  <1>8. Machine' = [p \in alive \cup {c} |->
                     [sepc |-> Registers(p)'.sepc, a0 |-> Registers(p)'.a0, mem |-> mem'[p]]]
    BY <1>2, <1>6 DEF Machine, Stopped
  <1>9. mem'[c] = mem[current] /\ \A p \in alive : mem'[p] = mem[p]
    BY <1>0, <1>1, <1>2 DEF TypeOK
  <1> HIDE DEF Machine, Registers
  <1>10. Machine' = [p \in alive \cup {c} |->
                      [sepc |-> ctx[p].sepc, a0 |-> ctx[p].a0, mem |-> mem'[p]]]
    BY <1>7, <1>8
  <1>11. ASSUME NEW p \in alive \cup {c}
         PROVE  [sepc |-> ctx[p].sepc, a0 |-> ctx[p].a0, mem |-> mem'[p]] =
                  CASE p = current -> PastFork(c)
                    [] p = c -> PastFork(0)
                    [] OTHER -> old[p]
    <2>1. CASE p = current
      <3>1. old[current] = [sepc |-> frame.sepc, a0 |-> frame.a0, mem |-> mem[current]]
        BY <1>1, <1>5
      <3>2. ctx[p] = [sepc |-> (frame.sepc + 1) % PcMod, a0 |-> c] /\ mem'[p] = mem[current]
        BY <1>1, <1>2, <1>3, <1>9, <2>1
      <3> QED BY <1>1, <2>1, <3>1, <3>2
    <2>2. CASE p = c
      <3>1. old[current] = [sepc |-> frame.sepc, a0 |-> frame.a0, mem |-> mem[current]]
        BY <1>1, <1>5
      <3>2. ctx[p] = [sepc |-> (frame.sepc + 1) % PcMod, a0 |-> 0] /\ mem'[p] = mem[current]
        BY <1>2, <1>3, <1>9, <2>2
      <3> QED BY <1>1, <2>2, <3>1, <3>2
    <2>3. CASE p \in alive \ {current, c}
      <3>1. ctx[p] = context[p] /\ context[p] \in Contexts /\ mem'[p] = mem[p] /\ p # current /\ p # c
        BY <1>0, <1>1, <1>2, <1>9, <2>3 DEF TypeOK
      <3>2. old[p] = [sepc |-> context[p].sepc, a0 |-> context[p].a0, mem |-> mem[p]]
        BY <1>5, <2>3
      <3> QED BY <3>1, <3>2
    <2> QED BY <2>1, <2>2, <2>3
  <1>12. Machine' = [p \in alive \cup {c} |->
                  CASE p = current -> PastFork(c)
                    [] p = c -> PastFork(0)
                    [] OTHER -> old[p]]
    BY <1>10, <1>11
  <1>13. P!Fork(current)
    <2>1. P!Alive = alive /\ c \in Pids \ P!Alive
      BY <1>5
    <2>2. \A a : PastFork(a) = P!Past(current, a, Machine[current].mem)
      BY <1>4 DEF P!Past
    <2> HIDE DEF PastFork
    <2>3. Machine' = [q \in P!Alive \cup {c} |->
                      CASE q = current -> P!Past(current, c, Machine[current].mem)
                        [] q = c -> P!Past(current, 0, Machine[current].mem)
                        [] OTHER -> Machine[q]]
      BY <1>4, <1>12, <2>1, <2>2
    <2>4. ~(at \in Stopped) /\ UNCHANGED (at \in Stopped)
      BY <1>0, <1>6 DEF Stopped
    <2> QED BY <2>1, <2>3, <2>4 DEF P!Fork
  <1> QED BY <1>1, <1>5, <1>13 DEF P!Next

LEMMA StepMaps ==
  ASSUME KInv, [Next]_vars
  PROVE  [P!Next]_(P!vars)
PROOF
  <1>1. CASE Execve
    BY <1>1, ExecveMaps DEF P!Next
  <1>2. CASE ExecveFails \/ SysForkFails \/ Unexpected
    <2>1. at \notin Stopped /\ at' \in Stopped
      BY <1>2 DEF ExecveFails, SysForkFails, Unexpected, Handle, Stop, Stopped
    <2> QED BY <2>1, StopMaps DEF P!Next
  <1>3. CASE Compute \/ StoreMem
    BY <1>3, UserMaps
  <1>4. CASE TimerInterrupt \/ Fault \/ \E n \in Syscalls : Ecall(n)
    BY <1>4, EntryInvisible DEF TimerInterrupt, Fault, Ecall, User
  <1>5. CASE SwitchTo \/ TrapReturn
    BY <1>5, SwitchInvisible
  <1>6. CASE DoTimer
    BY <1>6, TimerInvisible
  <1>7. CASE SysGetpid \/ SysWrite
    BY <1>7, CallMaps
  <1>8. CASE SysFork
    BY <1>8, ForkMaps
  <1>9. CASE Halted \/ UNCHANGED vars
    <2>1. UNCHANGED vars
      BY <1>9 DEF Halted
    <2> QED BY <2>1 DEF vars, P!vars, Machine, Registers
  <1> QED BY <1>1, <1>2, <1>3, <1>4, <1>5, <1>6, <1>7, <1>8, <1>9
        DEF Next, KernelStep, TrapStart

(* The kernel keeps processes apart: whatever programs run, however they are   *)
(* interrupted, switched and forked, each sees a machine of its own.           *)
THEOREM KeepsApart == SafetySpec => Isolation
PROOF
  <1>1. KInv /\ [Next]_vars => [P!Next]_(P!vars)
    BY StepMaps
  <1> QED BY <1>1, InitMaps, KernelInductive, PTL DEF SafetySpec, Isolation, P!Spec
=============================================================================
