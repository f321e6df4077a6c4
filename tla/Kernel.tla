------------------------------- MODULE Kernel -------------------------------
(***************************************************************************)
(* Traps, system calls and the scheduler: trap_entry and trap_return of     *)
(* kernel/arch/entry.S, kernel/proc/trap.c, syscall.c and sched.c, from the *)
(* moment interrupts are enabled (trap_init) on.                            *)
(*                                                                          *)
(* One hart runs everything. In U-mode it executes the current process one  *)
(* instruction at a time and can be interrupted between any two; a trap is  *)
(* three steps: the assembly that saves the registers to sscratch_stack,    *)
(* the C handler trap_start() as a whole, and the assembly that loads the   *)
(* registers back. A context is what the properties tell apart of struct    *)
(* context: sepc, counted in instructions, and the register a0, which       *)
(* stands for all the others as well. The memory of a process is one cell,  *)
(* reached through the page table the hart has in satp.                     *)
(***************************************************************************)
EXTENDS Integers, FiniteSets, Functions

CONSTANTS
  NR_TASK,         (* size of task[]; 64 in the code                       *)
  InitialCounter,  (* TASK_INITIAL_COUNTER; 256                            *)
  CounterMod,      (* counter and jiffies are uint64: 2^64                 *)
  Values,          (* what user instructions put into a0 and memory        *)
  PcMod            (* instructions of the user program; it loops           *)

ASSUME KernelAssumption ==
  /\ NR_TASK \in Nat \ {0}
  /\ CounterMod \in Nat \ {0}
  /\ InitialCounter \in 1 .. CounterMod - 1
  /\ Values \subseteq Nat
  /\ PcMod \in Nat \ {0}

Pids == 0 .. NR_TASK - 1
NoTask == -1             \* current_task = NULL, and the kernel's page table

(* A program counter in the kernel's own code, where U-mode cannot fetch. *)
KernelPc == PcMod

Contexts == [sepc : 0 .. PcMod, a0 : {0} \cup Values \cup Pids]

(* The registers of interrupted kernel code: they mean nothing to a process. *)
KernelRegs == [sepc |-> KernelPc, a0 |-> 0]

(* scause and, for an ecall from U-mode, the number in a7. *)
Syscalls == {"getpid", "fork", "write", "unknown"}
Causes == Syscalls \cup {"timer", "fault"}

VARIABLES
  at,        (* what the hart is doing, see Places                          *)
  hart,      (* the registers, in U-mode                                    *)
  cause,     (* why it trapped                                              *)
  spp,       (* sstatus.SPP: 1 when the trap came from S-mode               *)
  satp,      (* whose page table is installed                               *)
  sscratch,  (* "frame": the address of sscratch_stack; "user": a user's a0 *)
  frame,     (* the contents of sscratch_stack                              *)
  current,   (* current_task                                                *)
  alive,     (* tasks with pidmap[] set, and so with a page table           *)
  context,   (* task[].context                                              *)
  counter,   (* task[].counter                                              *)
  mem,       (* the memory of each process                                  *)
  jiffies

hartVars == <<hart, cause, spp, satp, sscratch, frame>>
taskVars == <<alive, context, counter, mem>>
vars == <<at, hart, cause, spp, satp, sscratch, frame,
          current, alive, context, counter, mem, jiffies>>

(* "boot": main() after trap_init, no process yet.  "ready": execve has set   *)
(* current_task and is on its way to switch_to.  "user": U-mode.  "entry":    *)
(* registers saved, trap_start about to run.  "return": in trap_return.       *)
(* "panic": the endless loop of panic().  "wild": the hart runs on data that  *)
(* are not what the code takes them for.                                      *)
Stopped == {"panic", "wild"}
Places == {"boot", "ready", "user", "entry", "return"} \cup Stopped

Init ==
  /\ at = "boot"
  /\ hart = KernelRegs
  /\ cause = "timer"
  /\ spp = 0
  /\ satp = NoTask
  /\ sscratch = "frame"
  /\ frame = [sepc |-> 0, a0 |-> 0]
  /\ current = NoTask
  /\ alive = {}
  /\ context = [p \in Pids |-> [sepc |-> 0, a0 |-> 0]]
  /\ counter = [p \in Pids |-> 0]
  /\ mem = [p \in Pids |-> 0]
  /\ jiffies = 0

(* An operator X_Slip is X with a slip a programmer could make; it is used     *)
(* nowhere, and stands in for X to show that a property can fail.              *)

-----------------------------------------------------------------------------
(* Tasks *)

FreePids_OneMore == (0 .. NR_TASK) \ alive

FreePids == Pids \ alive

(* alloc_pid: the lowest free number. *)
NewPid == CHOOSE p \in FreePids : \A q \in FreePids : p <= q

(* execve("idle") of main(), up to current_task = p: a process with a fresh    *)
(* page table, cleared registers and the entry point of the executable.        *)
Execve ==
  /\ at = "boot"
  /\ FreePids # {}
  /\ alive' = alive \cup {NewPid}
  /\ context' = [context EXCEPT ![NewPid].sepc = 0]
  /\ counter' = [counter EXCEPT ![NewPid] = InitialCounter]
  /\ current' = NewPid
  /\ at' = "ready"
  /\ UNCHANGED <<hartVars, mem, jiffies>>

(* The loop of panic(), or what may come of reading behind the end of an       *)
(* array: nothing more can be said of the machine.                             *)
Stop(where) ==
  /\ at' = where
  /\ UNCHANGED <<hartVars, taskVars, current, jiffies>>

(* Its assertions (no such file, short read, not ELF), and an allocator with    *)
(* nothing large enough, which panics or goes on with a word behind its lists  *)
(* (buddy.c:180).                                                              *)
ExecveFails == at = "boot" /\ (Stop("panic") \/ Stop("wild"))

(* switch_to at the end of execve. *)
SwitchTo ==
  /\ at = "ready"
  /\ spp' = 0
  /\ satp' = current
  /\ frame' = context[current]
  /\ at' = "return"
  /\ UNCHANGED <<hart, cause, sscratch, current, taskVars, jiffies>>

-----------------------------------------------------------------------------
(* User mode: the environment of the kernel *)

User == at = "user" /\ hart.sepc # KernelPc

Advance(c) == [c EXCEPT !.sepc = (@ + 1) % PcMod]

Compute ==
  /\ User
  /\ \E v \in Values : hart' = Advance([hart EXCEPT !.a0 = v])
  /\ UNCHANGED <<at, cause, spp, satp, sscratch, frame, current, taskVars, jiffies>>

StoreMem ==
  /\ User
  /\ \E v \in Values : mem' = [mem EXCEPT ![satp] = v]
  /\ hart' = Advance(hart)
  /\ UNCHANGED <<at, cause, spp, satp, sscratch, frame, current, alive, context,
                 counter, jiffies>>

(* The hardware enters trap_entry, which saves the registers to wherever       *)
(* sscratch points and leaves the interrupted a0 in sscratch.                  *)
TrapEntry(why, mode, regs) ==
  /\ cause' = why
  /\ spp' = mode
  /\ IF sscratch = "frame"
     THEN /\ frame' = regs
          /\ sscratch' = "user"
          /\ at' = "entry"
     ELSE /\ at' = "wild"
          /\ UNCHANGED <<frame, sscratch>>
  /\ UNCHANGED <<hart, satp, current, taskVars, jiffies>>

Ecall(n) == User /\ TrapEntry(n, 0, hart)

TimerInterrupt == at = "user" /\ TrapEntry("timer", 0, hart)

(* A page fault or any other exception of a user program. *)
Fault == at = "user" /\ TrapEntry("fault", 0, hart)

-----------------------------------------------------------------------------
(* trap_start and what it calls *)

(* schedule(): the first other task whose counter is above current's. *)
Candidates(cnt) == {p \in alive : p # current /\ cnt[p] > cnt[current]}

NextTask_MissesLast(cnt) ==
  LET ps == Candidates(cnt) \ {NR_TASK - 1}
  IN  IF ps = {} THEN current ELSE CHOOSE p \in ps : \A q \in ps : p <= q

NextTask(cnt) ==
  LET ps == Candidates(cnt)
  IN  IF ps = {} THEN current ELSE CHOOSE p \in ps : \A q \in ps : p <= q

(* Into the context of the current task: as it was, and past the ecall. *)
Saved == [context EXCEPT ![current] = frame]
SavedPast == [context EXCEPT ![current] = Advance(frame)]

(* trap_return_2(), for the task that is current by then. *)
Resume(ctx, p) ==
  /\ context' = ctx
  /\ current' = p
  /\ frame' = ctx[p]
  /\ at' = "return"

Handle(why) == at = "entry" /\ current # NoTask /\ cause = why

(* do_timer(): a tick. A timer interrupt that came from S-mode does not         *)
(* schedule.                                                                    *)
DoTimer_SamePageTable ==
  /\ Handle("timer")
  /\ LET left == [counter EXCEPT ![current] = (@ - 1) % CounterMod]
     IN  counter' = left /\ Resume(Saved, NextTask(left))
  /\ jiffies' = (jiffies + 1) % CounterMod
  /\ UNCHANGED <<hart, cause, spp, satp, sscratch, alive, mem>>

DoTimer ==
  /\ Handle("timer")
  /\ LET left == [counter EXCEPT ![current] = (@ - 1) % CounterMod]
         next == IF spp = 0 THEN NextTask(left) ELSE current
     IN  /\ counter' = left
         /\ Resume(Saved, next)
         /\ satp' = IF next = current THEN satp ELSE next
  /\ jiffies' = (jiffies + 1) % CounterMod
  /\ UNCHANGED <<hart, cause, spp, sscratch, alive, mem>>

SysGetpid ==
  /\ Handle("getpid")
  /\ Resume([SavedPast EXCEPT ![current].a0 = current], current)
  /\ UNCHANGED <<hart, cause, spp, satp, sscratch, alive, counter, mem, jiffies>>

(* What sys_write returns is dropped: a0 stays what it was. The buffer is taken *)
(* to be readable and shorter than internal_buffer.                             *)
SysWrite ==
  /\ Handle("write")
  /\ Resume(SavedPast, current)
  /\ UNCHANGED <<hart, cause, spp, satp, sscratch, alive, counter, mem, jiffies>>

(* sys_fork(). The child's memory is copied from the addresses the parent sees, *)
(* through the page table that is installed.                                    *)
SysFork_CounterCopied ==
  /\ Handle("fork")
  /\ FreePids # {}
  /\ alive' = alive \cup {NewPid}
  /\ counter' = [counter EXCEPT ![NewPid] = counter[current]]
  /\ mem' = [mem EXCEPT ![NewPid] = mem[satp]]
  /\ Resume([SavedPast EXCEPT ![NewPid] = [SavedPast[current] EXCEPT !.a0 = 0],
                              ![current].a0 = NewPid], current)
  /\ UNCHANGED <<hart, cause, spp, satp, sscratch, jiffies>>

SysFork_ParentFirst ==
  /\ Handle("fork")
  /\ FreePids # {}
  /\ alive' = alive \cup {NewPid}
  /\ counter' = [counter EXCEPT ![NewPid] = InitialCounter]
  /\ mem' = [mem EXCEPT ![NewPid] = mem[satp]]
  /\ Resume([SavedPast EXCEPT ![NewPid] = [frame EXCEPT !.a0 = 0],
                              ![current].a0 = NewPid], current)
  /\ UNCHANGED <<hart, cause, spp, satp, sscratch, jiffies>>

SysFork ==
  /\ Handle("fork")
  /\ FreePids # {}
  /\ alive' = alive \cup {NewPid}
  /\ counter' = [counter EXCEPT ![NewPid] = InitialCounter]
  /\ mem' = [mem EXCEPT ![NewPid] = mem[satp]]
  /\ Resume([SavedPast EXCEPT ![NewPid] = [SavedPast[current] EXCEPT !.a0 = 0],
                              ![current].a0 = NewPid], current)
  /\ UNCHANGED <<hart, cause, spp, satp, sscratch, jiffies>>

(* "no free pid"; or the allocator is empty and panics, or goes on with a word  *)
(* behind its lists. The half-made child is left behind and with it the system. *)
SysForkFails ==
  /\ Handle("fork")
  /\ Stop("panic") \/ (FreePids # {} /\ Stop("wild"))

(* Any other exception, and any other number in a7: there syscall() reads       *)
(* syscall_names[] for a message before it looks at the number. Far enough from  *)
(* the array that is a page fault in the handler, while sscratch holds an a0.   *)
Unexpected ==
  \/ (Handle("fault") \/ Handle("unknown")) /\ Stop("panic")
  \/ Handle("unknown") /\ Stop("wild")

(* Without a current task the registers go to a small address: a page fault     *)
(* inside the handler, while sscratch holds an a0.                              *)
NoCurrentTask ==
  /\ at = "entry" /\ current = NoTask
  /\ at' = "wild"
  /\ UNCHANGED <<hartVars, current, taskVars, jiffies>>

TrapStart ==
  DoTimer \/ SysGetpid \/ SysWrite \/ SysFork \/ SysForkFails \/ Unexpected

(* trap_return and sret: registers back, sscratch for the next trap, and to the *)
(* mode the trap came from. A boot interrupted is a boot continued.             *)
TrapReturn ==
  /\ at = "return"
  /\ sscratch' = "frame"
  /\ IF spp = 0
     THEN at' = "user" /\ hart' = frame
     ELSE at' = "ready" /\ UNCHANGED hart
  /\ UNCHANGED <<cause, spp, satp, frame, current, taskVars, jiffies>>

(* The endless loop of panic(). *)
Halted == at \in Stopped /\ UNCHANGED vars

-----------------------------------------------------------------------------
KernelStep == SwitchTo \/ TrapStart \/ TrapReturn

Next ==
  \/ Execve \/ ExecveFails
  \/ Compute \/ StoreMem \/ TimerInterrupt \/ Fault
  \/ \E n \in Syscalls : Ecall(n)
  \/ KernelStep \/ Halted

SafetySpec == Init /\ [][Next]_vars

(* The hart goes on executing the kernel, where interrupts are off. The timer   *)
(* is set again on every tick; one that expires in the kernel stays pending and *)
(* is taken on the return to U-mode, so a program that only makes system calls  *)
(* cannot put it off: strong fairness. User programs owe nothing.               *)
Spec == SafetySpec /\ WF_vars(KernelStep) /\ SF_vars(TimerInterrupt)

(* The timer as it is between trap_init and the first switch_to: enabled, and   *)
(* in S-mode. (SwitchTo's own window, in trap_return, is left out.)             *)
BootTick == at \in {"boot", "ready"} /\ TrapEntry("timer", 1, KernelRegs)

BootSpec == Init /\ [][Next \/ BootTick \/ NoCurrentTask]_vars

-----------------------------------------------------------------------------
(* Properties *)

TypeOK ==
  /\ at \in Places
  /\ hart \in Contexts /\ frame \in Contexts
  /\ cause \in Causes
  /\ spp \in {0, 1}
  /\ satp \in Pids \cup {NoTask} /\ current \in Pids \cup {NoTask}
  /\ sscratch \in {"frame", "user"}
  /\ alive \subseteq Pids
  /\ context \in [Pids -> Contexts]
  /\ counter \in [Pids -> 0 .. CounterMod - 1]
  /\ mem \in [Pids -> Values \cup {0}]
  /\ jiffies \in 0 .. CounterMod - 1

(* From the last instruction of trap_return to the next trap, and through the  *)
(* handler, the page table belongs to current_task, which is a live process;   *)
(* a program is only run while sscratch leads to sscratch_stack, so that       *)
(* trap_entry does not save registers through a user's a0 (the code says so    *)
(* only in the order of csrw, csrrw and memcpy over three files); and what      *)
(* leads the hart astray is an empty allocator or a system call number without *)
(* a name, never a tick, a fault or another system call.                       *)
UserReady ==
  /\ at \in {"entry", "return", "user"} => current \in alive /\ satp = current /\ spp = 0
  /\ at = "user" => sscratch = "frame"
  /\ at = "wild" => current = NoTask \/ cause \in {"fork", "unknown"}

(* Every tick is charged to exactly one process, the one it interrupted, and   *)
(* no process is created with ticks already spent or still to be spent twice:  *)
(* ticks given out = ticks left + jiffies, in uint64 arithmetic.               *)
TicksAccounted ==
  at \notin Stopped =>
    (jiffies + SumFunctionOnSet(counter, alive)) % CounterMod
      = (Cardinality(alive) * InitialCounter) % CounterMod

(* A process that has just been created gets to run for a tick, whatever the   *)
(* others do, fork more processes included (unless the kernel panics).         *)
FreshGetsTick ==
  \A p \in Pids :
    (p \in alive /\ counter[p] = InitialCounter)
      ~> (counter[p] # InitialCounter \/ at \in Stopped)

(* Registers and memory of p, wherever they are: in the hart, in               *)
(* sscratch_stack, or in task[p].context.                                      *)
Registers(p) ==
  CASE p = current /\ at = "user" -> hart
    [] p = current /\ at \in {"entry", "return"} -> frame
    [] OTHER -> context[p]

Machine == [p \in IF at \in Stopped THEN {} ELSE alive |->
  [sepc |-> Registers(p).sepc, a0 |-> Registers(p).a0, mem |-> mem[p]]]

P == INSTANCE Processes WITH machine <- Machine, stopped <- at \in Stopped

(* Isolation: through every trap, switch and fork, each process's registers    *)
(* and memory change by its own instructions and system calls only, each       *)
(* system call takes effect once, and a fork makes one copy.                   *)
Isolation == P!Spec

(* "if timer-inter from s-mode, just return" (sched.c:140): such a tick leaves *)
(* the current task and everybody's registers as they were.                    *)
JustReturn ==
  [][(at = "entry" /\ cause = "timer" /\ spp = 1) =>
       at' = "return" /\ UNCHANGED <<current, context>>]_vars

(* "stable process schedule" (README.md:19), of tasks "waiting for running"    *)
(* (sched.h:9): a process that is alive runs again and again.                  *)
EveryProcessRuns ==
  \A p \in Pids : p \in alive ~> (current = p \/ at \in Stopped)
=============================================================================
