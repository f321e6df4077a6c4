------------------------------ MODULE Console -------------------------------
(***************************************************************************)
(* The way of a text to the screen: the printf of a user program and the     *)
(* buffer behind its _putchar, the write system call, the log of the kernel  *)
(* with its lock, and the console. Processes run one at a time; a tick of     *)
(* the timer may take the processor from one at any point of its program,    *)
(* and the kernel, with interrupts off, does not give it back before its      *)
(* handler is done.                                                         *)
(*                                                                          *)
(* What the kernel has still to do in a handler is a sequence of steps.      *)
(* A step prints one call of printf: the console's own lock is taken and     *)
(* given back around each of its characters, and is free between steps.      *)
(*                                                                          *)
(* Programs are careful: no line is longer than the buffers allow, and none  *)
(* forks inside printf. Ticks before the first process are Kernel.tla's.     *)
(***************************************************************************)
EXTENDS Printf

CONSTANTS
  Process, NoProcess,
  Character,     (* what can be printed, and the zero                            *)
  Pid(_),        (* the digit of a process's number                              *)
  LogCalls,      (* the messages the kernel logs while it boots: [level, call]  *)
  UserCalls,     (* the calls of printf the programs make                       *)
  MaxLine,       (* the 256 characters of sys_write's buffer on the stack       *)
  MaxHeld,       (* how much a program lets its buffer hold: bound of the model  *)
  Stale          (* what that stack may hold from earlier calls                 *)

DEBUG == 1
INFO == 2

Newline == "nl"

(* A text that ends at most one line. *)
OneLine(chars) == \A i \in DOMAIN chars : chars[i] = Newline => i = Len(chars)

ASSUME ConsoleAssumption ==
  /\ Process # {} /\ NoProcess \notin Process
  /\ MaxLine \in Nat \ {0} /\ MaxHeld \in 0 .. MaxLine - 1
  /\ Stale \subseteq [1 .. MaxLine -> Character]

ASSUME CharacterAssumption ==
  /\ {"I", "N", "F", "O", " ", "f", ":", "p", "i", "d", "m", "a", "s", "t", "l", "n", "e", "x",
      Newline, Nul} \subseteq Character
  /\ \A p \in Process : Pid(p) \in Character \ {Newline}

(* A call puts out characters, the zero ones are kept back; and the kernel logs  *)
(* a line at a time.                                                           *)
ASSUME TextAssumption ==
  /\ \A call \in UserCalls : TextOf(call) \in Seq(Character \ {Nul})
  /\ \A c \in LogCalls : TextOf(c.call) \in Seq(Character) /\ OneLine(TextOf(c.call))

VARIABLES
  running,   (* the processes there are                                        *)
  current,   (* current_task                                                   *)
  text,      (* user/printf.c: what a call has not passed to _putchar yet       *)
  buffer,    (* user/printf.c: buffer, up to ccount                             *)
  flush,     (* ... and how far the write of it is: "no", "called" or "done"    *)
  kernel,    (* the steps the kernel has still to do, <<>> in user mode         *)
  locked,    (* LOG_L.lock                                                     *)
  screen,    (* the line the cursor is in                                      *)
  line       (* the line that was completed last, <<>> after any other step     *)
vars == <<running, current, text, buffer, flush, kernel, locked, screen, line>>

user == <<running, current, text, buffer, flush>>

-----------------------------------------------------------------------------
(* The kernel's steps: what to do, the call of printf it is if it is one that   *)
(* the model formats, and the characters it prints.                             *)

Do(op) == [op |-> op, call |-> <<>>, text |-> <<>>]
Prints(chars) == [op |-> "print", call |-> <<>>, text |-> chars]

(* stdout_callback: level and place; the message; the end of the line. log_log *)
(* does that from the level INFO on, which main has set.                        *)
Heading == <<"I", "N", "F", "O", " ", " ", "f", ":">>

Message(message) == <<Do("lock"), Prints(Heading), message, Prints(<<Newline>>), Do("unlock")>>

LogLog_UnlockPrinted(level, message) ==
  IF level >= INFO THEN Message(message) ELSE <<Do("lock")>>

LogLog(level, message) ==
  IF level >= INFO THEN Message(message) ELSE <<Do("lock"), Do("unlock")>>

(* What the system calls, do_timer and execve log and nobody sees. One such *)
(* message stands for those of alloc_pid, alloc_pgtable and map in a row:   *)
(* each takes the lock and gives it back.                                   *)
Unseen == LogLog(DEBUG, Prints(<<"?">>))

(* show_process_virtual_mem_map, with one region. *)
MemoryMap(p) ==
  <<Prints(<<"p", "i", "d", Pid(p), Newline>>), Prints(<<"m", "a", "p", Newline>>),
    Prints(<<Newline>>)>>

-----------------------------------------------------------------------------
(* sys_write *)

(* memcpy of the line and the zero after it, over whatever the stack held.     *)
Copied_NoTerminator(chars, stale) == chars \o SubSeq(stale, Len(chars) + 1, MaxLine)

Copied(chars, stale) ==
  chars \o <<Nul>> \o SubSeq(stale, Len(chars) + 2, MaxLine)

(* The string that an array of characters holds. *)
StringIn(array) ==
  LET ends == {i \in DOMAIN array : array[i] = Nul}
  IN  SubSeq(array, 1, IF ends = {} THEN Len(array) ELSE Min(ends) - 1)

-----------------------------------------------------------------------------

Init ==
  /\ running = {} /\ current = NoProcess
  /\ text = [p \in Process |-> <<>>]
  /\ buffer = [p \in Process |-> <<>>]
  /\ flush = [p \in Process |-> "no"]
  /\ kernel = <<>>
  /\ locked = FALSE
  /\ screen = <<>> /\ line = <<>>

(* main and what it calls log a line. *)
BootLog(c) ==
  /\ current = NoProcess /\ kernel = <<>>
  /\ kernel' = LogLog(c.level, [op |-> "print", call |-> c.call, text |-> TextOf(c.call)])
  /\ line' = <<>>
  /\ UNCHANGED <<user, locked, screen>>

(* execve has loaded the first process, shows its memory map and switches to it. *)
Execve(p) ==
  /\ current = NoProcess /\ kernel = <<>>
  /\ running' = {p} /\ current' = p
  /\ kernel' = Unseen \o MemoryMap(p)
  /\ line' = <<>>
  /\ UNCHANGED <<text, buffer, flush, locked, screen>>

(* acquire in log_log. Had the lock been taken, it would panic, which logs and  *)
(* panics again.                                                            *)
Lock ==
  /\ kernel # <<>> /\ Head(kernel).op = "lock"
  /\ kernel' = IF locked THEN <<Do("panic")>> ELSE Tail(kernel)
  /\ locked' = TRUE
  /\ line' = <<>>
  /\ UNCHANGED <<user, screen>>

Unlock ==
  /\ kernel # <<>> /\ Head(kernel).op = "unlock"
  /\ kernel' = IF locked THEN Tail(kernel) ELSE <<Do("panic")>>
  /\ locked' = FALSE
  /\ line' = <<>>
  /\ UNCHANGED <<user, screen>>

(* printf: each character to the console. Only the last one ends a line.       *)
Show(chars) ==
  IF chars # <<>> /\ Last(chars) = Newline
  THEN line' = screen \o chars /\ screen' = <<>>
  ELSE line' = <<>> /\ screen' = screen \o chars

PrintCall ==
  /\ kernel # <<>> /\ Head(kernel).op = "print"
  /\ kernel' = Tail(kernel)
  /\ Show(Head(kernel).text)
  /\ UNCHANGED <<user, locked>>

(* sys_write's memcpy and its printf("%s") of the copy. *)
Write ==
  /\ kernel # <<>> /\ Head(kernel).op = "write"
  /\ kernel' = Tail(kernel)
  /\ \E stale \in Stale : \E chars \in {StringIn(Copied(buffer[current], stale))} :
       Show(chars)
  /\ flush' = [flush EXCEPT ![current] = "done"]
  /\ UNCHANGED <<running, current, text, buffer, locked>>

(* schedule may take any process there is; Kernel.tla says which. *)
Schedule ==
  /\ kernel # <<>> /\ Head(kernel).op = "schedule"
  /\ \E q \in running :
       /\ current' = q
       /\ kernel' = LogLog(INFO, Prints(IF q = current THEN <<"s", "t", "i", "l", "l", Pid(q)>>
                                        ELSE <<"n", "e", "x", "t", Pid(q)>>))
  /\ line' = <<>>
  /\ UNCHANGED <<running, text, buffer, flush, locked, screen>>

-----------------------------------------------------------------------------
(* User mode. *)

UserMode(p) == p = current /\ kernel = <<>>

(* The program calls printf, after it has asked for the call's arguments.      *)
Printf(p, call) ==
  /\ UserMode(p) /\ text[p] = <<>> /\ flush[p] = "no"
  /\ \E chars \in {TextOf(call)} :
       /\ Len(buffer[p]) + Len(chars) <= MaxHeld
       /\ text' = [text EXCEPT ![p] = chars]
  /\ line' = <<>>
  /\ UNCHANGED <<running, current, buffer, flush, kernel, locked, screen>>

(* _putchar of each character up to the one that ends a line, which calls write. *)
PutChars(p) ==
  LET ends == {i \in DOMAIN text[p] : text[p][i] = Newline}
      n == IF ends = {} THEN Len(text[p]) ELSE Min(ends)
  IN  /\ UserMode(p) /\ text[p] # <<>> /\ flush[p] = "no"
      /\ buffer' = [buffer EXCEPT ![p] = @ \o SubSeq(text[p], 1, n)]
      /\ text' = [text EXCEPT ![p] = SubSeq(@, n + 1, Len(@))]
      /\ IF ends = {} THEN UNCHANGED <<flush, kernel>>
         ELSE /\ flush' = [flush EXCEPT ![p] = "called"]
              /\ kernel' = Append(Unseen, Do("write"))
      /\ line' = <<>>
      /\ UNCHANGED <<running, current, locked, screen>>

(* write has returned: memset and ccount = 0. *)
ResetCount_Kept(p) ==
  /\ UserMode(p) /\ flush[p] = "done"
  /\ flush' = [flush EXCEPT ![p] = "no"]
  /\ line' = <<>>
  /\ UNCHANGED <<running, current, text, buffer, kernel, locked, screen>>

ResetCount(p) ==
  /\ UserMode(p) /\ flush[p] = "done"
  /\ buffer' = [buffer EXCEPT ![p] = <<>>]
  /\ flush' = [flush EXCEPT ![p] = "no"]
  /\ line' = <<>>
  /\ UNCHANGED <<running, current, text, kernel, locked, screen>>

(* fork: the child has a copy of the buffer, and what is in it. *)
Fork(p, child) ==
  /\ UserMode(p) /\ text[p] = <<>> /\ flush[p] = "no"
  /\ child \notin running
  /\ running' = running \cup {child}
  /\ buffer' = [buffer EXCEPT ![child] = buffer[p]]
  /\ kernel' = Unseen \o MemoryMap(child)
  /\ line' = <<>>
  /\ UNCHANGED <<current, text, flush, locked, screen>>

Getpid(p) ==
  /\ UserMode(p) /\ text[p] = <<>> /\ flush[p] = "no"
  /\ kernel' = Unseen
  /\ line' = <<>>
  /\ UNCHANGED <<user, locked, screen>>

(* The timer, in user mode: do_timer. *)
Tick ==
  /\ current # NoProcess /\ kernel = <<>>
  /\ kernel' = Append(Unseen, Do("schedule"))
  /\ line' = <<>>
  /\ UNCHANGED <<user, locked, screen>>

-----------------------------------------------------------------------------

Boot == \/ \E c \in LogCalls : BootLog(c)
        \/ \E p \in Process : Execve(p)

KernelStep == Lock \/ Unlock \/ PrintCall \/ Write \/ Schedule

UserStep(p) == \/ \E call \in UserCalls : Printf(p, call)
               \/ PutChars(p)
               \/ ResetCount(p)
               \/ \E child \in Process : Fork(p, child)
               \/ Getpid(p)

Next == Boot \/ KernelStep \/ (\E p \in Process : UserStep(p)) \/ Tick

(* The processor goes on with what it does in the kernel: interrupts are off.  *)
Spec == Init /\ [][Next]_vars /\ WF_vars(KernelStep)

-----------------------------------------------------------------------------

Ops == {"lock", "unlock", "print", "write", "schedule"}

(* The buffers of a program and of the kernel hold what is put into them: a    *)
(* buffer is a line that has not ended until it is flushed, one that ends is    *)
(* being written, and it leaves room for the zero in sys_write's.              *)
TypeOK ==
  /\ running \subseteq Process /\ current \in running \cup {NoProcess}
  /\ DOMAIN text = Process /\ DOMAIN buffer = Process /\ DOMAIN flush = Process
  /\ \A p \in Process :
       /\ flush[p] \in {"no", "called", "done"}
       /\ Len(buffer[p]) < MaxLine
       /\ p \notin running => buffer[p] = <<>> /\ text[p] = <<>>
       /\ flush[p] # "no" <=> buffer[p] # <<>> /\ Last(buffer[p]) = Newline
       /\ Cardinality({i \in DOMAIN buffer[p] : buffer[p][i] = Newline}) <= 1
  /\ \A i \in DOMAIN kernel : kernel[i].op \in Ops
  /\ locked \in BOOLEAN

(* printf puts out what C asks for, save for the formats Lossy names, and what   *)
(* it puts out for those is something else: _vsnprintf with _ntoa_long,          *)
(* _ntoa_format and _out_rev.                                                  *)
FormatsAsC ==
  \A i \in DOMAIN kernel : \A j \in DOMAIN kernel[i].call : AsInC(kernel[i].call[j])

(* No handler returns, by whichever way through log_log, with the lock of the    *)
(* log taken, and no log_log finds it taken: it would panic, and the panic logs. *)
UserModeUnlocked ==
  /\ kernel = <<>> => ~locked
  /\ kernel # <<>> => Head(kernel).op # "panic"

(* The kernel comes to the end of all it prints and gives the processor back:   *)
(* the lock of the log is never waited for by the one who has it (acquire).     *)
TrapReturns == (kernel # <<>>) ~> (kernel = <<>>)

(* What a process has printed and nobody has seen, and what the kernel is about *)
(* to print and has in the line of the cursor.                                  *)
Waiting(p) == (IF flush[p] = "done" THEN <<>> ELSE buffer[p]) \o text[p]
Saying == screen \o FlattenSeq([i \in DOMAIN kernel |-> kernel[i].text])

Texts == INSTANCE Lines WITH Writer <- Process \cup {NoProcess}, System <- NoProcess,
                             pending <- [w \in Process \cup {NoProcess} |->
                                           IF w = NoProcess THEN Saying ELSE Waiting(w)]

(* The screen shows each line a process prints once, whole, in order and with   *)
(* nothing of another process or of the kernel in it, whatever tick comes        *)
(* between two steps of printf, of the buffer behind it and of write.            *)
KeepsLines == Texts!Spec

=============================================================================
