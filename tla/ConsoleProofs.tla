---------------------------- MODULE ConsoleProofs ----------------------------
(***************************************************************************)
(* The lock of the log: every handler, with whatever it prints, takes it    *)
(* when it is free and gives it back before it returns.                     *)
(*                                                                          *)
(* The lines: what a program has in its buffer is a line that has not ended  *)
(* until write is called with it, what a handler prints makes whole lines of *)
(* what the cursor's line holds, and a program's line comes in at the         *)
(* beginning of one. So Console is what Lines promises of a terminal.        *)
(***************************************************************************)
EXTENDS Console, SumFacts, SequenceTheorems, TLAPS

(* The steps of k can be taken one after the other from a lock that is in state *)
(* l: none of them is a panic, and the lock is free in the end. held[i] is the   *)
(* lock before step i.                                                         *)
Follows(k, l, held) ==
  /\ held \in [1 .. Len(k) + 1 -> BOOLEAN]
  /\ held[1] = l
  /\ held[Len(k) + 1] = FALSE
  /\ \A i \in 1 .. Len(k) :
       /\ k[i].op \in Ops
       /\ k[i].op = "lock" => ~held[i] /\ held[i + 1]
       /\ k[i].op = "unlock" => held[i] /\ ~held[i + 1]
       /\ k[i].op \notin {"lock", "unlock"} => held[i + 1] = held[i]
       /\ k[i].op = "schedule" => ~held[i]

Balanced(k, l) ==
  /\ \E S : k \in Seq(S)
  /\ \E held : Follows(k, l, held)

LockInv == locked \in BOOLEAN /\ Balanced(kernel, locked)

-----------------------------------------------------------------------------

LEMMA BalancedTail ==
  ASSUME NEW k, NEW l \in BOOLEAN, k # <<>>, Balanced(k, l)
  PROVE  /\ Head(k).op \in Ops
         /\ Head(k).op = "lock" => ~l /\ Balanced(Tail(k), TRUE)
         /\ Head(k).op = "unlock" => l /\ Balanced(Tail(k), FALSE)
         /\ Head(k).op \notin {"lock", "unlock"} => Balanced(Tail(k), l)
         /\ Head(k).op = "schedule" => ~l
PROOF
  <1>1. PICK S : k \in Seq(S)
    BY DEF Balanced
  <1>2. PICK held : Follows(k, l, held)
    BY DEF Balanced
  <1>3. /\ Len(k) \in Nat \ {0} /\ Head(k) = k[1]
        /\ Tail(k) \in Seq(S) /\ Len(Tail(k)) = Len(k) - 1
        /\ \A i \in 1 .. Len(Tail(k)) : Tail(k)[i] = k[i + 1]
    BY <1>1
  <1>4. Head(k).op \in Ops
    BY <1>2, <1>3 DEF Follows
  <1> DEFINE rest == [i \in 1 .. Len(k) |-> held[i + 1]]
  <1>5. Follows(Tail(k), held[2], rest)
    <2>1. rest \in [1 .. Len(Tail(k)) + 1 -> BOOLEAN]
      BY <1>2, <1>3 DEF Follows
    <2>2. rest[1] = held[2] /\ rest[Len(Tail(k)) + 1] = FALSE
      BY <1>2, <1>3 DEF Follows
    <2>3. ASSUME NEW i \in 1 .. Len(Tail(k))
          PROVE  /\ Tail(k)[i] = k[i + 1] /\ i + 1 \in 1 .. Len(k)
                 /\ rest[i] = held[i + 1] /\ rest[i + 1] = held[(i + 1) + 1]
      BY <1>3
    <2> HIDE DEF rest
    <2>4. PICK t, n : t = Tail(k) /\ n = Len(Tail(k))
      OBVIOUS
    <2>5. ASSUME NEW i \in 1 .. n
          PROVE  /\ t[i].op \in Ops
                 /\ t[i].op = "lock" => ~rest[i] /\ rest[i + 1]
                 /\ t[i].op = "unlock" => rest[i] /\ ~rest[i + 1]
                 /\ t[i].op \notin {"lock", "unlock"} => rest[i + 1] = rest[i]
                 /\ t[i].op = "schedule" => ~rest[i]
      <3>1. PICK j \in 1 .. Len(k) : j = i + 1
        BY <2>3, <2>4
      <3>2. t[i] = k[j] /\ rest[i] = held[j] /\ rest[i + 1] = held[j + 1]
        BY <2>3, <2>4, <3>1
      <3>3. /\ k[j].op \in Ops
            /\ k[j].op = "lock" => ~held[j] /\ held[j + 1]
            /\ k[j].op = "unlock" => held[j] /\ ~held[j + 1]
            /\ k[j].op \notin {"lock", "unlock"} => held[j + 1] = held[j]
            /\ k[j].op = "schedule" => ~held[j]
        BY <1>2 DEF Follows
      <3> QED BY <3>2, <3>3
    <2> QED BY <2>1, <2>2, <2>4, <2>5 DEF Follows
  <1>6. Balanced(Tail(k), held[2])
    BY <1>3, <1>5 DEF Balanced
  <1>7. /\ held[1] = l /\ held[2] \in BOOLEAN
        /\ k[1].op = "lock" => ~held[1] /\ held[2]
        /\ k[1].op = "unlock" => held[1] /\ ~held[2]
        /\ k[1].op \notin {"lock", "unlock"} => held[2] = held[1]
        /\ k[1].op = "schedule" => ~held[1]
    <2>1. 1 \in 1 .. Len(k) /\ 2 \in 1 .. Len(k) + 1 /\ 1 + 1 = 2
      BY <1>3
    <2> QED BY <1>2, <2>1 DEF Follows
  <1>8. (held[2] => held[2] = TRUE) /\ (~held[2] => held[2] = FALSE)
    BY <1>7
  <1> QED BY <1>3, <1>4, <1>6, <1>7, <1>8

(* A handler that does no more than print. *)
LEMMA BalancedPrints ==
  ASSUME NEW S, NEW k \in Seq(S), \A i \in 1 .. Len(k) : k[i].op \in {"print", "write"}
  PROVE  Balanced(k, FALSE)
PROOF
  <1> DEFINE held == [i \in 1 .. Len(k) + 1 |-> FALSE]
  <1>1. Len(k) \in Nat
    OBVIOUS
  <1>2. held \in [1 .. Len(k) + 1 -> BOOLEAN] /\ held[1] = FALSE /\ held[Len(k) + 1] = FALSE
    BY <1>1
  <1>3. ASSUME NEW i \in 1 .. Len(k)
        PROVE  /\ k[i].op \in Ops
               /\ k[i].op = "lock" => ~held[i] /\ held[i + 1]
               /\ k[i].op = "unlock" => held[i] /\ ~held[i + 1]
               /\ k[i].op \notin {"lock", "unlock"} => held[i + 1] = held[i]
               /\ k[i].op = "schedule" => ~held[i]
    <2>1. k[i].op \in {"print", "write"}
      OBVIOUS
    <2>2. held[i] = FALSE /\ held[i + 1] = FALSE
      BY <1>1
    <2> QED BY <2>1, <2>2 DEF Ops
  <1>4. Follows(k, FALSE, held)
    BY <1>2, <1>3 DEF Follows
  <1> QED BY <1>4 DEF Balanced

(* One handler's doing after another's. *)
LEMMA BalancedConcat ==
  ASSUME NEW a, NEW b, Balanced(a, FALSE), Balanced(b, FALSE)
  PROVE  Balanced(a \o b, FALSE)
PROOF
  <1>1. PICK A : a \in Seq(A)
    BY DEF Balanced
  <1>2. PICK B : b \in Seq(B)
    BY DEF Balanced
  <1>3. PICK heldA : Follows(a, FALSE, heldA)
    BY DEF Balanced
  <1>4. PICK heldB : Follows(b, FALSE, heldB)
    BY DEF Balanced
  <1> DEFINE c == a \o b
             held == [i \in 1 .. Len(c) + 1 |->
                        IF i <= Len(a) THEN heldA[i] ELSE heldB[i - Len(a)]]
  <1>5. a \in Seq(A \cup B) /\ b \in Seq(A \cup B)
    BY <1>1, <1>2
  <1>6. /\ Len(a) \in Nat /\ Len(b) \in Nat
        /\ c \in Seq(A \cup B) /\ Len(c) = Len(a) + Len(b)
        /\ \A i \in 1 .. Len(c) : c[i] = IF i <= Len(a) THEN a[i] ELSE b[i - Len(a)]
    BY <1>5
  <1>7. held \in [1 .. Len(c) + 1 -> BOOLEAN]
    <2> SUFFICES ASSUME NEW i \in 1 .. Len(c) + 1
                 PROVE  (IF i <= Len(a) THEN heldA[i] ELSE heldB[i - Len(a)]) \in BOOLEAN
      OBVIOUS
    <2>1. CASE i <= Len(a)
      BY <1>3, <1>6, <2>1 DEF Follows
    <2>2. CASE ~(i <= Len(a))
      <3>1. i - Len(a) \in 1 .. Len(b) + 1
        BY <1>6, <2>2
      <3> QED BY <1>4, <2>2, <3>1 DEF Follows
    <2> QED BY <2>1, <2>2
  <1>8. /\ \A i \in 1 .. Len(a) : held[i] = heldA[i]
        /\ \A i \in 1 .. Len(b) + 1 : held[Len(a) + i] = heldB[i]
    BY <1>6
  <1>9. held[Len(a) + 1] = FALSE /\ heldA[Len(a) + 1] = FALSE
    <2>1. 1 \in 1 .. Len(b) + 1
      BY <1>6
    <2>2. held[Len(a) + 1] = heldB[1]
      BY <1>8, <2>1
    <2> QED BY <1>3, <1>4, <2>2 DEF Follows
  <1>10. held[1] = FALSE
    <2>1. CASE Len(a) = 0
      BY <1>9, <2>1
    <2>2. CASE Len(a) # 0
      <3>1. 1 \in 1 .. Len(a)
        BY <1>6, <2>2
      <3> QED BY <1>3, <1>8, <3>1 DEF Follows
    <2> QED BY <2>1, <2>2
  <1>11. held[Len(c) + 1] = FALSE
    <2>1. Len(b) + 1 \in 1 .. Len(b) + 1 /\ Len(a) + (Len(b) + 1) = Len(c) + 1
      BY <1>6
    <2>2. held[Len(a) + (Len(b) + 1)] = heldB[Len(b) + 1]
      BY <1>8, <2>1
    <2>3. heldB[Len(b) + 1] = FALSE
      BY <1>4 DEF Follows
    <2> HIDE DEF held, c
    <2> QED BY <2>1, <2>2, <2>3
  <1> HIDE DEF held
  <1>12. ASSUME NEW i \in 1 .. Len(c)
         PROVE  /\ c[i].op \in Ops
                /\ c[i].op = "lock" => ~held[i] /\ held[i + 1]
                /\ c[i].op = "unlock" => held[i] /\ ~held[i + 1]
                /\ c[i].op \notin {"lock", "unlock"} => held[i + 1] = held[i]
                /\ c[i].op = "schedule" => ~held[i]
    <2>1. CASE i <= Len(a)
      <3>1. i \in 1 .. Len(a) /\ c[i] = a[i] /\ held[i] = heldA[i]
        BY <1>6, <1>8, <2>1
      <3>2. held[i + 1] = heldA[i + 1]
        <4>1. CASE i = Len(a)
          BY <1>9, <4>1
        <4>2. CASE i # Len(a)
          BY <1>6, <1>8, <3>1, <4>2
        <4> QED BY <4>1, <4>2
      <3> QED BY <1>3, <3>1, <3>2 DEF Follows
    <2>2. CASE ~(i <= Len(a))
      <3> DEFINE j == i - Len(a)
      <3>1. j \in 1 .. Len(b) /\ c[i] = b[j] /\ i = Len(a) + j /\ i + 1 = Len(a) + (j + 1)
        BY <1>6, <2>2
      <3> HIDE DEF j
      <3>2. j \in 1 .. Len(b) + 1 /\ j + 1 \in 1 .. Len(b) + 1
        BY <1>6, <3>1
      <3>3. held[i] = heldB[j] /\ held[i + 1] = heldB[j + 1]
        BY <1>8, <3>1, <3>2
      <3> QED BY <1>4, <3>1, <3>3 DEF Follows
    <2> QED BY <2>1, <2>2
  <1>13. Follows(c, FALSE, held)
    BY <1>7, <1>10, <1>11, <1>12 DEF Follows
  <1> QED BY <1>6, <1>13 DEF Balanced

(* A step that leaves the lock as it is. *)
Neutral(step) == step.op \in {"print", "write", "schedule"}

LEMMA BalancedSingle ==
  ASSUME NEW step, Neutral(step)
  PROVE  Balanced(<<step>>, FALSE)
PROOF
  <1> DEFINE held == [i \in 1 .. 2 |-> FALSE]
  <1>1. <<step>> \in Seq({step}) /\ Len(<<step>>) = 1 /\ <<step>>[1] = step
    OBVIOUS
  <1>2. Follows(<<step>>, FALSE, held)
    <2>1. ASSUME NEW i \in 1 .. 1
          PROVE  <<step>>[i] = step /\ held[i] = FALSE /\ held[i + 1] = FALSE
      BY <1>1
    <2>2. held \in [1 .. 1 + 1 -> BOOLEAN] /\ held[1] = FALSE /\ held[1 + 1] = FALSE
      OBVIOUS
    <2> HIDE DEF held
    <2> QED BY <1>1, <2>1, <2>2 DEF Follows, Ops, Neutral
  <1> QED BY <1>1, <1>2 DEF Balanced

(* log_log, on each of its ways.                                              *)
LEMMA BalancedLog ==
  ASSUME NEW level, NEW message, message.op = "print"
  PROVE  Balanced(LogLog(level, message), FALSE)
PROOF
  <1> DEFINE lock == Do("lock")  unlock == Do("unlock")
             heading == Prints(Heading)  end == Prints(<<Newline>>)
  <1>1. lock.op = "lock" /\ unlock.op = "unlock" /\ heading.op = "print" /\ end.op = "print"
    BY DEF Do, Prints
  <1>2. CASE level >= INFO
    <2> DEFINE k == <<lock, heading, message, end, unlock>>
               held == [i \in 1 .. 6 |-> IF i = 1 \/ i = 6 THEN FALSE ELSE TRUE]
    <2>1. LogLog(level, message) = k
      BY <1>2 DEF LogLog, Message
    <2>2. k \in Seq({lock, heading, message, end, unlock}) /\ Len(k) = 5
      OBVIOUS
    <2>3. /\ k[1] = lock /\ k[2] = heading /\ k[3] = message /\ k[4] = end /\ k[5] = unlock
      OBVIOUS
    <2>4. /\ held \in [1 .. 5 + 1 -> BOOLEAN]
          /\ ~held[1] /\ held[2] /\ held[3] /\ held[4] /\ held[5] /\ ~held[6]
      OBVIOUS
    <2> HIDE DEF k, held, lock, unlock, heading, end
    <2>5. ASSUME NEW i \in 1 .. 5
          PROVE  /\ k[i].op \in Ops
                 /\ k[i].op = "lock" => ~held[i] /\ held[i + 1]
                 /\ k[i].op = "unlock" => held[i] /\ ~held[i + 1]
                 /\ k[i].op \notin {"lock", "unlock"} => held[i + 1] = held[i]
                 /\ k[i].op = "schedule" => ~held[i]
      <3>1. i = 1 \/ i = 2 \/ i = 3 \/ i = 4 \/ i = 5
        OBVIOUS
      <3> QED BY <1>1, <2>3, <2>4, <3>1 DEF Ops
    <2>6. Follows(k, FALSE, held)
      BY <2>2, <2>4, <2>5 DEF Follows
    <2> QED BY <2>1, <2>2, <2>6 DEF Balanced
  <1>3. CASE ~(level >= INFO)
    <2> DEFINE k == <<lock, unlock>>
               held == [i \in 1 .. 3 |-> IF i = 2 THEN TRUE ELSE FALSE]
    <2>1. LogLog(level, message) = k
      BY <1>3 DEF LogLog
    <2>2. k \in Seq({lock, unlock}) /\ Len(k) = 2 /\ k[1] = lock /\ k[2] = unlock
      OBVIOUS
    <2>3. held \in [1 .. 2 + 1 -> BOOLEAN] /\ ~held[1] /\ held[2] /\ ~held[3]
      OBVIOUS
    <2> HIDE DEF k, held, lock, unlock
    <2>4. ASSUME NEW i \in 1 .. 2
          PROVE  /\ k[i].op \in Ops
                 /\ k[i].op = "lock" => ~held[i] /\ held[i + 1]
                 /\ k[i].op = "unlock" => held[i] /\ ~held[i + 1]
                 /\ k[i].op \notin {"lock", "unlock"} => held[i + 1] = held[i]
                 /\ k[i].op = "schedule" => ~held[i]
      <3>1. i = 1 \/ i = 2
        OBVIOUS
      <3> QED BY <1>1, <2>2, <2>3, <3>1 DEF Ops
    <2>5. Follows(k, FALSE, held)
      BY <2>2, <2>3, <2>4 DEF Follows
    <2> QED BY <2>1, <2>2, <2>5 DEF Balanced
  <1> QED BY <1>2, <1>3

LEMMA BalancedUnseen == Balanced(Unseen, FALSE)
PROOF
  BY BalancedLog DEF Unseen, Prints

LEMMA BalancedMap ==
  ASSUME NEW p
  PROVE  Balanced(MemoryMap(p), FALSE)
PROOF
  <1> DEFINE a == Prints(<<"p", "i", "d", Pid(p), Newline>>)
             b == Prints(<<"m", "a", "p", Newline>>)
             c == Prints(<<Newline>>)
  <1>1. a.op = "print" /\ b.op = "print" /\ c.op = "print"
    BY DEF Prints
  <1>2. MemoryMap(p) = <<a, b, c>>
    BY DEF MemoryMap
  <1> HIDE DEF a, b, c
  <1>3. <<a, b, c>> \in Seq({a, b, c}) /\ \A i \in 1 .. Len(<<a, b, c>>) :
          <<a, b, c>>[i].op \in {"print", "write"}
    BY <1>1
  <1> QED BY <1>2, <1>3, BalancedPrints

(* What one step puts after Unseen. *)
LEMMA BalancedAppend ==
  ASSUME NEW step, Neutral(step)
  PROVE  Balanced(Append(Unseen, step), FALSE)
PROOF
  <1>1. PICK S : Unseen \in Seq(S)
    BY BalancedUnseen DEF Balanced
  <1>2. Append(Unseen, step) = Unseen \o <<step>>
    <2>1. Unseen \in Seq(S \cup {step}) /\ step \in S \cup {step}
      BY <1>1
    <2> QED BY <2>1
  <1>3. Balanced(<<step>>, FALSE)
    BY BalancedSingle
  <1>4. Balanced(Unseen \o <<step>>, FALSE)
    BY <1>3, BalancedUnseen, BalancedConcat
  <1> QED BY <1>2, <1>4

(* Nothing is left of a handler that has returned.                            *)
LEMMA BalancedNothing ==
  /\ Balanced(<<>>, FALSE)
  /\ \A l : Balanced(<<>>, l) => l = FALSE
PROOF
  <1>1. Balanced(<<>>, FALSE)
    <2>1. <<>> \in Seq({}) /\ \A i \in 1 .. Len(<<>>) : <<>>[i].op \in {"print", "write"}
      OBVIOUS
    <2> QED BY <2>1, BalancedPrints
  <1>2. ASSUME NEW l, Balanced(<<>>, l) PROVE l = FALSE
    <2>1. PICK held : Follows(<<>>, l, held)
      BY <1>2 DEF Balanced
    <2>2. Len(<<>>) = 0
      OBVIOUS
    <2> QED BY <2>1, <2>2 DEF Follows
  <1> QED BY <1>1, <1>2

-----------------------------------------------------------------------------

(* A handler starts when the kernel has nothing to do, and so with the lock free. *)
LEMMA HandlerStarts ==
  ASSUME LockInv, kernel = <<>>, locked' = locked, Balanced(kernel', FALSE)
  PROVE  LockInv'
PROOF
  <1>1. locked = FALSE
    BY BalancedNothing DEF LockInv
  <1> QED BY <1>1 DEF LockInv

LEMMA KeepsLockInv == LockInv /\ [Next]_vars => LockInv'
PROOF
  <1> SUFFICES ASSUME LockInv, [Next]_vars PROVE LockInv'
    OBVIOUS
  <1>1. ASSUME NEW c \in LogCalls, BootLog(c) PROVE LockInv'
    <2> DEFINE message == [op |-> "print", call |-> c.call, text |-> TextOf(c.call)]
    <2>1. kernel = <<>> /\ locked' = locked /\ kernel' = LogLog(c.level, message)
      BY <1>1 DEF BootLog
    <2>2. message.op = "print"
      OBVIOUS
    <2> HIDE DEF message
    <2>3. Balanced(LogLog(c.level, message), FALSE)
      BY <2>2, BalancedLog
    <2> QED BY <2>1, <2>3, HandlerStarts
  <1>2. ASSUME NEW p \in Process, Execve(p) PROVE LockInv'
    <2>1. kernel = <<>> /\ locked' = locked /\ kernel' = Unseen \o MemoryMap(p)
      BY <1>2 DEF Execve
    <2> QED BY <2>1, BalancedUnseen, BalancedMap, BalancedConcat, HandlerStarts
  <1>3. ASSUME Lock PROVE LockInv'
    BY <1>3, BalancedTail DEF Lock, LockInv
  <1>4. ASSUME Unlock PROVE LockInv'
    BY <1>4, BalancedTail DEF Unlock, LockInv
  <1>5. ASSUME PrintCall PROVE LockInv'
    BY <1>5, BalancedTail DEF PrintCall, LockInv
  <1>6. ASSUME Write PROVE LockInv'
    BY <1>6, BalancedTail DEF Write, LockInv
  <1>7. ASSUME Schedule PROVE LockInv'
    <2>1. kernel # <<>> /\ Head(kernel).op = "schedule" /\ locked' = locked
      BY <1>7 DEF Schedule
    <2>2. locked = FALSE
      BY <2>1, BalancedTail DEF LockInv
    <2>3. PICK chars : kernel' = LogLog(INFO, Prints(chars))
      BY <1>7 DEF Schedule
    <2>4. Prints(chars).op = "print"
      BY DEF Prints
    <2>5. Balanced(kernel', FALSE)
      BY <2>3, <2>4, BalancedLog
    <2> QED BY <2>1, <2>2, <2>5 DEF LockInv
  <1>8. ASSUME NEW p \in Process, UserStep(p) PROVE LockInv'
    <2>1. CASE \E call \in UserCalls : Printf(p, call)
      BY <2>1 DEF Printf, LockInv
    <2>2. CASE PutChars(p)
      <3>1. kernel = <<>> /\ locked' = locked
        BY <2>2 DEF PutChars, UserMode
      <3>2. kernel' = kernel \/ kernel' = Append(Unseen, Do("write"))
        BY <2>2 DEF PutChars
      <3>3. Neutral(Do("write"))
        BY DEF Do, Neutral
      <3>4. Balanced(kernel', FALSE)
        <4>1. Balanced(Append(Unseen, Do("write")), FALSE)
          BY <3>3, BalancedAppend
        <4> QED BY <3>1, <3>2, <4>1, BalancedNothing
      <3> QED BY <3>1, <3>4, HandlerStarts
    <2>3. CASE ResetCount(p)
      BY <2>3 DEF ResetCount, LockInv
    <2>4. CASE \E child \in Process : Fork(p, child)
      <3>1. PICK child \in Process : Fork(p, child)
        BY <2>4
      <3>2. kernel = <<>> /\ locked' = locked /\ kernel' = Unseen \o MemoryMap(child)
        BY <3>1 DEF Fork, UserMode
      <3> QED BY <3>2, BalancedUnseen, BalancedMap, BalancedConcat, HandlerStarts
    <2>5. CASE Getpid(p)
      <3>1. kernel = <<>> /\ locked' = locked /\ kernel' = Unseen
        BY <2>5 DEF Getpid, UserMode
      <3> QED BY <3>1, BalancedUnseen, HandlerStarts
    <2> QED BY <1>8, <2>1, <2>2, <2>3, <2>4, <2>5 DEF UserStep
  <1>9. ASSUME Tick PROVE LockInv'
    <2>1. kernel = <<>> /\ locked' = locked /\ kernel' = Append(Unseen, Do("schedule"))
      BY <1>9 DEF Tick
    <2>2. Neutral(Do("schedule"))
      BY DEF Do, Neutral
    <2>3. Balanced(Append(Unseen, Do("schedule")), FALSE)
      BY <2>2, BalancedAppend
    <2> QED BY <2>1, <2>3, HandlerStarts
  <1>10. CASE UNCHANGED vars
    BY <1>10 DEF vars, LockInv
  <1> QED BY <1>1, <1>2, <1>3, <1>4, <1>5, <1>6, <1>7, <1>8, <1>9, <1>10
        DEF Next, Boot, KernelStep

(* No handler returns with the lock of the log taken or finds it taken,        *)
(* whatever processes there are, whatever they print and whatever the kernel   *)
(* logs: the panics of acquire and release are not reached through log_log.    *)
THEOREM LogLockFree == Spec => []UserModeUnlocked
PROOF
  <1>1. Init => LockInv
    BY BalancedNothing DEF Init, LockInv
  <1>2. LockInv => UserModeUnlocked
    <2> SUFFICES ASSUME LockInv PROVE UserModeUnlocked
      OBVIOUS
    <2>1. kernel = <<>> => ~locked
      BY BalancedNothing DEF LockInv
    <2>2. kernel # <<>> => Head(kernel).op \in Ops
      BY BalancedTail DEF LockInv
    <2> QED BY <2>1, <2>2 DEF UserModeUnlocked, Ops
  <1> QED BY <1>1, <1>2, KeepsLockInv, PTL DEF Spec

-----------------------------------------------------------------------------
(* Texts put together *)

(* The function FlattenSeq is defined by, up to place n.                       *)
IsFlat(h, s, n) == h = [i \in 1 .. n |-> IF i = 1 THEN s[i] ELSE h[i - 1] \o s[i]]

(* r[i] is the first i texts of s, one after the other.                        *)
Rows(r, S, s) ==
  /\ r \in [0 .. Len(s) -> Seq(S)]
  /\ r[0] = <<>>
  /\ \A i \in 1 .. Len(s) : r[i] = r[i - 1] \o s[i]

LEMMA FlatExists ==
  ASSUME NEW S, NEW s \in Seq(Seq(S))
  PROVE  \A n \in 0 .. Len(s) : \E h : IsFlat(h, s, n)
PROOF
  <1> DEFINE G == {n \in 0 .. Len(s) : \E h : IsFlat(h, s, n)}
  <1>1. Len(s) \in Nat
    OBVIOUS
  <1>2. 0 \in G
    <2>1. IsFlat(<<>>, s, 0)
      BY DEF IsFlat
    <2> QED BY <1>1, <2>1
  <1>3. ASSUME NEW k \in 1 .. Len(s), k - 1 \in G PROVE k \in G
    <2>1. PICK h : IsFlat(h, s, k - 1)
      BY <1>3
    <2> DEFINE g == [i \in 1 .. k |-> IF i < k THEN h[i]
                                      ELSE IF i = 1 THEN s[i] ELSE h[i - 1] \o s[i]]
    <2>2. \A i \in 1 .. k : g[i] = IF i < k THEN h[i]
                                   ELSE IF i = 1 THEN s[i] ELSE h[i - 1] \o s[i]
      OBVIOUS
    <2>3. \A i \in 1 .. k - 1 : h[i] = IF i = 1 THEN s[i] ELSE h[i - 1] \o s[i]
      BY <2>1 DEF IsFlat
    <2>4. ASSUME NEW i \in 1 .. k
          PROVE  g[i] = IF i = 1 THEN s[i] ELSE g[i - 1] \o s[i]
      <3>1. CASE i < k
        <4>1. g[i] = IF i = 1 THEN s[i] ELSE h[i - 1] \o s[i]
          BY <1>1, <2>2, <2>3, <3>1
        <4>2. i # 1 => g[i - 1] = h[i - 1]
          BY <1>1, <2>2, <3>1
        <4> HIDE DEF g
        <4> QED BY <4>1, <4>2
      <3>2. CASE i = k
        <4>1. g[i] = IF i = 1 THEN s[i] ELSE h[i - 1] \o s[i]
          BY <2>2, <3>2
        <4>2. i # 1 => g[i - 1] = h[i - 1]
          BY <1>1, <2>2, <3>2
        <4> HIDE DEF g
        <4> QED BY <4>1, <4>2
      <3> QED BY <1>1, <3>1, <3>2
    <2>5. IsFlat(g, s, k)
      <3>1. g = [i \in 1 .. k |-> g[i]]
        OBVIOUS
      <3> HIDE DEF g
      <3>2. [i \in 1 .. k |-> g[i]] = [i \in 1 .. k |-> IF i = 1 THEN s[i] ELSE g[i - 1] \o s[i]]
        BY <2>4
      <3> QED BY <3>1, <3>2 DEF IsFlat
    <2> HIDE DEF g
    <2> QED BY <1>1, <2>5
  <1> HIDE DEF G
  <1>4. \A n \in 0 .. Len(s) : n \in G
    BY <1>1, <1>2, <1>3, SumFold!UpTo
  <1> QED BY <1>4 DEF G

LEMMA FlatRows ==
  ASSUME NEW S, NEW s \in Seq(Seq(S))
  PROVE  \E r : Rows(r, S, s) /\ FlattenSeq(s) = r[Len(s)]
PROOF
  <1>1. Len(s) \in Nat /\ \A i \in 1 .. Len(s) : s[i] \in Seq(S)
    OBVIOUS
  <1>2. PICK h : h = CHOOSE g : IsFlat(g, s, Len(s))
    OBVIOUS
  <1>3. IsFlat(h, s, Len(s))
    BY <1>1, <1>2, FlatExists
  <1>4. FlattenSeq(s) = IF Len(s) = 0 THEN <<>> ELSE h[Len(s)]
    <2>1. Len(s) = 0 => s = <<>>
      OBVIOUS
    <2> QED BY <1>2, <2>1 DEF FlattenSeq, IsFlat
  <1> DEFINE r == [i \in 0 .. Len(s) |-> IF i = 0 THEN <<>> ELSE h[i]]
             G == {i \in 0 .. Len(s) : r[i] \in Seq(S)}
  <1>5. r[0] = <<>> /\ r[Len(s)] = FlattenSeq(s)
    BY <1>1, <1>4
  <1>6. ASSUME NEW i \in 1 .. Len(s) PROVE r[i] = r[i - 1] \o s[i]
    <2>1. h[i] = IF i = 1 THEN s[i] ELSE h[i - 1] \o s[i]
      BY <1>3 DEF IsFlat
    <2>2. r[i] = h[i] /\ r[i - 1] = IF i = 1 THEN <<>> ELSE h[i - 1]
      BY <1>1
    <2>3. <<>> \o s[i] = s[i]
      BY <1>1
    <2> HIDE DEF r
    <2> QED BY <2>1, <2>2, <2>3
  <1>7. r = [i \in 0 .. Len(s) |-> r[i]]
    OBVIOUS
  <1> HIDE DEF r
  <1>8. 0 \in G
    <2>1. <<>> \in Seq(S) /\ 0 \in 0 .. Len(s)
      BY <1>1
    <2> QED BY <1>5, <2>1
  <1>9. ASSUME NEW k \in 1 .. Len(s), k - 1 \in G PROVE k \in G
    <2>1. r[k - 1] \in Seq(S) /\ s[k] \in Seq(S) /\ k \in 0 .. Len(s)
      BY <1>1, <1>9
    <2>2. r[k - 1] \o s[k] \in Seq(S)
      BY <2>1, ConcatProperties
    <2> QED BY <1>6, <2>1, <2>2
  <1> HIDE DEF G
  <1>10. \A i \in 0 .. Len(s) : i \in G
    BY <1>1, <1>8, <1>9, SumFold!UpTo
  <1>11. r \in [0 .. Len(s) -> Seq(S)]
    BY <1>7, <1>10 DEF G
  <1> QED BY <1>5, <1>6, <1>11 DEF Rows

(* There is one such row of texts only.                                       *)
LEMMA RowsAgree ==
  ASSUME NEW S, NEW s \in Seq(Seq(S)), NEW r, Rows(r, S, s), NEW q, Rows(q, S, s)
  PROVE  r[Len(s)] = q[Len(s)]
PROOF
  <1> DEFINE G == {i \in 0 .. Len(s) : r[i] = q[i]}
  <1>1. Len(s) \in Nat
    OBVIOUS
  <1>2. 0 \in G
    BY <1>1 DEF Rows
  <1>3. ASSUME NEW k \in 1 .. Len(s), k - 1 \in G PROVE k \in G
    <2>1. r[k] = r[k - 1] \o s[k] /\ q[k] = q[k - 1] \o s[k]
      BY DEF Rows
    <2>2. r[k - 1] = q[k - 1] /\ k \in 0 .. Len(s)
      BY <1>1, <1>3
    <2> QED BY <2>1, <2>2
  <1> HIDE DEF G
  <1>4. \A i \in 0 .. Len(s) : i \in G
    BY <1>1, <1>2, <1>3, SumFold!UpTo
  <1> QED BY <1>1, <1>4 DEF G

LEMMA FlatType ==
  ASSUME NEW S, NEW s \in Seq(Seq(S))
  PROVE  FlattenSeq(s) \in Seq(S)
PROOF
  <1>1. PICK r : Rows(r, S, s) /\ FlattenSeq(s) = r[Len(s)]
    BY FlatRows
  <1>2. Len(s) \in 0 .. Len(s)
    OBVIOUS
  <1> QED BY <1>1, <1>2 DEF Rows

LEMMA FlatNothing == FlattenSeq(<<>>) = <<>>
PROOF
  BY DEF FlattenSeq

InAnyOrder(x, y, z) == (x \o y) \o z = x \o (y \o z)

LEMMA JoinTexts ==
  ASSUME NEW S, NEW x \in Seq(S), NEW y \in Seq(S), NEW z \in Seq(S)
  PROVE  InAnyOrder(x, y, z)
PROOF
  BY ConcatAssociative DEF InAnyOrder

(* The first text comes first.                                                *)
LEMMA FlatHead ==
  ASSUME NEW S, NEW s \in Seq(Seq(S)), s # <<>>
  PROVE  FlattenSeq(s) = Head(s) \o FlattenSeq(Tail(s))
PROOF
  <1>1. /\ Len(s) \in Nat \ {0} /\ Head(s) = s[1] /\ Head(s) \in Seq(S)
        /\ Tail(s) \in Seq(Seq(S)) /\ Len(Tail(s)) = Len(s) - 1
        /\ \A i \in 1 .. Len(s) - 1 : Tail(s)[i] = s[i + 1]
        /\ \A i \in 1 .. Len(s) : s[i] \in Seq(S)
    OBVIOUS
  <1>2. PICK t, n, a : t = Tail(s) /\ n = Len(s) /\ a = Head(s)
    OBVIOUS
  <1>3. PICK q : Rows(q, S, t) /\ FlattenSeq(t) = q[Len(t)]
    BY <1>1, <1>2, FlatRows
  <1>4. PICK r : Rows(r, S, s) /\ FlattenSeq(s) = r[Len(s)]
    BY FlatRows
  <1> DEFINE p == [i \in 0 .. n |-> IF i = 0 THEN <<>> ELSE a \o q[i - 1]]
  <1>5. \A i \in 0 .. n - 1 : q[i] \in Seq(S)
    BY <1>1, <1>2, <1>3 DEF Rows
  <1>12. n \in Nat \ {0} /\ Len(t) = n - 1 /\ a \in Seq(S)
    BY <1>1, <1>2
  <1>6. p[0] = <<>> /\ \A i \in 1 .. n : p[i] = a \o q[i - 1]
    <2>1. 0 \in 0 .. n /\ \A i \in 1 .. n : i \in 0 .. n /\ i # 0
      BY <1>12
    <2> QED BY <2>1, Zenon
  <1>7. p \in [0 .. n -> Seq(S)]
    <2>1. ASSUME NEW i \in 0 .. n PROVE p[i] \in Seq(S)
      <3>1. CASE i = 0
        BY <1>6, <3>1
      <3>2. CASE i # 0
        <4> HIDE DEF p
        <4>1. i \in 1 .. n /\ i - 1 \in 0 .. n - 1
          BY <1>12, <3>2
        <4>2. q[i - 1] \in Seq(S) /\ p[i] = a \o q[i - 1]
          BY <1>5, <1>6, <4>1
        <4>3. a \o q[i - 1] \in Seq(S)
          BY <1>12, <4>2, ConcatProperties
        <4> QED BY <4>2, <4>3
      <3> QED BY <3>1, <3>2
    <2> QED BY <2>1
  <1> HIDE DEF p
  <1>8. ASSUME NEW i \in 1 .. n PROVE p[i] = p[i - 1] \o s[i]
    <2>1. CASE i = 1
      <3>1. 1 \in 1 .. n /\ q[0] = <<>> /\ s[1] = a
        BY <1>1, <1>2, <1>3, <1>12 DEF Rows
      <3>2. p[1] = a \o q[1 - 1] /\ 1 - 1 = 0 /\ p[0] = <<>>
        BY <1>6, <3>1
      <3>3. a \o <<>> = <<>> \o a
        BY <1>12, ConcatEmptySeq
      <3> QED BY <2>1, <3>1, <3>2, <3>3
    <2>2. CASE i # 1
      <3>1. i - 1 \in 1 .. n - 1 /\ i - 2 \in 0 .. n - 1 /\ (i - 1) - 1 = i - 2
        BY <1>12, <2>2
      <3>6. PICK j \in 1 .. n - 1 : j = i - 1 /\ j - 1 = i - 2 /\ j + 1 = i /\ j \in 1 .. n
        BY <1>12, <3>1
      <3>2. q[j] = q[j - 1] \o t[j] /\ t[j] = s[i]
        BY <1>1, <1>2, <1>3, <1>12, <3>6 DEF Rows
      <3>3. p[i] = a \o q[j] /\ p[j] = a \o q[j - 1]
        BY <1>6, <3>6
      <3>4. q[j - 1] \in Seq(S) /\ s[i] \in Seq(S) /\ a \in Seq(S)
        BY <1>1, <1>2, <1>5, <3>1, <3>6
      <3>5. (a \o q[j - 1]) \o s[i] = a \o (q[j - 1] \o s[i])
        <4>1. PICK x \in Seq(S), y \in Seq(S), z \in Seq(S) :
                     x = a /\ y = q[j - 1] /\ z = s[i]
          BY <3>4
        <4>2. InAnyOrder(x, y, z)
          BY JoinTexts, Zenon
        <4> QED BY <4>1, <4>2 DEF InAnyOrder
      <3> QED BY <3>2, <3>3, <3>5, <3>6
    <2> QED BY <2>1, <2>2
  <1>9. Rows(p, S, s)
    BY <1>2, <1>6, <1>7, <1>8 DEF Rows
  <1>10. r[Len(s)] = p[Len(s)]
    BY <1>4, <1>9, RowsAgree
  <1>11. p[n] = a \o q[n - 1]
    <2>1. n \in 1 .. n
      BY <1>12
    <2> QED BY <1>6, <2>1
  <1> QED BY <1>2, <1>3, <1>4, <1>12, <1>10, <1>11

-----------------------------------------------------------------------------
(* What a handler prints *)

(* Step i of k prints text that ends a line at most at its end; the cursor is    *)
(* at the beginning of a line before it if i is in at. A program's line is       *)
(* printed in, and the processor given away in, the last step of a handler.     *)
Tells(k, at) ==
  /\ at \subseteq 1 .. Len(k) + 1 /\ Len(k) + 1 \in at
  /\ \A i \in 1 .. Len(k) :
       /\ k[i].text \in Seq(Character) /\ OneLine(k[i].text)
       /\ k[i].op # "print" => k[i].text = <<>>
       /\ k[i].text = <<>> => (i + 1 \in at <=> i \in at)
       /\ k[i].text # <<>> => (i + 1 \in at <=> Last(k[i].text) = Newline)
       /\ k[i].op \in {"write", "schedule"} => i = Len(k)

(* The steps of k make lines of what is on the screen and what they print. *)
Orderly(k, before) ==
  /\ \E S : k \in Seq(S)
  /\ \E at : Tells(k, at) /\ (1 \in at <=> before = <<>>)

LEMMA OrderlyNothing == \A before : Orderly(<<>>, before) => before = <<>>
PROOF
  <1> SUFFICES ASSUME NEW before, Orderly(<<>>, before) PROVE before = <<>>
    OBVIOUS
  <1>1. PICK at : Tells(<<>>, at) /\ (1 \in at <=> before = <<>>)
    BY DEF Orderly
  <1>2. Len(<<>>) + 1 = 1
    OBVIOUS
  <1> QED BY <1>1, <1>2 DEF Tells

(* The line of the cursor after a text. *)
LineAfter(before, chars) ==
  IF chars # <<>> /\ Last(chars) = Newline THEN <<>> ELSE before \o chars

LEMMA OrderlyTail ==
  ASSUME NEW k, k # <<>>, NEW before \in Seq(Character), Orderly(k, before)
  PROVE  /\ Head(k).text \in Seq(Character) /\ OneLine(Head(k).text)
         /\ Head(k).op # "print" => Head(k).text = <<>>
         /\ Head(k).op \in {"write", "schedule"} => Tail(k) = <<>> /\ before = <<>>
         /\ Orderly(Tail(k), LineAfter(before, Head(k).text))
PROOF
  <1>1. PICK S : k \in Seq(S)
    BY DEF Orderly
  <1>2. PICK at : Tells(k, at) /\ (1 \in at <=> before = <<>>)
    BY DEF Orderly
  <1>3. /\ Len(k) \in Nat \ {0} /\ Head(k) = k[1]
        /\ Tail(k) \in Seq(S) /\ Len(Tail(k)) = Len(k) - 1
        /\ \A i \in 1 .. Len(Tail(k)) : Tail(k)[i] = k[i + 1]
    BY <1>1
  <1>4. PICK n, t, x : n = Len(k) - 1 /\ t = Tail(k) /\ x = Head(k).text
    OBVIOUS
  <1>5. n \in Nat /\ Len(t) = n /\ Len(k) = n + 1 /\ x = k[1].text /\ 1 \in 1 .. Len(k)
    BY <1>3, <1>4
  <1>6. /\ x \in Seq(Character) /\ OneLine(x) /\ (Head(k).op # "print" => x = <<>>)
        /\ x = <<>> => (1 + 1 \in at <=> 1 \in at)
        /\ x # <<>> => (1 + 1 \in at <=> Last(x) = Newline)
        /\ Head(k).op \in {"write", "schedule"} => 1 = Len(k)
    BY <1>2, <1>3, <1>5 DEF Tells
  <1>7. Head(k).op \in {"write", "schedule"} => t = <<>> /\ before = <<>>
    <2> SUFFICES ASSUME Head(k).op \in {"write", "schedule"} PROVE t = <<>> /\ before = <<>>
      OBVIOUS
    <2>1. Len(k) = 1 /\ Len(t) = 0 /\ t \in Seq(S)
      BY <1>3, <1>4, <1>5, <1>6
    <2>2. t = <<>>
      BY <2>1
    <2>3. 1 + 1 \in at
      BY <1>2, <2>1 DEF Tells
    <2>4. x = <<>>
      BY <1>6
    <2> QED BY <1>2, <1>6, <2>2, <2>3, <2>4
  <1> DEFINE rest == {i \in 1 .. n + 1 : i + 1 \in at}
  <1>8. Tells(t, rest)
    <2>1. rest \subseteq 1 .. Len(t) + 1 /\ Len(t) + 1 \in rest
      BY <1>2, <1>5 DEF Tells
    <2>2. ASSUME NEW i \in 1 .. n
          PROVE  /\ t[i].text \in Seq(Character) /\ OneLine(t[i].text)
                 /\ t[i].op # "print" => t[i].text = <<>>
                 /\ t[i].text = <<>> => (i + 1 \in rest <=> i \in rest)
                 /\ t[i].text # <<>> => (i + 1 \in rest <=> Last(t[i].text) = Newline)
                 /\ t[i].op \in {"write", "schedule"} => i = n
      <3>1. PICK j \in 1 .. Len(k) : j = i + 1 /\ t[i] = k[j]
        BY <1>3, <1>4, <1>5
      <3>2. (i \in rest <=> j \in at) /\ (i + 1 \in rest <=> j + 1 \in at)
        BY <1>5, <3>1
      <3> HIDE DEF rest
      <3>3. /\ k[j].text \in Seq(Character) /\ OneLine(k[j].text)
            /\ k[j].op # "print" => k[j].text = <<>>
            /\ k[j].text = <<>> => (j + 1 \in at <=> j \in at)
            /\ k[j].text # <<>> => (j + 1 \in at <=> Last(k[j].text) = Newline)
            /\ k[j].op \in {"write", "schedule"} => j = Len(k)
        BY <1>2 DEF Tells
      <3>4. j = Len(k) => i = n
        BY <1>5, <3>1
      <3> QED BY <3>1, <3>2, <3>3, <3>4
    <2> HIDE DEF rest
    <2> QED BY <1>5, <2>1, <2>2 DEF Tells
  <1>9. 1 \in rest <=> LineAfter(before, x) = <<>>
    <2>1. 1 \in rest <=> 1 + 1 \in at
      BY <1>5
    <2> HIDE DEF rest
    <2>2. CASE x = <<>>
      <3>1. LineAfter(before, x) = before
        BY <2>2 DEF LineAfter
      <3> QED BY <1>2, <1>6, <2>1, <2>2, <3>1
    <2>3. CASE x # <<>>
      <3>1. before \o x # <<>>
        <4>1. Len(x) # 0 /\ Len(x) \in Nat /\ Len(before) \in Nat
          BY <1>6, <2>3
        <4>2. Len(before \o x) = Len(before) + Len(x)
          BY <1>6
        <4> QED BY <4>1, <4>2
      <3> QED BY <1>6, <2>1, <2>3, <3>1 DEF LineAfter
    <2> QED BY <2>2, <2>3
  <1> HIDE DEF rest
  <1>10. Orderly(t, LineAfter(before, x))
    BY <1>3, <1>4, <1>8, <1>9 DEF Orderly
  <1> QED BY <1>4, <1>6, <1>7, <1>10

(* A step that begins and ends at the beginning of a line.                      *)
Level(step) ==
  /\ step.text \in Seq(Character) /\ OneLine(step.text)
  /\ step.op # "print" => step.text = <<>>
  /\ step.text # <<>> => Last(step.text) = Newline

LEMMA LevelDo ==
  ASSUME NEW op
  PROVE  Level(Do(op)) /\ Do(op).op = op
PROOF
  <1>1. Do(op).text = <<>> /\ Do(op).op = op
    BY DEF Do
  <1>2. <<>> \in Seq(Character) /\ OneLine(<<>>)
    BY DEF OneLine
  <1> QED BY <1>1, <1>2 DEF Level

LEMMA LevelPrints ==
  ASSUME NEW chars \in Seq(Character), OneLine(chars), chars # <<>> => Last(chars) = Newline
  PROVE  Level(Prints(chars)) /\ Prints(chars).op = "print"
PROOF
  <1>1. Prints(chars).text = chars /\ Prints(chars).op = "print"
    BY DEF Prints
  <1> QED BY <1>1 DEF Level

LEMMA OrderlyLevel ==
  ASSUME NEW S, NEW k \in Seq(S),
         \A i \in 1 .. Len(k) : /\ Level(k[i])
                                /\ k[i].op \in {"write", "schedule"} => i = Len(k)
  PROVE  Orderly(k, <<>>)
PROOF
  <1>1. PICK n \in Nat : n = Len(k)
    OBVIOUS
  <1>2. PICK at : at = 1 .. n + 1
    OBVIOUS
  <1>3. /\ 1 \in at /\ at \subseteq 1 .. n + 1 /\ n + 1 \in at
        /\ \A i \in 1 .. n : i \in at /\ i + 1 \in at
    BY <1>2
  <1>4. Tells(k, at)
    BY <1>1, <1>3 DEF Tells, Level
  <1> QED BY <1>3, <1>4 DEF Orderly

LEMMA Alphabet ==
  /\ \A c \in {"I", "N", "F", "O", " ", "f", ":"} : c \in Character
  /\ \A c \in {"p", "i", "d", "m", "a", "s", "t", "l", "n", "e", "x"} : c \in Character
  /\ Newline \in Character /\ Nul \in Character
PROOF
  BY CharacterAssumption

Eight(chars, S) == chars \in Seq(S) /\ Len(chars) = 8

LEMMA EightChars ==
  ASSUME NEW S, NEW a \in S, NEW b \in S, NEW c \in S, NEW d \in S,
         NEW e \in S, NEW f \in S, NEW g \in S, NEW h \in S
  PROVE  Eight(<<a, b, c, d, e, f, g, h>>, S)
PROOF
  BY DEF Eight

LEMMA EightOpen ==
  ASSUME NEW h, NEW S, NEW T, NEW end, S = T \ {end}, Eight(h, S)
  PROVE  /\ h \in Seq(T) /\ Len(h) = 8 /\ DOMAIN h = 1 .. Len(h) /\ h # <<>>
         /\ \A i \in DOMAIN h : h[i] # end
PROOF
  <1>1. h \in Seq(S) /\ Len(h) = 8
    BY DEF Eight
  <1>2. h \in Seq(T)
    BY <1>1
  <1>3. DOMAIN h = 1 .. Len(h) /\ \A i \in 1 .. Len(h) : h[i] \in S
    BY <1>1, LenProperties, ElementOfSeq
  <1>4. h # <<>>
    BY <1>1
  <1> QED BY <1>1, <1>2, <1>3, <1>4

LEMMA HeadingOpen == Eight(Heading, Character \ {Newline})
PROOF
  <1>1. PICK S : S = Character \ {Newline}
    OBVIOUS
  <1>2. "I" \in S /\ "N" \in S /\ "F" \in S /\ "O" \in S /\ " " \in S /\ "f" \in S /\ ":" \in S
    BY <1>1, Alphabet, Zenon DEF Newline
  <1>3. Eight(<<"I", "N", "F", "O", " ", " ", "f", ":">>, S)
    BY <1>2, EightChars, Zenon
  <1> QED BY <1>1, <1>3, Zenon DEF Heading

(* A line of some characters. *)
LEMMA LineOf ==
  ASSUME NEW n \in Nat, NEW chars \in [1 .. n + 1 -> Character],
         chars[n + 1] = Newline, \A i \in 1 .. n : chars[i] # Newline
  PROVE  Level(Prints(chars)) /\ Prints(chars).op = "print"
PROOF
  <1>1. chars \in Seq(Character) /\ Len(chars) = n + 1 /\ DOMAIN chars = 1 .. n + 1
    OBVIOUS
  <1>2. OneLine(chars)
    BY <1>1 DEF OneLine
  <1>3. Last(chars) = Newline
    BY <1>1 DEF Last
  <1> QED BY <1>1, <1>2, <1>3, LevelPrints

LEMMA OrderlyLog ==
  ASSUME NEW level, NEW message, message.op = "print",
         message.text \in Seq(Character), OneLine(message.text)
  PROVE  Orderly(LogLog(level, message), <<>>)
PROOF
  <1> DEFINE lock == Do("lock")  unlock == Do("unlock")
             heading == Prints(Heading)  end == Prints(<<Newline>>)
  <1>1. /\ Level(lock) /\ lock.op = "lock" /\ lock.text = <<>>
        /\ Level(unlock) /\ unlock.op = "unlock" /\ unlock.text = <<>>
    BY LevelDo DEF Do
  <1>2. CASE level >= INFO
    <2> DEFINE k == <<lock, heading, message, end, unlock>>
    <2>1. LogLog(level, message) = k
      BY <1>2 DEF LogLog, Message
    <2>2. k \in Seq({lock, heading, message, end, unlock}) /\ Len(k) = 5
      OBVIOUS
    <2>3. /\ k[1] = lock /\ k[2] = heading /\ k[3] = message /\ k[4] = end /\ k[5] = unlock
      OBVIOUS
    <2>4. /\ heading.op = "print" /\ heading.text \in Seq(Character) /\ OneLine(heading.text)
          /\ heading.text # <<>> /\ Last(heading.text) # Newline
      <3>1. heading.op = "print" /\ heading.text = Heading
        BY DEF Prints
      <3>2. PICK h, S : h = Heading /\ S = Character \ {Newline} /\ Eight(h, S)
        BY HeadingOpen
      <3>3. /\ h \in Seq(Character) /\ Len(h) = 8 /\ DOMAIN h = 1 .. Len(h) /\ h # <<>>
            /\ \A i \in DOMAIN h : h[i] # Newline
        BY <3>2, EightOpen
      <3>4. OneLine(h) /\ Last(h) # Newline
        BY <3>2, <3>3 DEF Last, OneLine
      <3> QED BY <3>1, <3>2, <3>3, <3>4
    <2>5. /\ end.op = "print" /\ end.text = <<Newline>> /\ end.text \in Seq(Character)
          /\ OneLine(end.text) /\ end.text # <<>> /\ Last(end.text) = Newline
      <3>1. end.op = "print" /\ end.text = <<Newline>>
        BY DEF Prints
      <3>2. PICK c : c = <<Newline>>
        OBVIOUS
      <3>3. Newline \in Character
        BY Alphabet
      <3>4. c \in Seq(Character) /\ Len(c) = 1 /\ c # <<>> /\ c[1] = Newline
        BY <3>2, <3>3
      <3>5. OneLine(c) /\ Last(c) = Newline
        BY <3>4 DEF Last, OneLine
      <3> QED BY <3>1, <3>2, <3>4, <3>5
    <2> DEFINE ended == message.text # <<>> /\ Last(message.text) = Newline
    <2>6. PICK at : at = {1, 2, 5, 6} \cup (IF ended THEN {4} ELSE {})
      OBVIOUS
    <2>7. /\ 1 \in at /\ 2 \in at /\ 3 \notin at /\ (4 \in at <=> ended) /\ 5 \in at /\ 6 \in at
          /\ at \subseteq 1 .. 5 + 1 /\ 5 + 1 \in at
      BY <2>6
    <2> HIDE DEF k, lock, unlock, heading, end
    <2>8. ASSUME NEW i \in 1 .. 5
          PROVE  /\ k[i].text \in Seq(Character) /\ OneLine(k[i].text)
                 /\ k[i].op # "print" => k[i].text = <<>>
                 /\ k[i].text = <<>> => (i + 1 \in at <=> i \in at)
                 /\ k[i].text # <<>> => (i + 1 \in at <=> Last(k[i].text) = Newline)
                 /\ k[i].op \notin {"write", "schedule"}
      <3>1. CASE i = 1
        <4>1. k[i] = lock /\ i \in at /\ i + 1 \in at
          BY <2>3, <2>7, <3>1
        <4>2. lock.text \in Seq(Character) /\ OneLine(lock.text) /\ lock.op \notin {"write", "schedule"}
          BY <1>1 DEF Level
        <4> QED BY <1>1, <4>1, <4>2
      <3>2. CASE i = 2
        BY <2>3, <2>4, <2>7, <3>2
      <3>3. CASE i = 3
        BY <2>3, <2>7, <3>3
      <3>4. CASE i = 4
        <4>1. k[i] = end /\ i + 1 \in at
          BY <2>3, <2>7, <3>4
        <4> QED BY <2>5, <4>1, Zenon
      <3>5. CASE i = 5
        <4>1. k[i] = unlock /\ i \in at /\ i + 1 \in at
          BY <2>3, <2>7, <3>5
        <4>2. /\ unlock.text \in Seq(Character) /\ OneLine(unlock.text)
              /\ unlock.op \notin {"write", "schedule"}
          BY <1>1 DEF Level
        <4> QED BY <1>1, <4>1, <4>2
      <3> QED BY <3>1, <3>2, <3>3, <3>4, <3>5
    <2>9. Tells(k, at)
      BY <2>2, <2>7, <2>8 DEF Tells
    <2> QED BY <2>1, <2>2, <2>7, <2>9 DEF Orderly
  <1>3. CASE ~(level >= INFO)
    <2> DEFINE k == <<lock, unlock>>
    <2>1. LogLog(level, message) = k
      BY <1>3 DEF LogLog
    <2>2. /\ k \in Seq({lock, unlock}) /\ Len(k) = 2
          /\ \A i \in 1 .. 2 : k[i] = lock \/ k[i] = unlock
      OBVIOUS
    <2> HIDE DEF k, lock, unlock
    <2> QED BY <1>1, <2>1, <2>2, OrderlyLevel
  <1> QED BY <1>2, <1>3

(* The handlers that print whole lines or nothing, and what may come at their   *)
(* end.                                                                        *)
Whole(k) ==
  /\ \E S : k \in Seq(S)
  /\ \A i \in 1 .. Len(k) : Level(k[i]) /\ k[i].op \notin {"write", "schedule"}

LEMMA WholeUnseen == Whole(Unseen)
PROOF
  <1> DEFINE lock == Do("lock")  unlock == Do("unlock")
  <1>1. /\ Level(lock) /\ lock.op = "lock" /\ Level(unlock) /\ unlock.op = "unlock"
    BY LevelDo
  <1>2. Unseen = <<lock, unlock>>
    BY DEF Unseen, LogLog, DEBUG, INFO
  <1>3. /\ <<lock, unlock>> \in Seq({lock, unlock}) /\ Len(<<lock, unlock>>) = 2
        /\ \A i \in 1 .. 2 : <<lock, unlock>>[i] = lock \/ <<lock, unlock>>[i] = unlock
    OBVIOUS
  <1> HIDE DEF lock, unlock
  <1> QED BY <1>1, <1>2, <1>3 DEF Whole

LEMMA WholeMap ==
  ASSUME NEW p \in Process
  PROVE  Whole(MemoryMap(p))
PROOF
  <1>1. PICK x : x = Pid(p) /\ x \in Character \ {Newline}
    BY CharacterAssumption, Zenon
  <1>2. PICK a, b, c : /\ a = <<"p", "i", "d", x, Newline>> /\ b = <<"m", "a", "p", Newline>>
                       /\ c = <<Newline>>
    OBVIOUS
  <1>9. /\ \A y \in {"p", "i", "d", "m", "a"} : y \in Character /\ y # Newline
        /\ Newline \in Character /\ x \in Character /\ x # Newline
    BY <1>1, Alphabet DEF Newline
  <1>3. Level(Prints(a)) /\ Prints(a).op = "print"
    <2>1. a \in [1 .. 4 + 1 -> Character] /\ a[4 + 1] = Newline /\ \A i \in 1 .. 4 : a[i] # Newline
      BY <1>2, <1>9
    <2> QED BY <2>1, LineOf
  <1>4. Level(Prints(b)) /\ Prints(b).op = "print"
    <2>1. b \in [1 .. 3 + 1 -> Character] /\ b[3 + 1] = Newline /\ \A i \in 1 .. 3 : b[i] # Newline
      BY <1>2, <1>9
    <2> QED BY <2>1, LineOf
  <1>5. Level(Prints(c)) /\ Prints(c).op = "print"
    <2>1. c \in [1 .. 0 + 1 -> Character] /\ c[0 + 1] = Newline /\ \A i \in 1 .. 0 : c[i] # Newline
      BY <1>2, <1>9
    <2> QED BY <2>1, LineOf
  <1>6. PICK i, j, k : i = Prints(a) /\ j = Prints(b) /\ k = Prints(c)
    OBVIOUS
  <1>7. MemoryMap(p) = <<i, j, k>>
    BY <1>1, <1>2, <1>6 DEF MemoryMap
  <1>8. /\ <<i, j, k>> \in Seq({i, j, k}) /\ Len(<<i, j, k>>) = 3
        /\ \A n \in 1 .. 3 : <<i, j, k>>[n] \in {i, j, k}
    OBVIOUS
  <1> QED BY <1>3, <1>4, <1>5, <1>6, <1>7, <1>8 DEF Whole

LEMMA WholeConcat ==
  ASSUME NEW a, NEW b, Whole(a), Whole(b)
  PROVE  Whole(a \o b)
PROOF
  <1>1. PICK S, T : a \in Seq(S) /\ b \in Seq(T)
    BY DEF Whole
  <1>2. a \in Seq(S \cup T) /\ b \in Seq(S \cup T)
    BY <1>1
  <1>3. /\ a \o b \in Seq(S \cup T) /\ Len(a \o b) = Len(a) + Len(b)
        /\ Len(a) \in Nat /\ Len(b) \in Nat
        /\ \A i \in 1 .. Len(a) + Len(b) :
             (a \o b)[i] = IF i <= Len(a) THEN a[i] ELSE b[i - Len(a)]
    BY <1>2
  <1>4. ASSUME NEW i \in 1 .. Len(a) + Len(b)
        PROVE  Level((a \o b)[i]) /\ (a \o b)[i].op \notin {"write", "schedule"}
    <2>1. CASE i <= Len(a)
      BY <1>3, <2>1 DEF Whole
    <2>2. CASE ~(i <= Len(a))
      <3>1. i - Len(a) \in 1 .. Len(b) /\ (a \o b)[i] = b[i - Len(a)]
        BY <1>3, <2>2
      <3> QED BY <3>1 DEF Whole
    <2> QED BY <2>1, <2>2
  <1> QED BY <1>3, <1>4 DEF Whole

LEMMA WholeOrderly ==
  ASSUME NEW k, Whole(k)
  PROVE  /\ Orderly(k, <<>>)
         /\ \A op : Orderly(Append(k, Do(op)), <<>>)
PROOF
  <1>1. PICK S : k \in Seq(S)
    BY DEF Whole
  <1>2. Orderly(k, <<>>)
    BY <1>1, OrderlyLevel DEF Whole
  <1>3. ASSUME NEW op PROVE Orderly(Append(k, Do(op)), <<>>)
    <2>1. PICK step : step = Do(op)
      OBVIOUS
    <2>2. Level(step)
      BY <2>1, LevelDo
    <2>3. /\ k \in Seq(S \cup {step}) /\ step \in S \cup {step} /\ Len(k) \in Nat
      BY <1>1
    <2>4. /\ Append(k, step) \in Seq(S \cup {step}) /\ Len(Append(k, step)) = Len(k) + 1
          /\ \A i \in 1 .. Len(k) : Append(k, step)[i] = k[i]
          /\ Append(k, step)[Len(k) + 1] = step
      BY <2>3
    <2>5. ASSUME NEW i \in 1 .. Len(k) + 1
          PROVE  /\ Level(Append(k, step)[i])
                 /\ Append(k, step)[i].op \in {"write", "schedule"} => i = Len(k) + 1
      <3>1. CASE i = Len(k) + 1
        BY <2>2, <2>4, <3>1
      <3>2. CASE i \in 1 .. Len(k)
        BY <2>4, <3>2 DEF Whole
      <3> QED BY <2>3, <3>1, <3>2
    <2> QED BY <2>1, <2>4, <2>5, OrderlyLevel
  <1> QED BY <1>2, <1>3

-----------------------------------------------------------------------------
(* Lines in texts *)

(* No line ends in it. *)
Open(chars) == \A i \in DOMAIN chars : chars[i] # Newline

(* A line that has ended. *)
Ended(chars) == chars # <<>> /\ OneLine(chars) /\ Last(chars) = Newline

LEMMA OpenOrEnded ==
  ASSUME NEW S, NEW s \in Seq(S), OneLine(s)
  PROVE  Open(s) \/ Ended(s)
PROOF
  <1>1. Len(s) \in Nat /\ DOMAIN s = 1 .. Len(s) /\ (s = <<>> <=> Len(s) = 0)
    OBVIOUS
  <1>2. CASE s = <<>>
    <2>1. DOMAIN s = {}
      BY <1>1, <1>2
    <2> QED BY <2>1 DEF Open
  <1>3. CASE s # <<>> /\ Last(s) = Newline
    BY <1>3 DEF Ended
  <1>4. CASE s # <<>> /\ Last(s) # Newline
    BY <1>1, <1>4 DEF Open, OneLine, Last
  <1> QED BY <1>2, <1>3, <1>4

(* One text after another that has not ended its line. *)
LEMMA LinesJoin ==
  ASSUME NEW S, NEW s \in Seq(S), NEW t \in Seq(S), Open(s), OneLine(t)
  PROVE  /\ s \o t \in Seq(S) /\ Len(s \o t) = Len(s) + Len(t)
         /\ OneLine(s \o t)
         /\ t # <<>> => s \o t # <<>> /\ Last(s \o t) = Last(t)
         /\ Open(t) => Open(s \o t)
         /\ Ended(t) => Ended(s \o t)
PROOF
  <1>1. PICK m \in Nat, n \in Nat : m = Len(s) /\ n = Len(t)
    OBVIOUS
  <1>2. PICK w : w = s \o t
    OBVIOUS
  <1>3. /\ w \in Seq(S) /\ Len(w) = m + n /\ DOMAIN w = 1 .. m + n
        /\ DOMAIN s = 1 .. m /\ DOMAIN t = 1 .. n
        /\ \A i \in 1 .. m : w[i] = s[i]
        /\ \A i \in 1 .. n : w[m + i] = t[i]
        /\ w = <<>> <=> m + n = 0
        /\ t = <<>> <=> n = 0
    BY <1>1, <1>2
  <1>4. ASSUME NEW i \in DOMAIN w
        PROVE  (i \in DOMAIN s /\ w[i] = s[i])
                 \/ \E j \in DOMAIN t : i = m + j /\ w[i] = t[j]
    <2>1. CASE i <= m
      BY <1>3, <2>1
    <2>2. CASE ~(i <= m)
      <3>1. i - m \in 1 .. n /\ i = m + (i - m)
        BY <1>3, <2>2
      <3> QED BY <1>3, <3>1
    <2> QED BY <2>1, <2>2
  <1>5. OneLine(w)
    <2> SUFFICES ASSUME NEW i \in DOMAIN w, w[i] = Newline PROVE i = Len(w)
      BY DEF OneLine
    <2>1. PICK j \in DOMAIN t : i = m + j /\ w[i] = t[j]
      BY <1>4 DEF Open
    <2>2. j = n
      BY <1>1, <2>1 DEF OneLine
    <2> QED BY <1>3, <2>1, <2>2
  <1>6. t # <<>> => w # <<>> /\ Last(w) = Last(t)
    <2> SUFFICES ASSUME t # <<>> PROVE w # <<>> /\ Last(w) = Last(t)
      OBVIOUS
    <2>1. n \in 1 .. n /\ w # <<>>
      BY <1>3
    <2> QED BY <1>1, <1>3, <2>1 DEF Last
  <1>7. Open(t) => Open(w)
    BY <1>4 DEF Open
  <1>8. Ended(t) => Ended(w)
    BY <1>5, <1>6 DEF Ended
  <1> QED BY <1>1, <1>2, <1>3, <1>5, <1>6, <1>7, <1>8

(* A line that has ended is the first one of a text it begins. *)
LEMMA FirstLine ==
  ASSUME NEW S, NEW a \in Seq(S), NEW rest \in Seq(S), Ended(a)
  PROVE  /\ Len(a) \in DOMAIN (a \o rest) /\ (a \o rest)[Len(a)] = Newline
         /\ \A m \in 1 .. Len(a) - 1 : (a \o rest)[m] # Newline
         /\ SubSeq(a \o rest, 1, Len(a)) = a
         /\ SubSeq(a \o rest, Len(a) + 1, Len(a \o rest)) = rest
PROOF
  <1>1. PICK m \in Nat, n \in Nat : m = Len(a) /\ n = Len(rest)
    OBVIOUS
  <1>2. PICK w : w = a \o rest
    OBVIOUS
  <1>3. m # 0
    BY <1>1 DEF Ended
  <1>4. /\ w \in Seq(S) /\ Len(w) = m + n /\ DOMAIN w = 1 .. m + n /\ DOMAIN a = 1 .. m
        /\ \A i \in 1 .. m : w[i] = a[i]
        /\ \A i \in 1 .. n : w[m + i] = rest[i]
    BY <1>1, <1>2
  <1>5. m \in DOMAIN w /\ w[m] = Newline
    BY <1>1, <1>3, <1>4 DEF Ended, Last
  <1>6. \A i \in 1 .. m - 1 : w[i] # Newline
    <2>1. ASSUME NEW i \in 1 .. m - 1 PROVE i \in 1 .. m /\ i \in DOMAIN a /\ i # m
      BY <1>1, <1>4
    <2>2. \A i \in DOMAIN a : a[i] = Newline => i = m
      BY <1>1 DEF Ended, OneLine
    <2> QED BY <1>4, <2>1, <2>2
  <1>7. SubSeq(w, 1, m) = a
    <2>1. PICK v : v = SubSeq(w, 1, m)
      OBVIOUS
    <2>2. \A i \in 1 .. m : w[i] \in S
      BY <1>4
    <2>3. v \in Seq(S) /\ Len(v) = m /\ \A i \in 1 .. m : v[i] = w[i]
      BY <1>3, <2>1, <2>2
    <2> QED BY <1>1, <1>4, <2>1, <2>3, SeqEqual
  <1>8. SubSeq(w, m + 1, m + n) = rest
    <2>1. PICK v : v = SubSeq(w, m + 1, m + n)
      OBVIOUS
    <2>2. \A i \in m + 1 .. m + n : w[i] \in S
      BY <1>4
    <2>3. v \in Seq(S) /\ Len(v) = n /\ \A i \in 1 .. n : v[i] = w[m + i]
      <3>1. v \in Seq(S) /\ Len(v) = (m + n) - (m + 1) + 1
        BY <2>1, <2>2, SubSeqProperties
      <3>2. \A i \in 1 .. n : v[i] = w[(m + 1) + i - 1]
        BY <2>1, <2>2, <3>1, SubSeqProperties
      <3>3. \A i \in 1 .. n : (m + 1) + i - 1 = m + i
        OBVIOUS
      <3> QED BY <3>1, <3>2, <3>3
    <2>4. \A i \in 1 .. Len(v) : v[i] = rest[i]
      BY <1>4, <2>3
    <2>5. v = rest
      BY <1>1, <2>3, <2>4, SeqEqual
    <2> QED BY <2>1, <2>5
  <1> QED BY <1>1, <1>2, <1>4, <1>5, <1>6, <1>7, <1>8

(* The first n characters of t go to the end of b: c and y are what comes of them. *)
Moved(b, t, n, c, y, S) ==
  /\ c \in Seq(S) /\ y \in Seq(S) /\ Len(c) + Len(y) = Len(b) + Len(t)
  /\ c # <<>> /\ OneLine(c) /\ Last(c) = t[n]
  /\ c \o y = b \o t

(* _putchar of the first n characters of t behind b. *)
LEMMA Moves ==
  ASSUME NEW S, NEW b \in Seq(S), NEW t \in Seq(S), Open(b),
         NEW n \in 1 .. Len(t), \A i \in 1 .. n - 1 : t[i] # Newline
  PROVE  Moved(b, t, n, b \o SubSeq(t, 1, n), SubSeq(t, n + 1, Len(t)), S)
PROOF
  <1>1. PICK l \in Nat : l = Len(t) /\ n \in 1 .. l
    OBVIOUS
  <1>2. PICK x, y : x = SubSeq(t, 1, n) /\ y = SubSeq(t, n + 1, l)
    OBVIOUS
  <1>3. \A i \in 1 .. l : t[i] \in S
    BY <1>1
  <1>4. x \in Seq(S) /\ Len(x) = n /\ \A i \in 1 .. n : x[i] = t[i]
    BY <1>1, <1>2, <1>3
  <1>5. y \in Seq(S) /\ Len(y) = l - n /\ \A i \in 1 .. l - n : y[i] = t[n + i]
    BY <1>1, <1>2, <1>3
  <1>6. x \o y = t
    <2>1. PICK w : w = x \o y
      OBVIOUS
    <2>2. w \in Seq(S) /\ Len(w) = l
      <3>1. w \in Seq(S) /\ Len(w) = Len(x) + Len(y)
        BY <1>4, <1>5, <2>1, ConcatProperties
      <3> QED BY <1>1, <1>4, <1>5, <3>1
    <2>3. ASSUME NEW i \in 1 .. l PROVE w[i] = t[i]
      <3>1. CASE i <= n
        BY <1>1, <1>4, <1>5, <2>1, <3>1
      <3>2. CASE ~(i <= n)
        <4>1. i - n \in 1 .. l - n /\ n + (i - n) = i
          BY <1>1, <3>2
        <4>2. w[i] = y[i - n]
          BY <1>1, <1>4, <1>5, <2>1, <3>2
        <4> QED BY <1>5, <4>1, <4>2
      <3> QED BY <3>1, <3>2
    <2> QED BY <1>1, <2>1, <2>2, <2>3, SeqEqual
  <1>7. OneLine(x) /\ x # <<>> /\ Last(x) = t[n]
    <2>1. DOMAIN x = 1 .. n /\ x # <<>>
      BY <1>1, <1>4
    <2> QED BY <1>1, <1>4, <2>1 DEF OneLine, Last
  <1>8. /\ b \o x \in Seq(S) /\ Len(b \o x) = Len(b) + Len(x) /\ OneLine(b \o x)
        /\ b \o x # <<>> /\ Last(b \o x) = Last(x)
    BY <1>4, <1>7, LinesJoin
  <1>9. (b \o x) \o y = b \o t
    <2>1. InAnyOrder(b, x, y)
      BY <1>4, <1>5, JoinTexts, Zenon
    <2> QED BY <1>6, <2>1 DEF InAnyOrder
  <1>10. Len(b \o x) + Len(y) = Len(b) + l
    <2>1. Len(b) \in Nat
      OBVIOUS
    <2> QED BY <1>1, <1>4, <1>5, <1>8, <2>1
  <1> QED BY <1>1, <1>2, <1>4, <1>5, <1>7, <1>8, <1>9, <1>10 DEF Moved

(* The least of some indexes. *)
LEMMA LeastOf ==
  ASSUME NEW T \in SUBSET Nat, T # {}
  PROVE  Min(T) \in T /\ \A y \in T : Min(T) <= y
PROOF
  <1>1. PICK x \in T : \A y \in T : x <= y
    BY SumFold!NatLeast
  <1> QED BY <1>1 DEF Min

(* sys_write prints the line it was given, whatever was on its stack. *)
LEMMA CopyPrinted ==
  ASSUME NEW b \in Seq(Character \ {Nul}), Len(b) < MaxLine, NEW stale \in Stale
  PROVE  StringIn(Copied(b, stale)) = b
PROOF
  <1>1. PICK n \in Nat, M \in Nat : n = Len(b) /\ M = MaxLine /\ n < M
    BY ConsoleAssumption
  <1>2. PICK C : C = Character /\ Nul \in C
    BY Alphabet
  <1>3. /\ stale \in [1 .. M -> C] /\ b \in Seq(C)
        /\ \A i \in 1 .. n : b[i] \in C /\ b[i] # Nul
    BY <1>1, <1>2, ConsoleAssumption
  <1>4. PICK rest : rest = SubSeq(stale, n + 2, M)
    OBVIOUS
  <1>5. rest \in Seq(C)
    <2>1. \A i \in n + 2 .. M : stale[i] \in C
      BY <1>1, <1>3
    <2> QED BY <1>1, <1>4, <2>1, SubSeqProperties
  <1>6. PICK a : a = Copied(b, stale)
    OBVIOUS
  <1>7. a = (b \o <<Nul>>) \o rest
    BY <1>1, <1>4, <1>6 DEF Copied
  <1>8. /\ a \in Seq(C) /\ n + 1 <= Len(a) /\ DOMAIN a = 1 .. Len(a) /\ Len(a) \in Nat
        /\ a[n + 1] = Nul /\ \A i \in 1 .. n : a[i] = b[i]
    <2>1. PICK c : c = b \o <<Nul>>
      OBVIOUS
    <2>2. /\ <<Nul>> \in Seq(C) /\ Len(<<Nul>>) = 1 /\ <<Nul>>[1] = Nul
      BY <1>2
    <2>3. /\ c \in Seq(C) /\ Len(c) = n + 1 /\ c[n + 1] = Nul
          /\ \A i \in 1 .. n : c[i] = b[i]
      BY <1>1, <1>3, <2>1, <2>2
    <2>4. /\ a \in Seq(C) /\ Len(a) = (n + 1) + Len(rest)
          /\ \A i \in 1 .. n + 1 : a[i] = c[i]
      BY <1>1, <1>5, <1>7, <2>1, <2>3
    <2>5. Len(rest) \in Nat
      BY <1>5
    <2> QED BY <1>1, <2>3, <2>4, <2>5
  <1>9. PICK ends : ends = {i \in DOMAIN a : a[i] = Nul}
    OBVIOUS
  <1>10. n + 1 \in ends /\ ends \in SUBSET Nat /\ \A i \in ends : n + 1 <= i
    <2>1. n + 1 \in ends /\ ends \in SUBSET Nat
      BY <1>1, <1>8, <1>9
    <2>2. ASSUME NEW i \in ends, ~(n + 1 <= i) PROVE FALSE
      <3>1. i \in 1 .. n /\ a[i] = Nul
        BY <1>1, <1>8, <1>9, <2>2
      <3> QED BY <1>3, <1>8, <3>1
    <2> QED BY <2>1, <2>2
  <1>11. Min(ends) = n + 1 /\ ends # {}
    <2>1. Min(ends) \in ends /\ \A y \in ends : Min(ends) <= y
      BY <1>10, LeastOf
    <2>2. Min(ends) <= n + 1 /\ n + 1 <= Min(ends) /\ Min(ends) \in Nat
      BY <1>10, <2>1
    <2> QED BY <1>1, <1>10, <2>2
  <1>12. StringIn(a) = SubSeq(a, 1, n)
    <2>1. StringIn(a) = SubSeq(a, 1, Min(ends) - 1)
      BY <1>9, <1>11 DEF StringIn
    <2> QED BY <1>1, <1>11, <2>1
  <1>13. PICK v : v = SubSeq(a, 1, n)
    OBVIOUS
  <1>14. v \in Seq(C) /\ Len(v) = n /\ \A i \in 1 .. n : v[i] = a[i]
    <2>1. \A i \in 1 .. n : a[i] \in C
      BY <1>3, <1>8
    <2> QED BY <1>1, <1>13, <2>1
  <1>15. v = b
    <2>1. \A i \in 1 .. Len(v) : v[i] = b[i]
      BY <1>8, <1>14
    <2> QED BY <1>1, <1>3, <1>14, <2>1, SeqEqual
  <1> QED BY <1>6, <1>12, <1>13, <1>15

-----------------------------------------------------------------------------
(* The invariant *)

Visible == Character \ {Nul}

(* What is in a program's buffer, and in the call of printf it is in. *)
Buffers ==
  /\ running \subseteq Process /\ current \in running \cup {NoProcess}
  /\ current = NoProcess => running = {}
  /\ text \in [Process -> Seq(Visible)] /\ buffer \in [Process -> Seq(Visible)]
  /\ flush \in [Process -> {"no", "called", "done"}]
  /\ \A p \in Process :
       /\ Len(buffer[p]) + Len(text[p]) <= MaxHeld
       /\ p \notin running => buffer[p] = <<>> /\ text[p] = <<>>
       /\ IF flush[p] = "no" THEN Open(buffer[p]) ELSE Ended(buffer[p])

Writes(k) == \E i \in 1 .. Len(k) : k[i].op = "write"

(* write is under way for the current process, or for nobody. *)
Writing ==
  /\ Writes(kernel) => current \in Process
  /\ \A p \in Process : flush[p] = "called" <=> p = current /\ Writes(kernel)

(* The kernel goes on where the cursor is. *)
Cursor == screen \in Seq(Character) /\ Open(screen) /\ Orderly(kernel, screen)

PrintInv == Buffers /\ Writing /\ Cursor

TextInv == LockInv /\ PrintInv

LEMMA WritesTail ==
  ASSUME NEW k, NEW S, k \in Seq(S), k # <<>>
  PROVE  Writes(k) <=> Head(k).op = "write" \/ Writes(Tail(k))
PROOF
  <1>1. PICK t : t = Tail(k)
    OBVIOUS
  <1>6. PICK n \in Nat : n = Len(k) - 1
    <2>1. Len(k) \in Nat /\ Len(k) # 0
      OBVIOUS
    <2> QED BY <2>1
  <1>2. /\ Len(k) = n + 1 /\ Len(t) = n /\ Head(k) = k[1]
        /\ \A i \in 1 .. n : t[i] = k[i + 1]
    BY <1>1, <1>6
  <1>3. ASSUME NEW i \in 1 .. n + 1, k[i].op = "write"
        PROVE  Head(k).op = "write" \/ Writes(t)
    <2>1. CASE i = 1
      BY <1>2, <1>3, <2>1
    <2>2. CASE i # 1
      <3>1. i - 1 \in 1 .. n /\ (i - 1) + 1 = i
        BY <2>2
      <3>2. t[i - 1].op = "write"
        BY <1>2, <1>3, <3>1
      <3> QED BY <1>2, <3>1, <3>2 DEF Writes
    <2> QED BY <2>1, <2>2
  <1>4. ASSUME NEW i \in 1 .. n, t[i].op = "write" PROVE Writes(k)
    <2>1. i + 1 \in 1 .. n + 1 /\ k[i + 1].op = "write"
      BY <1>2, <1>4
    <2> QED BY <1>2, <2>1 DEF Writes
  <1>5. Head(k).op = "write" => Writes(k)
    <2>1. 1 \in 1 .. n + 1
      OBVIOUS
    <2> QED BY <1>2, <2>1 DEF Writes
  <1>7. Writes(k) => Head(k).op = "write" \/ Writes(t)
    BY <1>2, <1>3 DEF Writes
  <1>8. Writes(t) => Writes(k)
    BY <1>2, <1>4 DEF Writes
  <1> QED BY <1>1, <1>5, <1>7, <1>8

LEMMA WritesNot ==
  /\ ~Writes(<<>>)
  /\ \A k : Whole(k) => ~Writes(k)
  /\ \A level, message : message.op = "print" => ~Writes(LogLog(level, message))
PROOF
  <1>1. ~Writes(<<>>)
    BY DEF Writes
  <1>2. \A k : Whole(k) => ~Writes(k)
    BY DEF Writes, Whole
  <1>3. ASSUME NEW level, NEW message, message.op = "print"
        PROVE  ~Writes(LogLog(level, message))
    <2> DEFINE a == Do("lock")  b == Prints(Heading)  d == Prints(<<Newline>>)  e == Do("unlock")
    <2>1. a.op = "lock" /\ b.op = "print" /\ d.op = "print" /\ e.op = "unlock"
      BY DEF Do, Prints
    <2>2. LogLog(level, message) = <<a, b, message, d, e>> \/ LogLog(level, message) = <<a, e>>
      BY DEF LogLog, Message
    <2> HIDE DEF a, b, d, e
    <2>3. Len(<<a, b, message, d, e>>) = 5 /\ Len(<<a, e>>) = 2
      OBVIOUS
    <2>4. /\ \A i \in 1 .. 5 : <<a, b, message, d, e>>[i].op \in {"lock", "print", "unlock"}
          /\ \A i \in 1 .. 2 : <<a, e>>[i].op \in {"lock", "unlock"}
      BY <1>3, <2>1
    <2> QED BY <2>2, <2>3, <2>4 DEF Writes
  <1> QED BY <1>1, <1>2, <1>3

LEMMA WritesAppend ==
  ASSUME NEW k, Whole(k), NEW op
  PROVE  Writes(Append(k, Do(op))) <=> op = "write"
PROOF
  <1>1. PICK S : k \in Seq(S)
    BY DEF Whole
  <1>2. PICK step : step = Do(op) /\ step.op = op
    BY LevelDo
  <1>6. PICK n \in Nat : n = Len(k)
    BY <1>1
  <1>3. PICK a : a = Append(k, step)
    OBVIOUS
  <1>4. Len(a) = n + 1 /\ a[n + 1] = step /\ \A i \in 1 .. n : a[i] = k[i]
    <2>1. k \in Seq(S \cup {step}) /\ step \in S \cup {step}
      BY <1>1
    <2> QED BY <1>3, <1>6, <2>1
  <1>5. \A i \in 1 .. n : a[i].op # "write"
    BY <1>4, <1>6 DEF Whole
  <1>7. n + 1 \in 1 .. n + 1 /\ \A i \in 1 .. n + 1 : i = n + 1 \/ i \in 1 .. n
    OBVIOUS
  <1>8. Writes(a) <=> op = "write"
    BY <1>2, <1>4, <1>5, <1>7 DEF Writes
  <1> QED BY <1>2, <1>3, <1>8

-----------------------------------------------------------------------------
(* Each action keeps it *)

(* A handler starts at the beginning of a line, with no write under way. *)
LEMMA Begins ==
  ASSUME Writing, Cursor, kernel = <<>>
  PROVE  /\ screen = <<>> /\ \A p \in Process : flush[p] # "called"
         /\ (screen' = screen /\ Orderly(kernel', <<>>) => Cursor')
PROOF
  <1>1. screen = <<>>
    BY OrderlyNothing DEF Cursor
  <1>2. \A p \in Process : flush[p] # "called"
    BY WritesNot DEF Writing
  <1>3. ASSUME screen' = screen, Orderly(kernel', <<>>) PROVE Cursor'
    <2>1. screen' = <<>> /\ Orderly(kernel', screen')
      BY <1>1, <1>3
    <2> QED BY <1>3, <2>1 DEF Cursor, Open
  <1> QED BY <1>1, <1>2, <1>3

(* A handler that leaves the programs' buffers alone and writes nothing. *)
LEMMA HandlerTexts ==
  ASSUME PrintInv, kernel = <<>>, screen' = screen, Orderly(kernel', <<>>), ~Writes(kernel'),
         text' = text, buffer' = buffer, flush' = flush,
         running' = running /\ current' = current
  PROVE  PrintInv'
PROOF
  <1>1. Cursor'
    BY Begins DEF PrintInv
  <1>2. Writing'
    BY Begins DEF PrintInv, Writing
  <1>3. Buffers'
    BY DEF PrintInv, Buffers
  <1> QED BY <1>1, <1>2, <1>3 DEF PrintInv

LEMMA BootTexts ==
  ASSUME PrintInv, NEW c \in LogCalls, BootLog(c)
  PROVE  PrintInv'
PROOF
  <1> DEFINE message == [op |-> "print", call |-> c.call, text |-> TextOf(c.call)]
  <1>1. message.op = "print" /\ message.text = TextOf(c.call)
    OBVIOUS
  <1>2. message.text \in Seq(Character) /\ OneLine(message.text)
    BY <1>1, TextAssumption, Zenon
  <1>3. kernel' = LogLog(c.level, message)
    BY DEF BootLog
  <1> HIDE DEF message
  <1>4. Orderly(kernel', <<>>) /\ ~Writes(kernel')
    BY <1>1, <1>2, <1>3, OrderlyLog, WritesNot
  <1> QED BY <1>4, HandlerTexts DEF BootLog, user

LEMMA ExecveTexts ==
  ASSUME PrintInv, NEW p \in Process, Execve(p)
  PROVE  PrintInv'
PROOF
  <1>1. /\ current = NoProcess /\ kernel = <<>> /\ running' = {p} /\ current' = p
        /\ kernel' = Unseen \o MemoryMap(p) /\ text' = text /\ buffer' = buffer /\ flush' = flush
        /\ screen' = screen
    BY DEF Execve
  <1>2. Whole(kernel')
    BY <1>1, WholeUnseen, WholeMap, WholeConcat
  <1>3. Orderly(kernel', <<>>) /\ ~Writes(kernel')
    BY <1>2, WholeOrderly, WritesNot
  <1>4. Cursor'
    BY <1>1, <1>3, Begins DEF PrintInv
  <1>5. Writing'
    BY <1>1, <1>3, Begins DEF PrintInv, Writing
  <1>6. Buffers'
    <2>1. p # NoProcess
      BY ConsoleAssumption
    <2>2. \A q \in Process : buffer[q] = <<>> /\ text[q] = <<>>
      BY <1>1 DEF PrintInv, Buffers
    <2> QED BY <1>1, <2>1, <2>2 DEF PrintInv, Buffers
  <1> QED BY <1>4, <1>5, <1>6 DEF PrintInv

(* What is left after a step that says nothing and is not the last. *)
LEMMA SilentTexts ==
  ASSUME LockInv, PrintInv, kernel # <<>>, Head(kernel).op \in {"lock", "unlock"},
         kernel' = Tail(kernel), screen' = screen,
         text' = text, buffer' = buffer, flush' = flush,
         running' = running /\ current' = current
  PROVE  PrintInv'
PROOF
  <1>1. PICK S : kernel \in Seq(S)
    BY DEF LockInv, Balanced
  <1>2. Writes(kernel') <=> Writes(kernel)
    BY <1>1, WritesTail
  <1>3. screen \in Seq(Character) /\ Orderly(kernel, screen)
    BY DEF PrintInv, Cursor
  <1>4. /\ Head(kernel).op # "print" => Head(kernel).text = <<>>
        /\ Orderly(Tail(kernel), LineAfter(screen, Head(kernel).text))
    BY <1>3, OrderlyTail
  <1>5. LineAfter(screen, <<>>) = screen
    BY <1>3 DEF LineAfter
  <1>6. Orderly(kernel', screen')
    BY <1>4, <1>5
  <1>7. Cursor'
    BY <1>6 DEF PrintInv, Cursor
  <1>8. Writing'
    BY <1>2 DEF PrintInv, Writing
  <1>9. Buffers'
    BY DEF PrintInv, Buffers
  <1> QED BY <1>7, <1>8, <1>9 DEF PrintInv

LEMMA LockTexts ==
  ASSUME LockInv, PrintInv, Lock \/ Unlock
  PROVE  PrintInv' /\ kernel' = Tail(kernel) /\ kernel # <<>> /\ Head(kernel).op \in {"lock", "unlock"}
PROOF
  <1>1. CASE Lock
    <2>1. kernel # <<>> /\ Head(kernel).op = "lock"
      BY <1>1 DEF Lock
    <2>2. locked = FALSE
      BY <2>1, BalancedTail DEF LockInv
    <2>3. kernel' = Tail(kernel)
      BY <1>1, <2>2 DEF Lock
    <2> QED BY <1>1, <2>1, <2>3, SilentTexts DEF Lock, user
  <1>2. CASE Unlock
    <2>1. kernel # <<>> /\ Head(kernel).op = "unlock"
      BY <1>2 DEF Unlock
    <2>2. locked = TRUE
      BY <2>1, BalancedTail DEF LockInv
    <2>3. kernel' = Tail(kernel)
      BY <1>2, <2>2 DEF Unlock
    <2> QED BY <1>2, <2>1, <2>3, SilentTexts DEF Unlock, user
  <1> QED BY <1>1, <1>2

(* A line or a part of one appears on the screen. *)
LEMMA ShowLine ==
  ASSUME NEW chars \in Seq(Character), OneLine(chars), Cursor, Show(chars)
  PROVE  /\ screen' \in Seq(Character) /\ Open(screen') /\ screen' = LineAfter(screen, chars)
         /\ Ended(chars) => line' = screen \o chars /\ screen' = <<>>
         /\ ~Ended(chars) => line' = <<>> /\ screen' = screen \o chars
PROOF
  <1>1. screen \in Seq(Character) /\ Open(screen)
    BY DEF Cursor
  <1>2. /\ screen \o chars \in Seq(Character)
        /\ Open(chars) => Open(screen \o chars)
    BY <1>1, LinesJoin
  <1>3. Open(chars) \/ Ended(chars)
    BY OpenOrEnded
  <1>4. CASE Ended(chars)
    <2>1. chars # <<>> /\ Last(chars) = Newline
      BY <1>4 DEF Ended
    <2>2. line' = screen \o chars /\ screen' = <<>>
      BY <2>1 DEF Show
    <2>3. <<>> \in Seq(Character) /\ Open(<<>>)
      BY DEF Open
    <2> QED BY <1>4, <2>1, <2>2, <2>3 DEF LineAfter
  <1>5. CASE ~Ended(chars)
    <2>1. ~(chars # <<>> /\ Last(chars) = Newline)
      BY <1>5 DEF Ended
    <2>2. line' = <<>> /\ screen' = screen \o chars
      BY <2>1 DEF Show
    <2> QED BY <1>2, <1>3, <1>5, <2>1, <2>2 DEF LineAfter
  <1> QED BY <1>4, <1>5

LEMMA PrintTexts ==
  ASSUME LockInv, PrintInv, PrintCall
  PROVE  PrintInv'
PROOF
  <1>1. /\ kernel # <<>> /\ Head(kernel).op = "print" /\ kernel' = Tail(kernel)
        /\ Show(Head(kernel).text)
        /\ text' = text /\ buffer' = buffer /\ flush' = flush
        /\ running' = running /\ current' = current
    BY DEF PrintCall, user
  <1>2. PICK S : kernel \in Seq(S)
    BY DEF LockInv, Balanced
  <1>3. Writes(kernel') <=> Writes(kernel)
    BY <1>1, <1>2, WritesTail
  <1>4. screen \in Seq(Character) /\ Orderly(kernel, screen)
    BY DEF PrintInv, Cursor
  <1>5. /\ Head(kernel).text \in Seq(Character) /\ OneLine(Head(kernel).text)
        /\ Orderly(Tail(kernel), LineAfter(screen, Head(kernel).text))
    BY <1>1, <1>4, OrderlyTail
  <1>6. PICK chars : chars = Head(kernel).text
    OBVIOUS
  <1>7. screen' \in Seq(Character) /\ Open(screen') /\ screen' = LineAfter(screen, chars)
    BY <1>1, <1>5, <1>6, ShowLine DEF PrintInv
  <1>8. Cursor'
    BY <1>1, <1>5, <1>6, <1>7 DEF Cursor
  <1>9. Writing'
    BY <1>1, <1>3 DEF PrintInv, Writing
  <1>10. Buffers'
    BY <1>1 DEF PrintInv, Buffers
  <1> QED BY <1>8, <1>9, <1>10 DEF PrintInv

OneLiner(chars) == chars \in Seq(Character) /\ OneLine(chars)

LEMMA ShortText ==
  ASSUME NEW n \in Nat, NEW chars \in [1 .. n -> Character], \A i \in 1 .. n : chars[i] # Newline
  PROVE  OneLiner(chars)
PROOF
  <1>1. chars \in Seq(Character) /\ DOMAIN chars = 1 .. n
    OBVIOUS
  <1> QED BY <1>1 DEF OneLiner, OneLine

(* What schedule logs. *)
LEMMA NamesProcess ==
  ASSUME NEW q \in Process
  PROVE  /\ OneLiner(<<"s", "t", "i", "l", "l", Pid(q)>>)
         /\ OneLiner(<<"n", "e", "x", "t", Pid(q)>>)
PROOF
  <1>1. PICK x : x = Pid(q) /\ x \in Character \ {Newline}
    BY CharacterAssumption, Zenon
  <1>2. /\ \A y \in {"s", "t", "i", "l", "n", "e", "x"} : y \in Character /\ y # Newline
        /\ x \in Character /\ x # Newline
    BY <1>1, Alphabet DEF Newline
  <1>3. PICK a, b : a = <<"s", "t", "i", "l", "l", x>> /\ b = <<"n", "e", "x", "t", x>>
    OBVIOUS
  <1>4. OneLiner(a)
    <2>1. a \in [1 .. 6 -> Character] /\ \A i \in 1 .. 6 : a[i] # Newline
      BY <1>2, <1>3
    <2> QED BY <2>1, ShortText
  <1>5. OneLiner(b)
    <2>1. b \in [1 .. 5 -> Character] /\ \A i \in 1 .. 5 : b[i] # Newline
      BY <1>2, <1>3
    <2> QED BY <2>1, ShortText
  <1> QED BY <1>1, <1>3, <1>4, <1>5, Zenon

(* A program's line appears on the screen, as it is in the buffer. *)
LEMMA WriteTexts ==
  ASSUME LockInv, PrintInv, Write
  PROVE  /\ PrintInv' /\ current \in Process /\ flush[current] = "called"
         /\ Ended(buffer[current]) /\ screen = <<>> /\ Tail(kernel) = <<>>
         /\ line' = buffer[current] /\ screen' = <<>> /\ Head(kernel).text = <<>>
PROOF
  <1>1. /\ kernel # <<>> /\ Head(kernel).op = "write" /\ kernel' = Tail(kernel)
        /\ flush' = [flush EXCEPT ![current] = "done"]
        /\ text' = text /\ buffer' = buffer /\ running' = running /\ current' = current
    BY DEF Write
  <1>2. PICK S : kernel \in Seq(S)
    BY DEF LockInv, Balanced
  <1>3. Writes(kernel)
    BY <1>1, <1>2, WritesTail
  <1>4. current \in Process /\ flush[current] = "called"
    BY <1>3 DEF PrintInv, Writing
  <1>5. PICK b : b = buffer[current]
    OBVIOUS
  <1>6. b \in Seq(Visible) /\ Ended(b) /\ Len(b) + Len(text[current]) <= MaxHeld
    BY <1>4, <1>5 DEF PrintInv, Buffers
  <1>7. Len(b) < MaxLine
    <2>1. text[current] \in Seq(Visible)
      BY <1>4 DEF PrintInv, Buffers
    <2>2. Len(b) \in Nat /\ Len(text[current]) \in Nat
      BY <1>6, <2>1
    <2>3. MaxHeld \in Nat /\ MaxLine \in Nat /\ MaxHeld < MaxLine
      BY ConsoleAssumption
    <2> QED BY <1>6, <2>2, <2>3
  <1>8. Show(b)
    <2>1. PICK stale \in Stale : \E chars \in {StringIn(Copied(b, stale))} : Show(chars)
      BY <1>5 DEF Write
    <2>2. StringIn(Copied(b, stale)) = b
      BY <1>6, <1>7, CopyPrinted DEF Visible
    <2> QED BY <2>1, <2>2
  <1>9. screen \in Seq(Character) /\ Orderly(kernel, screen)
    BY DEF PrintInv, Cursor
  <1>10. Tail(kernel) = <<>> /\ screen = <<>> /\ Head(kernel).text = <<>>
    BY <1>1, <1>9, OrderlyTail
  <1>11. b \in Seq(Character) /\ OneLine(b)
    BY <1>6 DEF Visible, Ended
  <1>12. screen' = <<>> /\ line' = screen \o b
    BY <1>6, <1>8, <1>11, ShowLine DEF PrintInv
  <1>13. line' = b
    BY <1>10, <1>11, <1>12
  <1>14. Cursor'
    <2>1. Orderly(Tail(kernel), LineAfter(screen, Head(kernel).text))
      BY <1>1, <1>9, OrderlyTail
    <2>2. LineAfter(screen, Head(kernel).text) = <<>>
      BY <1>10 DEF LineAfter
    <2> QED BY <1>1, <1>12, <2>1, <2>2 DEF Cursor, Open
  <1>15. Writing'
    <2>1. ~Writes(kernel')
      BY <1>1, <1>10, WritesNot
    <2>2. \A p \in Process : flush'[p] # "called"
      BY <1>1, <1>4 DEF PrintInv, Writing, Buffers
    <2> QED BY <2>1, <2>2 DEF Writing
  <1>16. Buffers'
    <2>1. flush' \in [Process -> {"no", "called", "done"}]
      BY <1>1 DEF PrintInv, Buffers
    <2>2. \A p \in Process : flush'[p] = "no" <=> flush[p] = "no"
      BY <1>1, <1>4 DEF PrintInv, Buffers
    <2> QED BY <1>1, <2>1, <2>2 DEF PrintInv, Buffers
  <1> QED BY <1>4, <1>5, <1>6, <1>10, <1>12, <1>13, <1>14, <1>15, <1>16 DEF PrintInv

LEMMA ScheduleTexts ==
  ASSUME LockInv, PrintInv, Schedule
  PROVE  /\ PrintInv' /\ Tail(kernel) = <<>> /\ screen = <<>> /\ Head(kernel).text = <<>>
PROOF
  <1>1. /\ kernel # <<>> /\ Head(kernel).op = "schedule" /\ screen' = screen
        /\ text' = text /\ buffer' = buffer /\ flush' = flush /\ running' = running
    BY DEF Schedule
  <1>2. PICK S : kernel \in Seq(S)
    BY DEF LockInv, Balanced
  <1>3. screen \in Seq(Character) /\ Orderly(kernel, screen)
    BY DEF PrintInv, Cursor
  <1>4. Tail(kernel) = <<>> /\ screen = <<>> /\ Head(kernel).text = <<>>
    BY <1>1, <1>3, OrderlyTail
  <1>5. ~Writes(kernel)
    BY <1>1, <1>2, <1>4, WritesTail, WritesNot
  <1>6. PICK q \in running : /\ current' = q
                             /\ kernel' = LogLog(INFO, Prints(IF q = current
                                                             THEN <<"s", "t", "i", "l", "l", Pid(q)>>
                                                             ELSE <<"n", "e", "x", "t", Pid(q)>>))
    BY DEF Schedule
  <1>7. q \in Process /\ q # NoProcess
    BY <1>6, ConsoleAssumption DEF PrintInv, Buffers
  <1>8. PICK chars \in Seq(Character) : OneLine(chars) /\ kernel' = LogLog(INFO, Prints(chars))
    BY <1>6, <1>7, NamesProcess DEF OneLiner
  <1>9. Prints(chars).op = "print" /\ Prints(chars).text = chars
    BY DEF Prints
  <1>10. Orderly(kernel', <<>>) /\ ~Writes(kernel')
    BY <1>8, <1>9, OrderlyLog, WritesNot
  <1>11. Cursor'
    <2>1. Orderly(kernel', screen')
      BY <1>1, <1>4, <1>10
    <2> QED BY <1>1, <2>1 DEF PrintInv, Cursor
  <1>12. Writing'
    BY <1>1, <1>5, <1>10 DEF PrintInv, Writing
  <1>13. Buffers'
    BY <1>1, <1>6, <1>7 DEF PrintInv, Buffers
  <1> QED BY <1>4, <1>11, <1>12, <1>13 DEF PrintInv

(* A program's step that the kernel has no part in.                            *)
LEMMA AloneTexts ==
  ASSUME PrintInv, kernel = <<>>, kernel' = kernel, screen' = screen, current' = current
  PROVE  /\ Cursor'
         /\ (\A p \in Process : flush'[p] = "called" <=> flush[p] = "called") => Writing'
PROOF
  BY DEF PrintInv, Cursor, Writing

LEMMA PrintfTexts ==
  ASSUME PrintInv, NEW p \in Process, NEW call \in UserCalls, Printf(p, call)
  PROVE  PrintInv' /\ \E chars \in Seq(Visible) : text' = [text EXCEPT ![p] = chars]
PROOF
  <1>1. /\ kernel = <<>> /\ p = current /\ text[p] = <<>> /\ flush[p] = "no"
        /\ buffer' = buffer /\ flush' = flush /\ running' = running /\ current' = current
        /\ kernel' = kernel /\ screen' = screen
    BY DEF Printf, UserMode
  <1>2. PICK chars : chars = TextOf(call)
    OBVIOUS
  <1>3. chars \in Seq(Visible)
    BY <1>2, TextAssumption, Zenon DEF Visible
  <1>4. /\ Len(buffer[p]) + Len(chars) <= MaxHeld
        /\ text' = [text EXCEPT ![p] = chars]
    BY <1>2 DEF Printf
  <1>5. Cursor' /\ Writing'
    BY <1>1, AloneTexts
  <1>6. p \in running
    BY <1>1, ConsoleAssumption DEF PrintInv, Buffers
  <1>7. text' \in [Process -> Seq(Visible)] /\ \A q \in Process : q # p => text'[q] = text[q]
    BY <1>3, <1>4 DEF PrintInv, Buffers
  <1>8. text'[p] = chars
    BY <1>4 DEF PrintInv, Buffers
  <1>9. Buffers'
    <2>1. \A q \in Process : Len(buffer'[q]) + Len(text'[q]) <= MaxHeld
      BY <1>1, <1>4, <1>7, <1>8 DEF PrintInv, Buffers
    <2>2. \A q \in Process : q \notin running' => buffer'[q] = <<>> /\ text'[q] = <<>>
      BY <1>1, <1>6, <1>7 DEF PrintInv, Buffers
    <2> QED BY <1>1, <1>7, <2>1, <2>2 DEF PrintInv, Buffers
  <1> QED BY <1>3, <1>4, <1>5, <1>9 DEF PrintInv

LEMMA ResetTexts ==
  ASSUME PrintInv, NEW p \in Process, ResetCount(p)
  PROVE  PrintInv'
PROOF
  <1>1. /\ kernel = <<>> /\ flush[p] = "done"
        /\ buffer' = [buffer EXCEPT ![p] = <<>>] /\ flush' = [flush EXCEPT ![p] = "no"]
        /\ text' = text /\ running' = running /\ current' = current
        /\ kernel' = kernel /\ screen' = screen
    BY DEF ResetCount, UserMode
  <1>2. /\ flush' \in [Process -> {"no", "called", "done"}] /\ flush'[p] = "no"
        /\ \A q \in Process : q # p => flush'[q] = flush[q]
    BY <1>1 DEF PrintInv, Buffers
  <1>3. Cursor' /\ Writing'
    BY <1>1, <1>2, AloneTexts
  <1>4. <<>> \in Seq(Visible) /\ Open(<<>>)
    BY DEF Open
  <1>5. /\ buffer' \in [Process -> Seq(Visible)] /\ buffer'[p] = <<>>
        /\ \A q \in Process : q # p => buffer'[q] = buffer[q]
    BY <1>1, <1>4 DEF PrintInv, Buffers
  <1>6. Buffers'
    <2>1. Len(buffer'[p]) + Len(text'[p]) <= MaxHeld
      <3>1. buffer[p] \in Seq(Visible) /\ text[p] \in Seq(Visible)
            /\ Len(buffer[p]) + Len(text[p]) <= MaxHeld
        BY DEF PrintInv, Buffers
      <3>2. Len(buffer[p]) \in Nat /\ Len(text[p]) \in Nat /\ MaxHeld \in Nat /\ Len(<<>>) = 0
        BY <3>1, ConsoleAssumption
      <3> QED BY <1>1, <1>5, <3>1, <3>2
    <2>2. \A q \in Process : Len(buffer'[q]) + Len(text'[q]) <= MaxHeld
      BY <1>1, <1>5, <2>1 DEF PrintInv, Buffers
    <2>3. \A q \in Process : q \notin running' => buffer'[q] = <<>> /\ text'[q] = <<>>
      BY <1>1, <1>5 DEF PrintInv, Buffers
    <2>4. \A q \in Process : IF flush'[q] = "no" THEN Open(buffer'[q]) ELSE Ended(buffer'[q])
      BY <1>2, <1>4, <1>5 DEF PrintInv, Buffers
    <2> QED BY <1>1, <1>2, <1>5, <2>2, <2>3, <2>4 DEF PrintInv, Buffers
  <1> QED BY <1>3, <1>6 DEF PrintInv

LEMMA ForkTexts ==
  ASSUME PrintInv, NEW p \in Process, NEW child \in Process, Fork(p, child)
  PROVE  /\ PrintInv' /\ p # child
         /\ buffer[child] = <<>> /\ text[child] = <<>> /\ flush[child] = "no"
PROOF
  <1>1. /\ kernel = <<>> /\ p = current /\ text[p] = <<>> /\ flush[p] = "no"
        /\ child \notin running /\ running' = running \cup {child}
        /\ buffer' = [buffer EXCEPT ![child] = buffer[p]]
        /\ kernel' = Unseen \o MemoryMap(child)
        /\ text' = text /\ flush' = flush /\ current' = current /\ screen' = screen
    BY DEF Fork, UserMode
  <1>2. p \in running /\ p # child
    BY <1>1, ConsoleAssumption DEF PrintInv, Buffers
  <1>3. buffer[child] = <<>> /\ text[child] = <<>> /\ flush[child] = "no"
    BY <1>1 DEF PrintInv, Buffers, Ended
  <1>4. Whole(kernel')
    BY <1>1, WholeUnseen, WholeMap, WholeConcat
  <1>5. Orderly(kernel', <<>>) /\ ~Writes(kernel')
    BY <1>4, WholeOrderly, WritesNot
  <1>6. Cursor'
    BY <1>1, <1>5, Begins DEF PrintInv
  <1>7. Writing'
    BY <1>1, <1>5, Begins DEF PrintInv, Writing
  <1>8. /\ buffer' \in [Process -> Seq(Visible)] /\ buffer'[child] = buffer[p]
        /\ \A q \in Process : q # child => buffer'[q] = buffer[q]
    BY <1>1 DEF PrintInv, Buffers
  <1>9. Buffers'
    <2>1. \A q \in Process : Len(buffer'[q]) + Len(text'[q]) <= MaxHeld
      BY <1>1, <1>3, <1>8 DEF PrintInv, Buffers
    <2>2. \A q \in Process : q \notin running' => buffer'[q] = <<>> /\ text'[q] = <<>>
      BY <1>1, <1>8 DEF PrintInv, Buffers
    <2>3. \A q \in Process : IF flush'[q] = "no" THEN Open(buffer'[q]) ELSE Ended(buffer'[q])
      BY <1>1, <1>3, <1>8 DEF PrintInv, Buffers
    <2>4. running' \subseteq Process /\ current' \in running' \cup {NoProcess}
          /\ (current' = NoProcess => running' = {})
      BY <1>1, <1>2 DEF PrintInv, Buffers
    <2> QED BY <1>1, <1>8, <2>1, <2>2, <2>3, <2>4 DEF PrintInv, Buffers
  <1> QED BY <1>2, <1>3, <1>6, <1>7, <1>9 DEF PrintInv

LEMMA GetpidTexts ==
  ASSUME PrintInv, NEW p \in Process, Getpid(p)
  PROVE  PrintInv'
PROOF
  <1>1. Orderly(kernel', <<>>) /\ ~Writes(kernel')
    BY WholeUnseen, WholeOrderly, WritesNot DEF Getpid
  <1> QED BY <1>1, HandlerTexts DEF Getpid, UserMode, user

LEMMA TickTexts ==
  ASSUME PrintInv, Tick
  PROVE  PrintInv'
PROOF
  <1>1. Orderly(kernel', <<>>) /\ ~Writes(kernel')
    BY WholeUnseen, WholeOrderly, WritesAppend DEF Tick
  <1> QED BY <1>1, HandlerTexts DEF Tick, user

(* What printf moves to the buffer in one go: up to the end of a line.         *)
LEMMA PutCharsTexts ==
  ASSUME PrintInv, NEW p \in Process, PutChars(p)
  PROVE  /\ PrintInv' /\ flush[p] = "no" /\ flush'[p] # "done"
         /\ buffer'[p] \o text'[p] = buffer[p] \o text[p]
         /\ \A q \in Process : q # p => /\ buffer'[q] = buffer[q] /\ text'[q] = text[q]
                                        /\ flush'[q] = flush[q]
PROOF
  <1>1. PICK b, t : b = buffer[p] /\ t = text[p]
    OBVIOUS
  <1>2. PICK ends : ends = {i \in DOMAIN t : t[i] = Newline}
    OBVIOUS
  <1>3. PICK n : n = IF ends = {} THEN Len(t) ELSE Min(ends)
    OBVIOUS
  <1>4. /\ p = current /\ kernel = <<>> /\ t # <<>> /\ flush[p] = "no"
        /\ buffer' = [buffer EXCEPT ![p] = b \o SubSeq(t, 1, n)]
        /\ text' = [text EXCEPT ![p] = SubSeq(t, n + 1, Len(t))]
        /\ IF ends = {} THEN flush' = flush /\ kernel' = kernel
           ELSE /\ flush' = [flush EXCEPT ![p] = "called"]
                /\ kernel' = Append(Unseen, Do("write"))
        /\ running' = running /\ current' = current /\ screen' = screen
    BY <1>1, <1>2, <1>3 DEF PutChars, UserMode
  <1>5. /\ b \in Seq(Visible) /\ t \in Seq(Visible) /\ Open(b)
        /\ Len(b) + Len(t) <= MaxHeld
    BY <1>1, <1>4 DEF PrintInv, Buffers
  <1>6. Len(t) \in Nat \ {0} /\ DOMAIN t = 1 .. Len(t) /\ ends \in SUBSET Nat
    BY <1>2, <1>4, <1>5
  <1>7. /\ n \in 1 .. Len(t) /\ \A i \in 1 .. n - 1 : t[i] # Newline
        /\ ends # {} <=> t[n] = Newline
    <2>1. CASE ends = {}
      <3>1. n = Len(t) /\ n \in DOMAIN t
        BY <1>3, <1>6, <2>1
      <3>2. \A i \in DOMAIN t : t[i] # Newline
        BY <1>2, <2>1
      <3>3. \A i \in 1 .. n - 1 : i \in DOMAIN t
        BY <1>6, <3>1
      <3> QED BY <1>6, <2>1, <3>1, <3>2, <3>3
    <2>2. CASE ends # {}
      <3>1. n \in ends /\ \A y \in ends : n <= y
        BY <1>3, <1>6, <2>2, LeastOf
      <3>2. n \in 1 .. Len(t) /\ t[n] = Newline
        BY <1>2, <1>6, <3>1
      <3>3. ASSUME NEW i \in 1 .. n - 1, t[i] = Newline PROVE FALSE
        <4>1. i \in ends
          BY <1>2, <1>6, <3>2, <3>3
        <4>2. n <= i /\ i < n
          BY <1>6, <3>1, <3>2, <4>1
        <4> QED BY <1>6, <3>2, <4>2
      <3> QED BY <2>2, <3>2, <3>3
    <2> QED BY <2>1, <2>2
  <1>8. PICK x, y : x = b \o SubSeq(t, 1, n) /\ y = SubSeq(t, n + 1, Len(t))
    OBVIOUS
  <1>9. /\ x \in Seq(Visible) /\ y \in Seq(Visible) /\ Len(x) + Len(y) = Len(b) + Len(t)
        /\ x # <<>> /\ OneLine(x) /\ Last(x) = t[n] /\ x \o y = b \o t
    <2>1. PICK S : S = Visible
      OBVIOUS
    <2>2. Moved(b, t, n, b \o SubSeq(t, 1, n), SubSeq(t, n + 1, Len(t)), S)
      BY <1>5, <1>7, <2>1, Moves
    <2>3. Moved(b, t, n, x, y, S)
      BY <1>8, <2>2
    <2> QED BY <2>1, <2>3 DEF Moved
  <1>10. IF ends = {} THEN Open(x) ELSE Ended(x)
    <2>1. Open(x) \/ Ended(x)
      BY <1>9, OpenOrEnded
    <2> QED BY <1>7, <1>9, <2>1 DEF Ended
  <1>11. /\ buffer' \in [Process -> Seq(Visible)] /\ text' \in [Process -> Seq(Visible)]
         /\ buffer'[p] = x /\ text'[p] = y
         /\ \A q \in Process : q # p => buffer'[q] = buffer[q] /\ text'[q] = text[q]
    BY <1>4, <1>8, <1>9 DEF PrintInv, Buffers
  <1>12. /\ flush' \in [Process -> {"no", "called", "done"}]
         /\ flush'[p] = IF ends = {} THEN "no" ELSE "called"
         /\ \A q \in Process : q # p => flush'[q] = flush[q]
    BY <1>4 DEF PrintInv, Buffers
  <1>13. p \in running
    BY <1>4, ConsoleAssumption DEF PrintInv, Buffers
  <1>14. Buffers'
    <2>1. \A q \in Process : Len(buffer'[q]) + Len(text'[q]) <= MaxHeld
      <3>1. Len(x) + Len(y) <= MaxHeld
        BY <1>5, <1>9
      <3> QED BY <1>11, <3>1 DEF PrintInv, Buffers
    <2>2. \A q \in Process : q \notin running' => buffer'[q] = <<>> /\ text'[q] = <<>>
      BY <1>4, <1>11, <1>13 DEF PrintInv, Buffers
    <2>3. \A q \in Process : IF flush'[q] = "no" THEN Open(buffer'[q]) ELSE Ended(buffer'[q])
      <3>1. IF flush'[p] = "no" THEN Open(x) ELSE Ended(x)
        BY <1>10, <1>12
      <3>2. \A q \in Process : IF flush[q] = "no" THEN Open(buffer[q]) ELSE Ended(buffer[q])
        BY DEF PrintInv, Buffers
      <3> QED BY <1>11, <1>12, <3>1, <3>2
    <2> QED BY <1>4, <1>11, <1>12, <2>1, <2>2, <2>3 DEF PrintInv, Buffers
  <1>15. Cursor' /\ Writing'
    <2>1. CASE ends = {}
      <3>1. \A q \in Process : flush'[q] = flush[q]
        BY <1>4, <2>1
      <3> QED BY <1>4, <2>1, <3>1, AloneTexts
    <2>2. CASE ends # {}
      <3>1. Orderly(kernel', <<>>) /\ Writes(kernel')
        BY <1>4, <2>2, WholeUnseen, WholeOrderly, WritesAppend
      <3>2. Cursor'
        BY <1>4, <3>1, Begins DEF PrintInv
      <3>3. \A q \in Process : flush[q] # "called"
        BY <1>4, Begins DEF PrintInv
      <3>4. Writing'
        BY <1>4, <1>12, <2>2, <3>1, <3>3 DEF Writing
      <3> QED BY <3>2, <3>4
    <2> QED BY <2>1, <2>2
  <1>16. flush'[p] # "done"
    BY <1>12
  <1> QED BY <1>1, <1>4, <1>9, <1>11, <1>12, <1>14, <1>15, <1>16 DEF PrintInv

-----------------------------------------------------------------------------

LEMMA TextsStart == Init => TextInv
PROOF
  <1> SUFFICES ASSUME Init PROVE TextInv
    OBVIOUS
  <1>1. LockInv
    BY BalancedNothing DEF Init, LockInv
  <1>2. <<>> \in Seq(Visible) /\ Open(<<>>) /\ Len(<<>>) = 0 /\ <<>> \in Seq(Character)
    BY DEF Open
  <1>3. 0 + 0 <= MaxHeld
    BY ConsoleAssumption
  <1>4. Buffers
    BY <1>2, <1>3 DEF Init, Buffers
  <1>5. Writing
    BY WritesNot DEF Init, Writing
  <1>6. Orderly(<<>>, <<>>)
    <2>1. <<>> \in Seq({}) /\ \A i \in 1 .. Len(<<>>) : FALSE
      OBVIOUS
    <2> QED BY <2>1, OrderlyLevel
  <1>7. Cursor
    BY <1>2, <1>6 DEF Init, Cursor
  <1> QED BY <1>1, <1>4, <1>5, <1>7 DEF TextInv, PrintInv

LEMMA KeepsTextInv == TextInv /\ [Next]_vars => TextInv'
PROOF
  <1> SUFFICES ASSUME TextInv, [Next]_vars PROVE TextInv'
    OBVIOUS
  <1>1. LockInv /\ PrintInv
    BY DEF TextInv
  <1>2. LockInv'
    BY <1>1, KeepsLockInv
  <1>3. PrintInv'
    <2>1. CASE Boot
      BY <1>1, <2>1, BootTexts, ExecveTexts DEF Boot
    <2>2. CASE KernelStep
      BY <1>1, <2>2, LockTexts, PrintTexts, WriteTexts, ScheduleTexts DEF KernelStep
    <2>3. ASSUME NEW p \in Process, UserStep(p) PROVE PrintInv'
      BY <1>1, <2>3, PrintfTexts, PutCharsTexts, ResetTexts, ForkTexts, GetpidTexts DEF UserStep
    <2>4. CASE Tick
      BY <1>1, <2>4, TickTexts
    <2>5. CASE UNCHANGED vars
      BY <1>1, <2>5 DEF vars, PrintInv, Buffers, Writing, Cursor
    <2> QED BY <2>1, <2>2, <2>3, <2>4, <2>5 DEF Next
  <1> QED BY <1>2, <1>3 DEF TextInv

LEMMA TextInvType == TextInv => TypeOK
PROOF
  <1> SUFFICES ASSUME TextInv PROVE TypeOK
    OBVIOUS
  <1>1. Buffers /\ LockInv
    BY DEF TextInv, PrintInv
  <1>2. \A i \in DOMAIN kernel : kernel[i].op \in Ops
    <2>1. PICK S : kernel \in Seq(S)
      BY <1>1 DEF LockInv, Balanced
    <2>2. PICK held : Follows(kernel, locked, held)
      BY <1>1 DEF LockInv, Balanced
    <2>3. DOMAIN kernel = 1 .. Len(kernel)
      BY <2>1
    <2> QED BY <2>2, <2>3 DEF Follows
  <1>3. ASSUME NEW p \in Process
        PROVE  /\ flush[p] \in {"no", "called", "done"}
               /\ Len(buffer[p]) < MaxLine
               /\ p \notin running => buffer[p] = <<>> /\ text[p] = <<>>
               /\ flush[p] # "no" <=> buffer[p] # <<>> /\ Last(buffer[p]) = Newline
               /\ Cardinality({i \in DOMAIN buffer[p] : buffer[p][i] = Newline}) <= 1
    <2>1. PICK b : b = buffer[p]
      OBVIOUS
    <2>2. /\ b \in Seq(Visible) /\ text[p] \in Seq(Visible) /\ flush[p] \in {"no", "called", "done"}
          /\ Len(b) + Len(text[p]) <= MaxHeld
          /\ p \notin running => b = <<>> /\ text[p] = <<>>
          /\ IF flush[p] = "no" THEN Open(b) ELSE Ended(b)
      BY <1>1, <2>1 DEF Buffers
    <2>3. Len(b) < MaxLine
      <3>1. Len(b) \in Nat /\ Len(text[p]) \in Nat /\ MaxHeld \in Nat /\ MaxLine \in Nat
            /\ MaxHeld < MaxLine
        BY <2>2, ConsoleAssumption
      <3> QED BY <2>2, <3>1
    <2>4. Open(b) => ~(b # <<>> /\ Last(b) = Newline)
      <3>1. b # <<>> => Len(b) \in DOMAIN b
        BY <2>2
      <3> QED BY <3>1 DEF Open, Last
    <2>5. flush[p] # "no" <=> b # <<>> /\ Last(b) = Newline
      BY <2>2, <2>4 DEF Ended
    <2>6. Cardinality({i \in DOMAIN b : b[i] = Newline}) <= 1
      <3>1. PICK T : T = {i \in DOMAIN b : b[i] = Newline}
        OBVIOUS
      <3>2. T \subseteq {Len(b)}
        BY <2>2, <3>1 DEF Open, Ended, OneLine
      <3>3. T = {} \/ T = {Len(b)}
        BY <3>2
      <3>4. Cardinality(T) <= 1
        <4>1. Cardinality({}) = 0
          BY FS_EmptySet
        <4>2. \A n : Cardinality({n}) = 1
          BY FS_Singleton
        <4>3. Cardinality(T) = 0 \/ Cardinality(T) = 1
          BY <3>3, <4>1, <4>2, Zenon
        <4> QED BY <4>3
      <3> QED BY <3>1, <3>4
    <2> QED BY <2>1, <2>2, <2>3, <2>5, <2>6
  <1> QED BY <1>1, <1>2, <1>3 DEF TypeOK, Buffers, LockInv

(* Whatever the processes print, fork and wait for: user/printf.c's buffer never  *)
(* holds more than sys_write's copy of it has room for, zero included; what it    *)
(* holds is a line that has not ended, or, from the call of write until ccount is *)
(* reset, exactly one that has; and log_log never runs a step it has not.         *)
THEOREM TypeCorrect == Spec => []TypeOK
PROOF
  BY TextsStart, KeepsTextInv, TextInvType, PTL DEF Spec

-----------------------------------------------------------------------------
(* The lines of the texts: what Lines sees of the state                       *)

Writers == Process \cup {NoProcess}
Pending == [w \in Writers |-> IF w = NoProcess THEN Saying ELSE Waiting(w)]

(* What the steps of k print. *)
Printed(k) == FlattenSeq([i \in DOMAIN k |-> k[i].text])

LEMMA PrintedType ==
  ASSUME NEW k, NEW before, Orderly(k, before)
  PROVE  Printed(k) \in Seq(Character)
PROOF
  <1>1. PICK S : k \in Seq(S)
    BY DEF Orderly
  <1>2. PICK at : Tells(k, at)
    BY DEF Orderly
  <1>3. PICK s : s = [i \in DOMAIN k |-> k[i].text]
    OBVIOUS
  <1>4. DOMAIN k = 1 .. Len(k) /\ Len(k) \in Nat
    BY <1>1
  <1>5. \A i \in 1 .. Len(k) : k[i].text \in Seq(Character)
    BY <1>2 DEF Tells
  <1>6. s \in Seq(Seq(Character))
    BY <1>3, <1>4, <1>5
  <1> QED BY <1>3, <1>6, FlatType DEF Printed

LEMMA PrintedNothing == Printed(<<>>) = <<>>
PROOF
  <1>1. [i \in DOMAIN <<>> |-> <<>>[i].text] = <<>>
    OBVIOUS
  <1> QED BY <1>1, FlatNothing DEF Printed

LEMMA PrintedTail ==
  ASSUME NEW k, k # <<>>, NEW before, Orderly(k, before)
  PROVE  Printed(k) = Head(k).text \o Printed(Tail(k))
PROOF
  <1>1. PICK S : k \in Seq(S)
    BY DEF Orderly
  <1>2. PICK at : Tells(k, at)
    BY DEF Orderly
  <1>3. PICK s, t : s = [i \in DOMAIN k |-> k[i].text]
                    /\ t = [i \in DOMAIN Tail(k) |-> Tail(k)[i].text]
    OBVIOUS
  <1>4. PICK n \in Nat : n + 1 = Len(k)
    <2>1. Len(k) \in Nat /\ Len(k) # 0
      BY <1>1
    <2>2. Len(k) - 1 \in Nat /\ (Len(k) - 1) + 1 = Len(k)
      BY <2>1
    <2> QED BY <2>2
  <1>5. /\ DOMAIN k = 1 .. n + 1 /\ Head(k) = k[1]
        /\ DOMAIN Tail(k) = 1 .. n /\ \A i \in 1 .. n : Tail(k)[i] = k[i + 1]
    BY <1>1, <1>4
  <1>6. \A i \in 1 .. n + 1 : k[i].text \in Seq(Character)
    BY <1>2, <1>4 DEF Tells
  <1>7. s \in Seq(Seq(Character)) /\ Len(s) = n + 1 /\ \A i \in 1 .. n + 1 : s[i] = k[i].text
    BY <1>3, <1>5, <1>6
  <1>8. s # <<>> /\ Head(s) = Head(k).text
    <2>1. 1 \in 1 .. n + 1
      OBVIOUS
    <2> QED BY <1>5, <1>7, <2>1
  <1>9. Tail(s) = t
    <2>1. PICK u : u = Tail(s)
      OBVIOUS
    <2>2. u \in Seq(Seq(Character)) /\ Len(u) = n /\ \A i \in 1 .. n : u[i] = s[i + 1]
      BY <1>7, <1>8, <2>1
    <2>3. \A i \in 1 .. n : i + 1 \in 1 .. n + 1
      OBVIOUS
    <2>4. \A i \in 1 .. n : t[i] = k[i + 1].text
      BY <1>3, <1>5
    <2>5. \A i \in 1 .. n : t[i] \in Seq(Character)
      BY <1>6, <2>3, <2>4
    <2>6. t = [i \in 1 .. n |-> t[i]]
      BY <1>3, <1>5
    <2>7. t \in Seq(Seq(Character)) /\ Len(t) = n
      BY <2>5, <2>6
    <2>8. \A i \in 1 .. Len(u) : u[i] = t[i]
      BY <1>7, <2>2, <2>3, <2>4
    <2> QED BY <2>1, <2>2, <2>7, <2>8, SeqEqual
  <1>10. FlattenSeq(s) = Head(s) \o FlattenSeq(Tail(s))
    BY <1>7, <1>8, FlatHead
  <1> QED BY <1>3, <1>8, <1>9, <1>10 DEF Printed

(* What joins with nothing. *)
LEMMA JoinNothing ==
  ASSUME NEW S, NEW x \in Seq(S)
  PROVE  <<>> \o x = x /\ x \o <<>> = x /\ IsPrefix(<<>>, x) /\ IsPrefix(x, x)
PROOF
  <1>1. <<>> \o x = x /\ x \o <<>> = x
    OBVIOUS
  <1>2. Len(<<>>) = 0 /\ Len(x) \in Nat
    OBVIOUS
  <1>3. SubSeq(<<>>, 1, 0) = SubSeq(x, 1, 0)
    OBVIOUS
  <1> QED BY <1>1, <1>2, <1>3 DEF IsPrefix

LEMMA PrefixOf ==
  ASSUME NEW S, NEW x \in Seq(S), NEW y \in Seq(S)
  PROVE  IsPrefix(x, x \o y)
PROOF
  <1>1. PICK w : w = x \o y
    OBVIOUS
  <1>2. PICK m \in Nat, n \in Nat : m = Len(x) /\ n = Len(y)
    OBVIOUS
  <1>3. w \in Seq(S) /\ Len(w) = m + n /\ \A i \in 1 .. m : w[i] = x[i]
    BY <1>1, <1>2
  <1>4. PICK u : u = SubSeq(w, 1, m)
    OBVIOUS
  <1>5. u \in Seq(S) /\ Len(u) = m /\ \A i \in 1 .. m : u[i] = w[i]
    <2>1. \A i \in 1 .. m : w[i] \in S
      BY <1>2, <1>3
    <2> QED BY <1>3, <1>4, <2>1
  <1>6. u = x
    <2>1. \A i \in 1 .. Len(u) : u[i] = x[i]
      BY <1>3, <1>5
    <2> QED BY <1>2, <1>5, <2>1, SeqEqual
  <1>7. SubSeq(x, 1, m) = x
    BY <1>2
  <1> QED BY <1>1, <1>2, <1>3, <1>4, <1>6, <1>7 DEF IsPrefix

-----------------------------------------------------------------------------
(* What each kind of step is to Lines *)

Shown(w) == IF w = NoProcess THEN Saying ELSE Waiting(w)

LEMMA PendingIs ==
  /\ Pending = [w \in Writers |-> Shown(w)]
  /\ Pending' = [w \in Writers |-> Shown(w)']
  /\ Shown(NoProcess) = Saying /\ Shown(NoProcess)' = Saying'
  /\ \A p \in Process : Shown(p) = Waiting(p) /\ Shown(p)' = Waiting(p)'
PROOF
  <1>1. \A p \in Process : p # NoProcess
    BY ConsoleAssumption
  <1> QED BY <1>1 DEF Pending, Writers, Shown

LEMMA SayMaps ==
  ASSUME NEW w \in Writers, line' = <<>>, IsPrefix(Shown(w), Shown(w)'),
         \A v \in Writers : v # w => Shown(v)' = Shown(v)
  PROVE  Texts!Next
PROOF
  <1>1. Pending' = [Pending EXCEPT ![w] = Pending'[w]]
    BY PendingIs
  <1>2. IsPrefix(Pending[w], Pending'[w])
    BY PendingIs
  <1>3. Texts!IsPrefix(Pending[w], Pending'[w])
    BY <1>2 DEF IsPrefix, Texts!IsPrefix
  <1>4. Texts!Say(w)
    BY <1>1, <1>3 DEF Texts!Say, Pending, Writers
  <1> QED BY <1>4 DEF Texts!Next, Writers

LEMMA ShowMaps ==
  ASSUME NEW w \in Writers, NEW S, NEW a \in Seq(S), Ended(a),
         Shown(w)' \in Seq(S), Shown(w) = a \o Shown(w)', line' = a,
         \A v \in Writers : v # w => Shown(v)' = Shown(v)
  PROVE  Texts!Next
PROOF
  <1>1. PICK rest, all : rest = Shown(w)' /\ all = Shown(w)
    OBVIOUS
  <1>2. PICK n : n = Len(a)
    OBVIOUS
  <1>3. /\ n \in DOMAIN all /\ all[n] = Newline /\ \A m \in 1 .. n - 1 : all[m] # Newline
        /\ SubSeq(all, 1, n) = a /\ SubSeq(all, n + 1, Len(all)) = rest
    BY <1>1, <1>2, FirstLine
  <1>4. Pending[w] = all
    BY <1>1, PendingIs
  <1>5. Pending' = [Pending EXCEPT ![w] = rest]
    BY <1>1, PendingIs
  <1>6. Pending' = [Pending EXCEPT ![w] = SubSeq(Pending[w], n + 1, Len(Pending[w]))]
    BY <1>3, <1>4, <1>5
  <1>7. /\ n \in DOMAIN Pending[w] /\ Pending[w][n] = Newline
        /\ \A m \in 1 .. n - 1 : Pending[w][m] # Newline
        /\ line' = SubSeq(Pending[w], 1, n)
    BY <1>3, <1>4
  <1>8. Texts!Show(w)
    BY <1>6, <1>7 DEF Texts!Show, Pending, Writers
  <1> QED BY <1>8 DEF Texts!Next, Writers

LEMMA QuietMaps ==
  ASSUME line' = <<>>, \A w \in Writers : Shown(w)' = Shown(w)
  PROVE  Texts!Next
PROOF
  <1>1. Pending' = Pending
    BY PendingIs
  <1>2. Texts!Quiet
    BY <1>1 DEF Texts!Quiet, Pending, Writers
  <1> QED BY <1>2 DEF Texts!Next

(* A handler starts with nothing left to say, and leaves the programs' texts alone. *)
LEMMA HandlerSays ==
  ASSUME Saying = <<>>, Cursor', line' = <<>>, \A p \in Process : Waiting(p)' = Waiting(p)
  PROVE  Texts!Next
PROOF
  <1>1. Saying' \in Seq(Character)
    <2>1. screen' \in Seq(Character) /\ Orderly(kernel', screen')
      BY DEF Cursor
    <2>2. Printed(kernel') \in Seq(Character)
      BY <2>1, PrintedType
    <2> QED BY <2>1, <2>2 DEF Saying, Printed
  <1>2. IsPrefix(Shown(NoProcess), Shown(NoProcess)')
    BY <1>1, JoinNothing, PendingIs
  <1>3. \A v \in Writers : v # NoProcess => Shown(v)' = Shown(v)
    BY PendingIs DEF Writers
  <1>4. NoProcess \in Writers
    BY DEF Writers
  <1> QED BY <1>2, <1>3, <1>4, SayMaps

LEMMA NothingToSay ==
  ASSUME Cursor, kernel = <<>>
  PROVE  Saying = <<>>
PROOF
  <1>1. screen = <<>>
    BY OrderlyNothing DEF Cursor
  <1>2. Saying = <<>> \o <<>>
    BY <1>1, PrintedNothing DEF Saying, Printed
  <1> QED BY <1>2

LEMMA SameWaiting ==
  ASSUME text' = text, buffer' = buffer, flush' = flush
  PROVE  \A p \in Process : Waiting(p)' = Waiting(p)
PROOF
  BY DEF Waiting

-----------------------------------------------------------------------------
(* Each action is one of those steps *)

LEMMA PrintMaps ==
  ASSUME LockInv, PrintInv, PrintCall
  PROVE  Texts!Next
PROOF
  <1>1. /\ kernel # <<>> /\ kernel' = Tail(kernel) /\ Show(Head(kernel).text)
        /\ text' = text /\ buffer' = buffer /\ flush' = flush
    BY DEF PrintCall, user
  <1>2. PICK c, s, f : c = Head(kernel).text /\ s = screen /\ f = Printed(Tail(kernel))
    OBVIOUS
  <1>3. s \in Seq(Character) /\ Open(s) /\ Orderly(kernel, s)
    BY <1>2 DEF PrintInv, Cursor
  <1>4. /\ c \in Seq(Character) /\ OneLine(c)
        /\ Orderly(Tail(kernel), LineAfter(s, c))
    BY <1>1, <1>2, <1>3, OrderlyTail
  <1>5. f \in Seq(Character)
    BY <1>2, <1>4, PrintedType
  <1>6. Saying = s \o (c \o f)
    BY <1>1, <1>2, <1>3, PrintedTail DEF Saying, Printed
  <1>7. Saying' = screen' \o f
    BY <1>1, <1>2 DEF Saying, Printed
  <1>8. (s \o c) \o f = s \o (c \o f)
    <2>1. InAnyOrder(s, c, f)
      BY <1>3, <1>4, <1>5, JoinTexts, Zenon
    <2> QED BY <2>1 DEF InAnyOrder
  <1>9. \A p \in Process : Shown(p)' = Shown(p)
    BY <1>1, SameWaiting, PendingIs
  <1>10. CASE Ended(c)
    <2>1. line' = s \o c /\ screen' = <<>>
      BY <1>1, <1>2, <1>4, <1>10, ShowLine DEF PrintInv
    <2>2. PICK a : a = s \o c
      OBVIOUS
    <2>3. a \in Seq(Character) /\ Ended(a)
      BY <1>3, <1>4, <1>10, <2>2, LinesJoin
    <2>4. Saying' = f
      BY <1>5, <1>7, <2>1
    <2>5. Saying = a \o f
      BY <1>6, <1>8, <2>2
    <2>6. /\ Shown(NoProcess)' \in Seq(Character) /\ Shown(NoProcess) = a \o Shown(NoProcess)'
          /\ NoProcess \in Writers
      BY <1>5, <2>4, <2>5, PendingIs DEF Writers
    <2>7. \A v \in Writers : v # NoProcess => Shown(v)' = Shown(v)
      BY <1>9 DEF Writers
    <2> QED BY <2>1, <2>2, <2>3, <2>6, <2>7, ShowMaps
  <1>11. CASE ~Ended(c)
    <2>1. line' = <<>> /\ screen' = s \o c
      BY <1>1, <1>2, <1>4, <1>11, ShowLine DEF PrintInv
    <2>2. Saying' = Saying
      BY <1>6, <1>7, <1>8, <2>1
    <2>3. \A w \in Writers : Shown(w)' = Shown(w)
      BY <1>9, <2>2, PendingIs DEF Writers
    <2> QED BY <2>1, <2>3, QuietMaps
  <1> QED BY <1>10, <1>11

(* Before a step that prints nothing of the kernel's own.                      *)
LEMMA StepSays ==
  ASSUME Cursor, kernel # <<>>, Head(kernel).text = <<>>
  PROVE  /\ Saying = screen \o Printed(Tail(kernel))
         /\ Tail(kernel) = <<>> /\ screen = <<>> => Saying = <<>>
PROOF
  <1>1. screen \in Seq(Character) /\ Orderly(kernel, screen)
    BY DEF Cursor
  <1>2. PICK f : f = Printed(Tail(kernel))
    OBVIOUS
  <1>3. Orderly(Tail(kernel), LineAfter(screen, Head(kernel).text))
    BY <1>1, OrderlyTail
  <1>4. f \in Seq(Character)
    BY <1>2, <1>3, PrintedType
  <1>5. Printed(kernel) = <<>> \o f
    BY <1>1, <1>2, PrintedTail
  <1>6. <<>> \o f = f
    BY <1>4
  <1>7. Saying = screen \o f
    BY <1>5, <1>6 DEF Saying, Printed
  <1>8. ASSUME Tail(kernel) = <<>>, screen = <<>> PROVE Saying = <<>>
    <2>1. f = <<>>
      BY <1>2, <1>8, PrintedNothing
    <2> QED BY <1>7, <1>8, <2>1
  <1> QED BY <1>2, <1>7, <1>8

LEMMA LockMaps ==
  ASSUME LockInv, PrintInv, Lock \/ Unlock
  PROVE  Texts!Next
PROOF
  <1>1. /\ line' = <<>> /\ screen' = screen
        /\ text' = text /\ buffer' = buffer /\ flush' = flush
    BY DEF Lock, Unlock, user
  <1>2. kernel' = Tail(kernel) /\ kernel # <<>> /\ Head(kernel).op \in {"lock", "unlock"}
    BY LockTexts
  <1>3. Head(kernel).text = <<>>
    <2>1. screen \in Seq(Character) /\ Orderly(kernel, screen)
      BY DEF PrintInv, Cursor
    <2> QED BY <1>2, <2>1, OrderlyTail
  <1>4. Saying' = Saying
    BY <1>1, <1>2, <1>3, StepSays DEF PrintInv, Saying, Printed
  <1>5. \A w \in Writers : Shown(w)' = Shown(w)
    BY <1>1, <1>4, SameWaiting, PendingIs DEF Writers
  <1> QED BY <1>1, <1>5, QuietMaps

LEMMA WriteMaps ==
  ASSUME LockInv, PrintInv, Write
  PROVE  Texts!Next
PROOF
  <1>1. /\ kernel # <<>> /\ kernel' = Tail(kernel)
        /\ flush' = [flush EXCEPT ![current] = "done"]
        /\ text' = text /\ buffer' = buffer
    BY DEF Write
  <1>2. /\ current \in Process /\ flush[current] = "called"
        /\ Ended(buffer[current]) /\ screen = <<>> /\ Tail(kernel) = <<>>
        /\ line' = buffer[current] /\ screen' = <<>> /\ Head(kernel).text = <<>>
    BY WriteTexts
  <1>3. PICK p, b, t : p = current /\ b = buffer[p] /\ t = text[p]
    OBVIOUS
  <1>4. b \in Seq(Visible) /\ t \in Seq(Visible)
    BY <1>2, <1>3 DEF PrintInv, Buffers
  <1>5. flush'[p] = "done" /\ \A q \in Process : q # p => flush'[q] = flush[q]
    BY <1>1, <1>2, <1>3 DEF PrintInv, Buffers
  <1>6. Waiting(p) = b \o t
    BY <1>2, <1>3 DEF Waiting
  <1>7. Waiting(p)' = t
    BY <1>1, <1>3, <1>4, <1>5 DEF Waiting
  <1>8. \A q \in Process : q # p => Waiting(q)' = Waiting(q)
    BY <1>1, <1>5 DEF Waiting
  <1>9. Saying = <<>> /\ Saying' = <<>>
    <2>1. Saying' = <<>> \o <<>>
      BY <1>1, <1>2, PrintedNothing DEF Saying, Printed
    <2> QED BY <1>1, <1>2, <2>1, StepSays DEF PrintInv
  <1>10. p \in Writers /\ p # NoProcess
    BY <1>2, <1>3, ConsoleAssumption DEF Writers
  <1>11. Shown(p)' \in Seq(Visible) /\ Shown(p) = b \o Shown(p)'
    BY <1>2, <1>3, <1>4, <1>6, <1>7, PendingIs
  <1>12. \A v \in Writers : v # p => Shown(v)' = Shown(v)
    BY <1>8, <1>9, PendingIs DEF Writers
  <1> QED BY <1>2, <1>3, <1>4, <1>10, <1>11, <1>12, ShowMaps

LEMMA PrintfMaps ==
  ASSUME PrintInv, NEW p \in Process, NEW call \in UserCalls, Printf(p, call)
  PROVE  Texts!Next
PROOF
  <1>1. /\ kernel = <<>> /\ text[p] = <<>> /\ flush[p] = "no" /\ line' = <<>>
        /\ buffer' = buffer /\ flush' = flush /\ kernel' = kernel /\ screen' = screen
    BY DEF Printf, UserMode
  <1>2. PICK chars \in Seq(Visible) : text' = [text EXCEPT ![p] = chars]
    BY PrintfTexts
  <1>3. PICK b : b = buffer[p] /\ b \in Seq(Visible)
    BY DEF PrintInv, Buffers
  <1>4. text'[p] = chars /\ \A q \in Process : q # p => text'[q] = text[q]
    BY <1>2 DEF PrintInv, Buffers
  <1>5. Waiting(p) = b /\ Waiting(p)' = b \o chars
    BY <1>1, <1>3, <1>4, JoinNothing DEF Waiting
  <1>6. Shown(p) = b /\ Shown(p)' = b \o chars
    BY <1>5, PendingIs
  <1>7. IsPrefix(Shown(p), Shown(p)')
    BY <1>3, <1>6, PrefixOf
  <1>8. \A q \in Process : q # p => Waiting(q)' = Waiting(q)
    BY <1>1, <1>4 DEF Waiting
  <1>9. Saying' = Saying
    BY <1>1 DEF Saying
  <1>10. \A v \in Writers : v # p => Shown(v)' = Shown(v)
    BY <1>8, <1>9, PendingIs DEF Writers
  <1> QED BY <1>1, <1>7, <1>10, SayMaps DEF Writers

LEMMA PutCharsMaps ==
  ASSUME PrintInv, NEW p \in Process, PutChars(p)
  PROVE  Texts!Next
PROOF
  <1>1. kernel = <<>> /\ line' = <<>>
    BY DEF PutChars, UserMode
  <1>2. /\ PrintInv' /\ flush[p] = "no" /\ flush'[p] # "done"
        /\ buffer'[p] \o text'[p] = buffer[p] \o text[p]
        /\ \A q \in Process : q # p => /\ buffer'[q] = buffer[q] /\ text'[q] = text[q]
                                       /\ flush'[q] = flush[q]
    BY PutCharsTexts
  <1>3. \A q \in Process : Waiting(q)' = Waiting(q)
    BY <1>2 DEF Waiting
  <1>4. Saying = <<>> /\ Cursor'
    BY <1>1, <1>2, NothingToSay DEF PrintInv
  <1> QED BY <1>1, <1>3, <1>4, HandlerSays

LEMMA ResetMaps ==
  ASSUME PrintInv, NEW p \in Process, ResetCount(p)
  PROVE  Texts!Next
PROOF
  <1>1. /\ flush[p] = "done" /\ line' = <<>>
        /\ buffer' = [buffer EXCEPT ![p] = <<>>] /\ flush' = [flush EXCEPT ![p] = "no"]
        /\ text' = text /\ kernel' = kernel /\ screen' = screen
    BY DEF ResetCount, UserMode
  <1>2. /\ flush'[p] = "no" /\ buffer'[p] = <<>>
        /\ \A q \in Process : q # p => flush'[q] = flush[q] /\ buffer'[q] = buffer[q]
    BY <1>1 DEF PrintInv, Buffers
  <1>3. \A q \in Process : Waiting(q)' = Waiting(q)
    BY <1>1, <1>2 DEF Waiting
  <1>4. Saying' = Saying
    BY <1>1 DEF Saying
  <1>5. \A w \in Writers : Shown(w)' = Shown(w)
    BY <1>3, <1>4, PendingIs DEF Writers
  <1> QED BY <1>1, <1>5, QuietMaps

LEMMA ForkMaps ==
  ASSUME PrintInv, NEW p \in Process, NEW child \in Process, Fork(p, child)
  PROVE  Texts!Next
PROOF
  <1>1. /\ kernel = <<>> /\ text[p] = <<>> /\ flush[p] = "no" /\ line' = <<>>
        /\ buffer' = [buffer EXCEPT ![child] = buffer[p]] /\ text' = text /\ flush' = flush
    BY DEF Fork, UserMode
  <1>2. /\ PrintInv' /\ p # child
        /\ buffer[child] = <<>> /\ text[child] = <<>> /\ flush[child] = "no"
    BY ForkTexts
  <1>3. /\ buffer'[child] = buffer[p]
        /\ \A q \in Process : q # child => buffer'[q] = buffer[q]
    BY <1>1 DEF PrintInv, Buffers
  <1>4. Waiting(child) = <<>> /\ Waiting(child)' = Waiting(p)
    <2>1. Waiting(child) = <<>> \o <<>>
      BY <1>2 DEF Waiting
    <2> QED BY <1>1, <1>2, <1>3, <2>1 DEF Waiting
  <1>5. \A q \in Process : q # child => Waiting(q)' = Waiting(q)
    BY <1>1, <1>3 DEF Waiting
  <1>6. Saying = <<>> /\ Cursor'
    BY <1>1, <1>2, NothingToSay DEF PrintInv
  <1>7. Saying' \in Seq(Character)
    <2>1. screen' \in Seq(Character) /\ Printed(kernel') \in Seq(Character)
      BY <1>6, PrintedType DEF Cursor
    <2> QED BY <2>1 DEF Saying, Printed
  <1>8. /\ child \in Writers \ {NoProcess} /\ p \in Writers \ {NoProcess}
        /\ NoProcess \in Writers
    BY ConsoleAssumption DEF Writers
  <1>9. /\ Pending[child] = <<>> /\ Pending[NoProcess] = <<>>
        /\ Pending' = [Pending EXCEPT ![child] = Pending[p], ![NoProcess] = Pending'[NoProcess]]
    BY <1>4, <1>5, <1>6, <1>8, PendingIs DEF Writers
  <1>10. IsPrefix(Pending[NoProcess], Pending'[NoProcess])
    BY <1>7, <1>8, <1>9, JoinNothing, PendingIs
  <1>11. Texts!IsPrefix(Pending[NoProcess], Pending'[NoProcess])
    BY <1>10 DEF IsPrefix, Texts!IsPrefix
  <1>12. Texts!Fork(p, child)
    BY <1>1, <1>9, <1>11 DEF Texts!Fork, Pending, Writers
  <1> QED BY <1>8, <1>12 DEF Texts!Next, Writers

LEMMA BeginMaps ==
  ASSUME PrintInv, PrintInv',
         \/ \E c \in LogCalls : BootLog(c)
         \/ \E p \in Process : Execve(p) \/ Getpid(p)
         \/ Tick
  PROVE  Texts!Next
PROOF
  <1>1. /\ kernel = <<>> /\ line' = <<>>
        /\ text' = text /\ buffer' = buffer /\ flush' = flush
    BY DEF BootLog, Execve, Getpid, UserMode, Tick, user
  <1>2. Saying = <<>> /\ Cursor'
    BY <1>1, NothingToSay DEF PrintInv
  <1> QED BY <1>1, <1>2, SameWaiting, HandlerSays

LEMMA ScheduleMaps ==
  ASSUME LockInv, PrintInv, Schedule
  PROVE  Texts!Next
PROOF
  <1>1. /\ kernel # <<>> /\ line' = <<>>
        /\ text' = text /\ buffer' = buffer /\ flush' = flush
    BY DEF Schedule
  <1>2. PrintInv' /\ Tail(kernel) = <<>> /\ screen = <<>> /\ Head(kernel).text = <<>>
    BY ScheduleTexts
  <1>3. Saying = <<>> /\ Cursor'
    BY <1>1, <1>2, StepSays DEF PrintInv
  <1> QED BY <1>1, <1>3, SameWaiting, HandlerSays

LEMMA StepMaps ==
  ASSUME TextInv, TextInv', [Next]_vars
  PROVE  [Texts!Next]_(Texts!vars)
PROOF
  <1>1. LockInv /\ PrintInv /\ PrintInv'
    BY DEF TextInv, PrintInv
  <1>2. CASE Boot
    BY <1>1, <1>2, BeginMaps DEF Boot
  <1>3. CASE KernelStep
    BY <1>1, <1>3, LockMaps, PrintMaps, WriteMaps, ScheduleMaps DEF KernelStep
  <1>4. ASSUME NEW p \in Process, UserStep(p) PROVE Texts!Next
    BY <1>1, <1>4, PrintfMaps, PutCharsMaps, ResetMaps, ForkMaps, BeginMaps DEF UserStep
  <1>5. CASE Tick
    BY <1>1, <1>5, BeginMaps
  <1>6. CASE UNCHANGED vars
    BY <1>6 DEF vars, Texts!vars, Saying, Waiting
  <1> QED BY <1>2, <1>3, <1>4, <1>5, <1>6 DEF Next

LEMMA TextsInit == Init => Texts!Init
PROOF
  <1> SUFFICES ASSUME Init PROVE Texts!Init
    OBVIOUS
  <1>1. Printed(<<>>) = <<>>
    BY PrintedNothing
  <1>2. Saying = <<>>
    <2>1. Saying = <<>> \o <<>>
      BY <1>1 DEF Init, Saying, Printed
    <2> QED BY <2>1
  <1>3. \A p \in Process : Waiting(p) = <<>>
    <2>1. <<>> \o <<>> = <<>>
      OBVIOUS
    <2> QED BY <2>1 DEF Init, Waiting
  <1>4. Pending = [w \in Writers |-> <<>>]
    BY <1>2, <1>3 DEF Pending, Writers
  <1> QED BY <1>4 DEF Init, Texts!Init, Pending, Writers

(* What the programs and the kernel print reaches the screen as Lines says:      *)
(* whatever processes there are and whatever they and the kernel print, and       *)
(* wherever a tick comes between printf, _putchar, write and memset, a line that  *)
(* appears is the next one of one writer's text, whole; nothing is lost, said      *)
(* twice or mixed with another's, and a fork copies what has not been shown.       *)
THEOREM LinesKept == Spec => KeepsLines
PROOF
  <1>1. TextInv /\ TextInv' /\ [Next]_vars => [Texts!Next]_(Texts!vars)
    BY StepMaps
  <1> QED BY <1>1, TextsStart, KeepsTextInv, TextsInit, PTL DEF Spec, KeepsLines, Texts!Spec
=============================================================================
