----------------------------- MODULE ByteFiles -----------------------------
(***************************************************************************)
(* What the FAT file system promises to a program that uses fat_create,    *)
(* fat_open, fat_lseek, fat_read, fat_write and fat_unlink, with no word   *)
(* about clusters, sectors or buffers: a file is the sequence of what was  *)
(* written to it, and every file is its own.                               *)
(***************************************************************************)
EXTENDS Integers, Sequences

CONSTANTS
  Files,     (* the names a file can have                                  *)
  Texts,     (* what can be written at once                                *)
  ReadSizes  (* how much can be asked for                                  *)

VARIABLES
  content,   (* what each file that exists holds                           *)
  pos,       (* where its handle stands, or Closed                         *)
  got        (* what the last read returned                                *)

vars == <<content, pos, got>>

Closed == -1

Least(a, b) == IF a < b THEN a ELSE b

(* A text with another written over it, from position p on. *)
Overwritten(old, p, new) ==
  SubSeq(old, 1, p) \o new \o SubSeq(old, p + Len(new) + 1, Len(old))

Existing == DOMAIN content
IsOpen(f) == f \in Existing /\ pos[f] # Closed

Init ==
  /\ Existing \subseteq Files
  /\ pos = [f \in Files |-> Closed]
  /\ got = <<>>

Create(f) ==
  /\ f \notin Existing
  /\ pos' = [pos EXCEPT ![f] = 0]
  /\ content' = [g \in Existing \cup {f} |-> IF g = f THEN <<>> ELSE content[g]]
  /\ UNCHANGED got

Open(f) ==
  /\ f \in Existing
  /\ pos' = [pos EXCEPT ![f] = 0]
  /\ UNCHANGED <<content, got>>

(* A handle never stands beyond the end of its file. *)
Seek(f) ==
  /\ IsOpen(f)
  /\ pos'[f] \in 0 .. Len(content[f])
  /\ pos' = [pos EXCEPT ![f] = pos'[f]]
  /\ UNCHANGED <<content, got>>

(* The text goes where the handle stands, and nothing else changes. *)
Write(f, text) ==
  /\ IsOpen(f)
  /\ pos' = [pos EXCEPT ![f] = @ + Len(text)]
  /\ content' = [content EXCEPT ![f] = Overwritten(@, pos[f], text)]
  /\ UNCHANGED got

(* A read returns what was asked for, up to the end of the file. *)
Read(f, n) ==
  /\ IsOpen(f)
  /\ LET last == Least(pos[f] + n, Len(content[f]))
     IN  /\ pos' = [pos EXCEPT ![f] = last]
         /\ got' = SubSeq(content[f], pos[f] + 1, last)
  /\ UNCHANGED content

Remove(f) ==
  /\ f \in Existing
  /\ pos' = [pos EXCEPT ![f] = Closed]
  /\ content' = [g \in Existing \ {f} |-> content[g]]
  /\ UNCHANGED got

Next ==
  \E f \in Files :
    \/ Create(f) \/ Open(f) \/ Seek(f) \/ Remove(f)
    \/ \E text \in Texts : Write(f, text)
    \/ \E n \in ReadSizes : Read(f, n)

Spec == Init /\ [][Next]_vars
=============================================================================
