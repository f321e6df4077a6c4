-------------------------- MODULE NamedDirectories --------------------------
(***************************************************************************)
(* What the directories of the file system promise to a program that calls *)
(* fat_create, fat_mkdir, fat_open, fat_chdir and fat_unlink, with no word *)
(* about slots, short names or checksums: a tree of directories, in which  *)
(* a name stands for one thing; a call that succeeds adds or removes just  *)
(* the one it was asked for, and a call that fails changes nothing.        *)
(***************************************************************************)
EXTENDS Naturals, TLC

CONSTANTS
  Names,    (* names a program may use                                      *)
  Up        (* the name of the directory above                              *)

VARIABLES
  tree,     (* the names in each directory, with what they stand for        *)
  parent,   (* the directory above each but the root                        *)
  cwd,      (* the working directory                                        *)
  last      (* the last call, whether it succeeded and what it found        *)

vars == <<tree, parent, cwd, last>>

Thing(dir, id) == [dir |-> dir, id |-> id]
Nothing == Thing(FALSE, 0)

Things(d) == {entry.thing : entry \in tree[d]}
Named(name) == {entry.thing : entry \in {e \in tree[cwd] : e.name = name}}
IsUp(name) == name = Up /\ cwd \in DOMAIN parent

(* A name that is not listed may be another name of a thing that is: its    *)
(* short name. Which one is left open; that a listed name comes first is    *)
(* not.                                                                     *)
Meant(name) ==
  IF IsUp(name) THEN {Thing(TRUE, parent[cwd])}
  ELSE IF Named(name) # {} THEN Named(name)
  ELSE Things(cwd)

Init ==
  /\ DOMAIN tree = {0}
  /\ \A e, f \in tree[0] : ~e.thing.dir /\ (e.name = f.name => e = f)
  /\ parent = <<>>
  /\ cwd = 0
  /\ last = [op |-> "none", name |-> <<>>, ok |-> TRUE, thing |-> Nothing]

(* A call that succeeds leaves a thing with the caller; which one, the       *)
(* action says.                                                             *)
Done(op, name) == last' = [op |-> op, name |-> name, ok |-> TRUE, thing |-> last'.thing]

(* A call may fail for reasons of its own, but not in finding what is listed. *)
Fails(op, name) ==
  /\ last' = [op |-> op, name |-> name, ok |-> FALSE, thing |-> Nothing]
  /\ op \in {"open", "chdir"} => Named(name) = {} /\ ~IsUp(name)
  /\ op = "unlink" => \A thing \in Named(name) : thing.dir
  /\ UNCHANGED <<tree, parent, cwd>>

MakeFile(name) ==
  /\ Done("create", name)
  /\ Named(name) = {}
  /\ last'.thing \notin Things(cwd) /\ ~last'.thing.dir
  /\ tree' = [tree EXCEPT ![cwd] = @ \cup {[name |-> name, thing |-> last'.thing]}]
  /\ UNCHANGED <<parent, cwd>>

MakeDirectory(name) ==
  /\ Done("mkdir", name)
  /\ Named(name) = {}
  /\ last'.thing.dir /\ last'.thing.id \notin DOMAIN tree
  /\ tree' = (last'.thing.id :> {}) @@
             [tree EXCEPT ![cwd] = @ \cup {[name |-> name, thing |-> last'.thing]}]
  /\ parent' = (last'.thing.id :> cwd) @@ parent
  /\ UNCHANGED cwd

Open(name) ==
  /\ Done("open", name)
  /\ last'.thing \in Meant(name)
  /\ UNCHANGED <<tree, parent, cwd>>

Chdir(name) ==
  /\ Done("chdir", name)
  /\ last'.thing \in Meant(name) /\ last'.thing.dir
  /\ cwd' = last'.thing.id
  /\ UNCHANGED <<tree, parent>>

Unlink(name) ==
  /\ Done("unlink", name)
  /\ last'.thing \in Meant(name) /\ ~last'.thing.dir
  /\ tree' = [tree EXCEPT ![cwd] = {e \in @ : e.thing # last'.thing}]
  /\ UNCHANGED <<parent, cwd>>

Next ==
  \E name \in Names :
    \/ \E op \in {"create", "mkdir", "open", "chdir", "unlink"} : Fails(op, name)
    \/ MakeFile(name) \/ MakeDirectory(name)
    \/ Open(name) \/ Chdir(name) \/ Unlink(name)

Spec == Init /\ [][Next]_vars
=============================================================================
