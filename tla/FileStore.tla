------------------------------ MODULE FileStore ------------------------------
(***************************************************************************)
(* What a disk volume promises to the shell: a map from file names to      *)
(* files.  Every command touches the files it names and no other; a file   *)
(* that was put is read back as it was put until it is put again, renamed  *)
(* or deleted.  A volume of any format is meant to implement this module.  *)
(***************************************************************************)
CONSTANTS
  Names,     \* file names, as the catalog stores them (case folded)
  Kinds,     \* file types
  Payloads,  \* file contents
  Missing,   \* stands for a name with no file
  KeepsKind, \* whether a file is replaced only by one of its own type
  HonoursLock  \* whether a file that is locked is neither replaced nor removed

VARIABLE files

Files == [kind : Kinds, payload : Payloads, locked : BOOLEAN]

TypeOK == files \in [Names -> Files \cup {Missing}]

Present(n) == files[n] # Missing

Init == files = [n \in Names |-> Missing]

------------------------------------------------------------------------------
MayGo(n) == HonoursLock => ~files[n].locked

\* A new file is not locked.
Put(n, k, p) ==
  /\ Present(n) => MayGo(n) /\ (KeepsKind => files[n].kind = k)
  /\ files' = [files EXCEPT ![n] = [kind |-> k, payload |-> p, locked |-> FALSE]]

\* A deletion; also a replacement for which the volume has no room.
Drop(n) ==
  /\ Present(n)
  /\ MayGo(n)
  /\ files' = [files EXCEPT ![n] = Missing]

SetLocked(n, b) ==
  /\ Present(n)
  /\ files' = [files EXCEPT ![n].locked = b]

Rename(n, m) ==
  /\ Present(n)
  /\ ~Present(m)
  /\ files' = [files EXCEPT ![m] = files[n], ![n] = Missing]

Next ==
  \E n \in Names :
    \/ \E k \in Kinds, p \in Payloads : Put(n, k, p)
    \/ Drop(n)
    \/ \E b \in BOOLEAN : SetLocked(n, b)
    \/ \E m \in Names : Rename(n, m)

Spec == Init /\ [][Next]_files
==============================================================================
