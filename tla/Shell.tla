-------------------------------- MODULE Shell --------------------------------
(***************************************************************************)
(* The interactive shell and its batch mode (shell.go): disk images read   *)
(* into slots when they are mounted, edited in memory, and written back to *)
(* the host file system by saveDisk after a command that succeeded.  Some  *)
(* commands read the image file and not the memory (analyze, globDisk).    *)
(*                                                                         *)
(* A disk image is the set of names of its files; what the commands do to  *)
(* one volume is modelled in FileStore and the modules that implement it.  *)
(* One command runs at a time; saveDisk is four steps of the file system,  *)
(* and the program can be killed between any two of them.                  *)
(***************************************************************************)
EXTENDS Integers, FiniteSets

CONSTANTS
  Dirs,      \* directories of the host
  Bases,     \* names of image files
  Typed,     \* what the user types to mount: base names and absolute paths
  Names,     \* names of files on the volumes
  MaxVol,    \* MAXVOL
  MaxNow,    \* bound on the clock, in seconds
  CanFill,   \* whether a volume can fill up: a put or a copy fails half-way
  Absent,    \* no such host file
  Torn,      \* a host file that was truncated and not yet written
  Empty      \* a slot with nothing mounted

Slots  == 0 .. MaxVol - 1
NoSlot == -1
Paths  == Dirs \X Bases
Images == SUBSET Names
Hosted == {Absent, Torn} \cup Images

ASSUME TypedAssumption == Typed \subseteq Bases \cup Paths
ASSUME BoundAssumption == MaxVol \in Nat \ {0} /\ MaxNow \in Nat /\ CanFill \in BOOLEAN
ASSUME MarkerAssumption == Absent # Torn /\ \A i \in Images : i # Absent /\ i # Torn

VARIABLES
  file,     \* the image files of the host
  backup,   \* binpath()/backup: by path of the image and second of the save
  cwd,      \* working directory of the process
  volume,   \* commandVolumes
  target,   \* commandTarget
  saving,   \* the saveDisk in progress: slot, path and next step
  now,      \* the second the clock shows
  latest,   \* history: the last whole image each host file held
  aliased   \* history: a name may have stood for another file than it did, or
            \* a file for two names, since the program was started

vars == <<file, backup, cwd, volume, target, saving, now, latest, aliased>>

\* origin and seen are history: the file the image was read from, and what the
\* slot last read from its file or saved.
Volume == [name : Typed, image : Images, origin : Paths, seen : Images]
ASSUME EmptyAssumption == Empty \notin Volume

Idle   == [stage |-> "idle"]
Saving == [stage : {"backup", "copy", "create", "write"}, slot : Slots, path : Paths]

\* filepath.Abs
Abs(name) == IF name \in Bases THEN <<cwd, name>> ELSE name

Mounted(s) == s \in Slots /\ volume[s] # Empty

\* analyze: the file of the image exists and has the size of a disk.
Readable(p) == file[p] \notin {Absent, Torn}

\* The test in shellProcess of commands that need a mounted disk.
NeedsMount == target # NoSlot /\ volume[target] # Empty

FileOfSlot(s) == Abs(volume[s].name)

------------------------------------------------------------------------------
Init ==
  /\ file \in [Paths -> Images \cup {Absent}]
  /\ backup = [b \in Paths \X (0 .. MaxNow) |-> Absent]
  /\ cwd \in Dirs
  /\ volume = [s \in Slots |-> Empty]
  /\ target = NoSlot
  /\ saving = Idle
  /\ now = 0
  /\ latest = file
  /\ aliased = FALSE

(***************************************************************************)
(* Slots: mount, unmount, target, cd.                                      *)
(***************************************************************************)
\* Mutant: mountDsk does not look for the image among the slots.
SlotsUnnamed(name) == {}

SlotsNamed(name) == {s \in Slots : Mounted(s) /\ volume[s].name = name}
FreeSlots == {s \in Slots : volume[s] = Empty}
\* Mutant: slots are counted from one.
LowestFromOne(S) == 1 + CHOOSE s \in S : \A t \in S : s <= t
Lowest(S) == CHOOSE s \in S : \A t \in S : s <= t

\* mountDsk returns the slot whose Filename is the one that was typed, and
\* the image that was just read is dropped.
MountAgain(name) ==
  /\ saving = Idle
  /\ Readable(Abs(name))
  /\ SlotsNamed(name) # {}
  /\ target' = Lowest(SlotsNamed(name))
  /\ UNCHANGED <<file, backup, cwd, volume, saving, now, latest, aliased>>

\* The file is in a slot under another name, which mountDsk does not see.
HasOtherName(name) ==
  \E s \in Slots : Mounted(s) /\ volume[s].name # name /\ volume[s].origin = Abs(name)

MountNew(name) ==
  /\ saving = Idle
  /\ Readable(Abs(name))
  /\ SlotsNamed(name) = {}
  /\ FreeSlots # {}
  /\ target' = Lowest(FreeSlots)
  /\ volume' = [volume EXCEPT ![Lowest(FreeSlots)] =
                  [name |-> name, image |-> file[Abs(name)], origin |-> Abs(name),
                   seen |-> file[Abs(name)]]]
  /\ aliased' = (aliased \/ HasOtherName(name))
  /\ UNCHANGED <<file, backup, cwd, saving, now, latest>>

Mount(name) == MountAgain(name) \/ MountNew(name)

\* shellPrefix
Target(s) ==
  /\ saving = Idle
  /\ Mounted(s)
  /\ target' = s
  /\ UNCHANGED <<file, backup, cwd, volume, saving, now, latest, aliased>>

\* The slot named is made the target first, and is the target afterwards.
Unmount(s) ==
  /\ saving = Idle
  /\ NeedsMount
  /\ Mounted(s)
  /\ target' = s
  /\ volume' = [volume EXCEPT ![s] = Empty]
  /\ UNCHANGED <<file, backup, cwd, saving, now, latest, aliased>>

RelativeMounted == \E s \in Slots : Mounted(s) /\ volume[s].name \in Bases

Cd(dir) ==
  /\ saving = Idle
  /\ cwd' = dir
  /\ aliased' = (aliased \/ (dir # cwd /\ RelativeMounted))
  /\ UNCHANGED <<file, backup, volume, target, saving, now, latest>>

------------------------------------------------------------------------------
(***************************************************************************)
(* Commands that edit the image of a slot and save it when they succeed.   *)
(***************************************************************************)
Edited(s, image) == volume' = [volume EXCEPT ![s].image = image]

Save(s) == saving' = [stage |-> "backup", slot |-> s, path |-> FileOfSlot(s)]

Succeeds(s, image) ==
  /\ Edited(s, image)
  /\ Save(s)
  /\ UNCHANGED <<file, backup, cwd, target, now, latest, aliased>>

\* The error return of a command: what it did to the memory stays there.
Fails(s, image) ==
  /\ Edited(s, image)
  /\ UNCHANGED <<file, backup, cwd, target, saving, now, latest, aliased>>

\* put, delete, mkdir, lock, unlock and setvolume analyze the file first.
Analyzed == saving = Idle /\ NeedsMount /\ Readable(FileOfSlot(target))

\* put, and mkdir.
Put(n) == Analyzed /\ Succeeds(target, volume[target].image \cup {n})

PutNoRoom(n) ==
  /\ Analyzed
  /\ CanFill
  /\ n \in volume[target].image
  /\ Fails(target, volume[target].image \ {n})

\* Mutant: the command does not save.
DeleteUnsaved(n) ==
  /\ Analyzed
  /\ n \in volume[target].image
  /\ Fails(target, volume[target].image \ {n})

Delete(n) ==
  /\ Analyzed
  /\ n \in volume[target].image
  /\ Succeeds(target, volume[target].image \ {n})

\* lock, unlock and setvolume change no name.
Annotate == Analyzed /\ Succeeds(target, volume[target].image)

\* rename reads nothing but the memory.
Rename(n, m) ==
  /\ saving = Idle
  /\ NeedsMount
  /\ n \in volume[target].image
  /\ m \notin volume[target].image
  /\ Succeeds(target, (volume[target].image \ {n}) \cup {m})

\* copy and move have the same code: the files are read from the file of the
\* source slot, none when it cannot be read, and written into the memory of
\* the target slot.
Selected(src, pattern) ==
  IF Mounted(src) /\ Readable(FileOfSlot(src)) THEN file[FileOfSlot(src)] \cap pattern ELSE {}

D2DCopy(src, pattern, dst) ==
  /\ saving = Idle
  /\ Mounted(dst)
  /\ Succeeds(dst, volume[dst].image \cup Selected(src, pattern))

\* The target fills up: the files before the one that fails are in memory.
\* The one that fails was removed if it was there.
D2DCopyFails(src, pattern, dst) ==
  /\ saving = Idle
  /\ Mounted(dst)
  /\ CanFill
  /\ \E done \in SUBSET Selected(src, pattern), last \in Selected(src, pattern) :
       /\ last \notin done
       /\ Fails(dst, (volume[dst].image \cup done) \ {last})

------------------------------------------------------------------------------
(***************************************************************************)
(* saveDisk.  Errors of backupFile are ignored: a file that is not there   *)
(* is not backed up, and is created.                                       *)
(***************************************************************************)
At(stage) == saving.stage = stage
Then(stage) == saving' = [saving EXCEPT !.stage = stage]
BackupName == <<saving.path, now>>

\* Mutant: the image is truncated without a backup.
SkipBackup ==
  /\ At("backup")
  /\ Then("create")
  /\ UNCHANGED <<file, backup, cwd, volume, target, now, latest, aliased>>

CreateBackup ==
  /\ At("backup")
  /\ IF file[saving.path] = Absent
     THEN Then("create") /\ UNCHANGED backup
     ELSE Then("copy") /\ backup' = [backup EXCEPT ![BackupName] = Torn]
  /\ UNCHANGED <<file, cwd, volume, target, now, latest, aliased>>

\* The bytes of the file were read before the backup was created.
WriteBackup ==
  /\ At("copy")
  /\ backup' = [backup EXCEPT ![BackupName] = file[saving.path]]
  /\ Then("create")
  /\ UNCHANGED <<file, cwd, volume, target, now, latest, aliased>>

CreateImage ==
  /\ At("create")
  /\ file' = [file EXCEPT ![saving.path] = Torn]
  /\ Then("write")
  /\ UNCHANGED <<backup, cwd, volume, target, now, latest, aliased>>

WriteImage ==
  /\ At("write")
  /\ file' = [file EXCEPT ![saving.path] = volume[saving.slot].image]
  /\ latest' = [latest EXCEPT ![saving.path] = volume[saving.slot].image]
  /\ volume' = [volume EXCEPT ![saving.slot].seen = volume[saving.slot].image]
  /\ saving' = Idle
  /\ UNCHANGED <<backup, cwd, target, now, aliased>>

------------------------------------------------------------------------------
\* The program ends, at the user's wish, by a kill or by a panic that nothing
\* recovers, and is started again a second or more later.
Restart ==
  /\ now < MaxNow
  /\ now' = now + 1
  /\ volume' = [s \in Slots |-> Empty]
  /\ target' = NoSlot
  /\ saving' = Idle
  /\ cwd' \in Dirs
  /\ aliased' = FALSE
  /\ UNCHANGED <<file, backup, latest>>

Tick ==
  /\ now < MaxNow
  /\ saving = Idle
  /\ now' = now + 1
  /\ UNCHANGED <<file, backup, cwd, volume, target, saving, latest, aliased>>

Next ==
  \/ \E name \in Typed : MountAgain(name) \/ MountNew(name)
  \/ \E s \in Slots : Target(s) \/ Unmount(s)
  \/ \E dir \in Dirs : Cd(dir)
  \/ \E n \in Names : Put(n) \/ PutNoRoom(n) \/ Delete(n)
  \/ Annotate
  \/ \E n, m \in Names : Rename(n, m)
  \/ \E src, dst \in Slots, pattern \in SUBSET Names :
       \/ D2DCopy(src, pattern, dst)
       \/ D2DCopyFails(src, pattern, dst)
  \/ CreateBackup \/ WriteBackup \/ CreateImage \/ WriteImage
  \/ Restart
  \/ Tick

Spec == Init /\ [][Next]_vars

------------------------------------------------------------------------------
TypeOK ==
  /\ file \in [Paths -> Hosted]
  /\ backup \in [Paths \X (0 .. MaxNow) -> Hosted]
  /\ cwd \in Dirs
  /\ volume \in [Slots -> {Empty} \cup Volume]
  /\ target \in Slots \cup {NoSlot}
  /\ saving \in {Idle} \cup Saving
  /\ now \in 0 .. MaxNow
  /\ latest \in [Paths -> {Absent} \cup Images]
  /\ aliased \in BOOLEAN

\* Whenever the program is killed, the last whole image each host file held
\* is in the file or in one of its backups, also when several saves fall into
\* one second and share a backup, and when a torn file is saved over.
Recoverable ==
  \A p \in Paths :
    \/ latest[p] \in {Absent, file[p]}
    \/ \E t \in 0 .. MaxNow : backup[<<p, t>>] = latest[p]

\* Between commands the file of a mounted image holds what the memory holds,
\* so extract, copy and analyze, which read the file, see what the edits left.
\* It needs that every file keeps one name and every name its file, and that a
\* command that fails changed nothing.
MemoryIsOnDisk ==
  saving = Idle /\ ~aliased =>
    \A s \in Slots : Mounted(s) => file[volume[s].origin] = volume[s].image

\* No save overwrites what another slot saved: what a slot last read from its
\* file or saved there is the last whole image of that file, whatever is torn
\* or failed half-way.  It needs that every file keeps one name and every name
\* its file: a relative name that is mounted must not survive a cd, nor a file
\* be mounted under a second name.
SlotsAreCurrent ==
  ~aliased =>
    \A s \in Slots : Mounted(s) => volume[s].seen = latest[volume[s].origin]
==============================================================================
