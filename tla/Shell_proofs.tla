----------------------------- MODULE Shell_proofs -----------------------------
(***************************************************************************)
(* What the shell keeps, for any number of slots, images, directories and  *)
(* seconds: an image can be recovered whenever the program is killed; as   *)
(* long as every mounted file has one name and every name one file, no     *)
(* save overwrites what another slot saved; and if no command fails        *)
(* half-way, the files hold what the memory holds between commands.        *)
(***************************************************************************)
EXTENDS Shell, NumberLemmas

\* A save in progress writes the image of a mounted slot.
SaveOfMounted == saving # Idle => volume[saving.slot] # Empty

\* What is known of host file p: its last whole image is in the file, in the
\* backup of an earlier second, or in the backup of the save in progress.
Kept(p) ==
  \/ latest[p] = Absent
  \/ file[p] = latest[p]
  \/ \E t \in 0 .. now - 1 : backup[<<p, t>>] = latest[p]
  \/ /\ saving.stage \in {"create", "write"}
     /\ saving.path = p
     /\ backup[<<p, now>>] = latest[p]

\* Before the image is truncated its bytes are in the backup of this second.
CopyDone ==
  saving.stage = "create" =>
    \/ file[saving.path] = Absent
    \/ backup[<<saving.path, now>>] = file[saving.path]

KeptInv ==
  /\ TypeOK
  /\ SaveOfMounted
  /\ CopyDone
  /\ \A p \in Paths : file[p] = Absent => latest[p] = Absent
  /\ \A p \in Paths : Kept(p)

------------------------------------------------------------------------------
\* A typed name resolves to a path of the host.
LEMMA AbsIsPath ==
  ASSUME TypeOK, NEW name \in Typed
  PROVE  Abs(name) \in Paths
  BY TypedAssumption DEF TypeOK, Abs, Paths

\* A mounted slot holds a volume.
LEMMA MountedVolume ==
  ASSUME TypeOK, NEW s \in Slots, volume[s] # Empty
  PROVE  volume[s] \in Volume
  BY DEF TypeOK

\* Commands that start from an idle shell leave the files and the backups as
\* they are, and a save that they start has not done anything yet.
LEMMA CommandKeeps ==
  ASSUME KeptInv, UNCHANGED <<file, backup, now, latest>>,
         saving = Idle, saving' = Idle \/ saving'.stage = "backup"
  PROVE  /\ CopyDone'
         /\ \A p \in Paths : file'[p] = Absent => latest'[p] = Absent
         /\ \A p \in Paths : Kept(p)'
<1>1. ASSUME NEW p \in Paths PROVE Kept(p)'
  <2>1. Kept(p) BY DEF KeptInv
  <2>2. saving.stage = "idle" BY DEF Idle
  <2> QED BY <2>1, <2>2 DEF Kept
<1>2. CopyDone' BY DEF CopyDone, Idle
<1> QED BY <1>1, <1>2 DEF KeptInv

------------------------------------------------------------------------------
\* A command that succeeds leaves the shell well typed.
LEMMA SucceedsTyped ==
  ASSUME TypeOK, NEW s \in Slots, volume[s] # Empty, NEW image \in Images, Succeeds(s, image)
  PROVE  TypeOK'
<1>1. volume[s] \in Volume BY DEF TypeOK
<1>2. volume' \in [Slots -> {Empty} \cup Volume]
  BY <1>1 DEF TypeOK, Succeeds, Edited, Volume
<1>3. Abs(volume[s].name) \in Paths
  BY <1>1, AbsIsPath DEF Volume
<1>4. saving' \in Saving
  BY <1>3 DEF Succeeds, Save, FileOfSlot, Saving
<1> QED BY <1>2, <1>4 DEF TypeOK, Succeeds

LEMMA FailsTyped ==
  ASSUME TypeOK, NEW s \in Slots, volume[s] # Empty, NEW image \in Images, Fails(s, image)
  PROVE  TypeOK'
<1>1. volume[s] \in Volume BY DEF TypeOK
<1>2. volume' \in [Slots -> {Empty} \cup Volume]
  BY <1>1 DEF TypeOK, Fails, Edited, Volume
<1> QED BY <1>2 DEF TypeOK, Fails

\* The slot a command works on, and the image in it.
LEMMA TargetVolume ==
  ASSUME TypeOK, NeedsMount
  PROVE  target \in Slots /\ volume[target] # Empty /\ volume[target].image \in Images
BY DEF TypeOK, NeedsMount, Volume

\* copy takes names of files.
LEMMA SelectedNames ==
  ASSUME TypeOK, NEW src, NEW pattern \in SUBSET Names
  PROVE  Selected(src, pattern) \subseteq Names
BY DEF Selected

\* The least of a nonempty set of slots is one of them.
LEMMA LowestSlot ==
  ASSUME NEW S \in SUBSET Slots, S # {}
  PROVE  Lowest(S) \in S
<1>1. Slots \subseteq Nat BY BoundAssumption DEF Slots
<1>2. \E n \in S : \A t \in S : n <= t
  BY <1>1, LeastElement
<1> QED BY <1>2 DEF Lowest
------------------------------------------------------------------------------
\* The shell starts well typed.
LEMMA InitTyped ==
  ASSUME Init
  PROVE  TypeOK
<1>1. aliased \in BOOLEAN
  BY DEF Init
<1>2. /\ file \in [Paths -> Hosted]
      /\ backup \in [Paths \X (0 .. MaxNow) -> Hosted]
      /\ latest \in [Paths -> {Absent} \cup Images]
  BY DEF Init, Hosted
<1>3. /\ cwd \in Dirs /\ target = NoSlot /\ saving = Idle
      /\ volume \in [Slots -> {Empty} \cup Volume]
  BY DEF Init
<1>4. now \in 0 .. MaxNow
  BY BoundAssumption DEF Init
<1> QED BY <1>1, <1>2, <1>3, <1>4 DEF TypeOK

\* Every step of the shell leaves it well typed.
LEMMA NextTyped ==
  ASSUME TypeOK, SaveOfMounted, Next
  PROVE  TypeOK'
<1>1. ASSUME NEW name \in Typed, MountAgain(name)
      PROVE  TypeOK'
  <2>1. SlotsNamed(name) \in SUBSET Slots BY DEF SlotsNamed
  <2>2. target' \in Slots BY <1>1, <2>1, LowestSlot DEF MountAgain
  <2> QED BY <1>1, <2>2 DEF TypeOK, MountAgain
<1>2. ASSUME NEW name \in Typed, MountNew(name)
      PROVE  TypeOK'
  <2>1. FreeSlots \in SUBSET Slots BY DEF FreeSlots
  <2>2. Lowest(FreeSlots) \in Slots BY <1>2, <2>1, LowestSlot DEF MountNew
  <2>3. Abs(name) \in Paths BY AbsIsPath
  <2>4. file[Abs(name)] \in Images
    BY <1>2, <2>3 DEF TypeOK, MountNew, Readable, Hosted
  <2>5. [name |-> name, image |-> file[Abs(name)], origin |-> Abs(name),
         seen |-> file[Abs(name)]] \in Volume
    BY <2>3, <2>4 DEF Volume
  <2> QED BY <1>2, <2>2, <2>5 DEF TypeOK, MountNew
<1>3. ASSUME NEW s \in Slots, Target(s)
      PROVE  TypeOK'
  BY <1>3 DEF TypeOK, Target
<1>4. ASSUME NEW s \in Slots, Unmount(s)
      PROVE  TypeOK'
  BY <1>4 DEF TypeOK, Unmount
<1>5. ASSUME NEW dir \in Dirs, Cd(dir)
      PROVE  TypeOK'
  BY <1>5 DEF TypeOK, Cd
<1>6. ASSUME NEW n \in Names, Put(n)
      PROVE  TypeOK'
  BY <1>6, TargetVolume, SucceedsTyped DEF Put, Analyzed, Images
<1>7. ASSUME NEW n \in Names, PutNoRoom(n)
      PROVE  TypeOK'
  BY <1>7, TargetVolume, FailsTyped DEF PutNoRoom, Analyzed, Images
<1>8. ASSUME NEW n \in Names, Delete(n)
      PROVE  TypeOK'
  BY <1>8, TargetVolume, SucceedsTyped DEF Delete, Analyzed, Images
<1>9. ASSUME Annotate
      PROVE  TypeOK'
  BY <1>9, TargetVolume, SucceedsTyped DEF Annotate, Analyzed
<1>10. ASSUME NEW n \in Names, NEW m \in Names, Rename(n, m)
       PROVE  TypeOK'
  BY <1>10, TargetVolume, SucceedsTyped DEF Rename, Images
<1>11. ASSUME NEW src \in Slots, NEW dst \in Slots, NEW pattern \in SUBSET Names,
              D2DCopy(src, pattern, dst)
       PROVE  TypeOK'
  <2>1. volume[dst] \in Volume /\ volume[dst] # Empty
    BY <1>11 DEF D2DCopy, Mounted, TypeOK
  <2>2. volume[dst].image \cup Selected(src, pattern) \in Images
    BY <2>1, SelectedNames DEF Volume, Images
  <2> QED BY <1>11, <2>1, <2>2, SucceedsTyped DEF D2DCopy
<1>12. ASSUME NEW src \in Slots, NEW dst \in Slots, NEW pattern \in SUBSET Names,
              D2DCopyFails(src, pattern, dst)
       PROVE  TypeOK'
  <2>1. volume[dst] \in Volume /\ volume[dst] # Empty
    BY <1>12 DEF D2DCopyFails, Mounted, TypeOK
  <2>2. PICK done \in SUBSET Selected(src, pattern), last \in Selected(src, pattern) :
          Fails(dst, (volume[dst].image \cup done) \ {last})
    BY <1>12 DEF D2DCopyFails
  <2>3. (volume[dst].image \cup done) \ {last} \in Images
    BY <2>1, SelectedNames DEF Volume, Images
  <2> QED BY <2>1, <2>2, <2>3, FailsTyped
<1>13. ASSUME CreateBackup
       PROVE  TypeOK'
  <2>1. saving \in Saving BY <1>13 DEF TypeOK, CreateBackup, At, Idle
  <2>2. saving' \in Saving
    BY <1>13, <2>1 DEF CreateBackup, Then, Saving
  <2> QED BY <1>13, <2>1, <2>2 DEF TypeOK, CreateBackup, BackupName, Saving, Hosted
<1>14. ASSUME WriteBackup
       PROVE  TypeOK'
  <2>1. saving \in Saving BY <1>14 DEF TypeOK, WriteBackup, At, Idle
  <2>2. saving' \in Saving
    BY <1>14, <2>1 DEF WriteBackup, Then, Saving
  <2>3. file[saving.path] \in Hosted BY <2>1 DEF TypeOK, Saving
  <2> QED BY <1>14, <2>1, <2>2, <2>3 DEF TypeOK, WriteBackup
<1>15. ASSUME CreateImage
       PROVE  TypeOK'
  <2>1. saving \in Saving BY <1>15 DEF TypeOK, CreateImage, At, Idle
  <2>2. saving' \in Saving
    BY <1>15, <2>1 DEF CreateImage, Then, Saving
  <2> QED BY <1>15, <2>1, <2>2 DEF TypeOK, CreateImage, Hosted
<1>16. ASSUME WriteImage
       PROVE  TypeOK'
  <2>1. saving \in Saving /\ saving # Idle
    BY <1>16 DEF TypeOK, WriteImage, At, Idle, Saving
  <2>2. volume[saving.slot] \in Volume
    BY <2>1 DEF TypeOK, SaveOfMounted, Saving
  <2>3. volume[saving.slot].image \in Images
    BY <2>2 DEF Volume
  <2>4. volume' \in [Slots -> {Empty} \cup Volume]
    BY <1>16, <2>1, <2>2, <2>3 DEF TypeOK, WriteImage, Saving, Volume
  <2> QED BY <1>16, <2>1, <2>3, <2>4 DEF TypeOK, WriteImage, Hosted
<1>17. ASSUME Restart
       PROVE  TypeOK'
  <2>1. aliased' \in BOOLEAN
    BY <1>17 DEF Restart
  <2>2. /\ file' = file /\ backup' = backup /\ latest' = latest
        /\ cwd' \in Dirs /\ target' = NoSlot /\ saving' = Idle
        /\ volume' = [s \in Slots |-> Empty]
    BY <1>17 DEF Restart
  <2>3. now' \in 0 .. MaxNow
    BY <1>17, BoundAssumption DEF TypeOK, Restart
  <2> QED BY <2>1, <2>2, <2>3 DEF TypeOK
<1>18. ASSUME Tick
       PROVE  TypeOK'
  BY <1>18, BoundAssumption DEF TypeOK, Tick
<1> QED
  BY <1>1, <1>2, <1>3, <1>4, <1>5, <1>6, <1>7, <1>8, <1>9, <1>10, <1>11, <1>12, <1>13,
     <1>14, <1>15, <1>16, <1>17, <1>18 DEF Next
\* No step empties the slot that is being saved.
LEMMA SucceedsSaves ==
  ASSUME TypeOK, NEW s \in Slots, volume[s] # Empty, NEW image \in Images, Succeeds(s, image)
  PROVE  SaveOfMounted'
<1>1. volume[s] \in Volume BY DEF TypeOK
<1>2. volume'[s] \in Volume BY <1>1 DEF TypeOK, Succeeds, Edited, Volume
<1>3. saving'.slot = s BY DEF Succeeds, Save
<1> QED BY <1>2, <1>3, EmptyAssumption DEF SaveOfMounted

LEMMA NextSaveOfMounted ==
  ASSUME TypeOK, SaveOfMounted, Next
  PROVE  SaveOfMounted'
<1>1. ASSUME saving' = Idle
      PROVE  SaveOfMounted'
  BY <1>1 DEF SaveOfMounted
<1>2. ASSUME NEW s \in Slots, NEW image, Fails(s, image), saving = Idle
      PROVE  SaveOfMounted'
  BY <1>2, <1>1 DEF Fails
<1>3. ASSUME NEW n \in Names, Put(n) \/ Delete(n)
      PROVE  SaveOfMounted'
  BY <1>3, TargetVolume, SucceedsSaves DEF Put, Delete, Analyzed, Images
<1>4. ASSUME Annotate
      PROVE  SaveOfMounted'
  BY <1>4, TargetVolume, SucceedsSaves DEF Annotate, Analyzed
<1>5. ASSUME NEW n \in Names, NEW m \in Names, Rename(n, m)
      PROVE  SaveOfMounted'
  BY <1>5, TargetVolume, SucceedsSaves DEF Rename, Images
<1>6. ASSUME NEW src \in Slots, NEW dst \in Slots, NEW pattern \in SUBSET Names,
             D2DCopy(src, pattern, dst)
      PROVE  SaveOfMounted'
  <2>1. volume[dst] \in Volume /\ volume[dst] # Empty
    BY <1>6 DEF D2DCopy, Mounted, TypeOK
  <2>2. volume[dst].image \cup Selected(src, pattern) \in Images
    BY <2>1, SelectedNames DEF Volume, Images
  <2> QED BY <1>6, <2>1, <2>2, SucceedsSaves DEF D2DCopy
<1>7. ASSUME NEW n \in Names, PutNoRoom(n)
      PROVE  SaveOfMounted'
  BY <1>7, <1>1 DEF PutNoRoom, Analyzed, Fails
<1>8. ASSUME NEW src, NEW dst, NEW pattern, D2DCopyFails(src, pattern, dst)
      PROVE  SaveOfMounted'
  BY <1>8, <1>1 DEF D2DCopyFails, Fails
<1>9. ASSUME CreateBackup \/ WriteBackup \/ CreateImage
      PROVE  SaveOfMounted'
  <2>1. saving \in Saving /\ saving # Idle
    BY <1>9 DEF TypeOK, CreateBackup, WriteBackup, CreateImage, At, Idle, Saving
  <2>2. saving'.slot = saving.slot
    BY <1>9, <2>1 DEF CreateBackup, WriteBackup, CreateImage, Then, Saving
  <2>3. volume' = volume
    BY <1>9 DEF CreateBackup, WriteBackup, CreateImage
  <2> QED BY <2>1, <2>2, <2>3 DEF SaveOfMounted
<1>10. ASSUME \/ \E name \in Typed : MountAgain(name) \/ MountNew(name)
              \/ \E s \in Slots : Target(s) \/ Unmount(s)
              \/ \E dir \in Dirs : Cd(dir)
              \/ WriteImage \/ Restart \/ Tick
       PROVE  SaveOfMounted'
  BY <1>10, <1>1 DEF MountAgain, MountNew, Target, Unmount, Cd, WriteImage, Restart, Tick
<1> QED
  BY <1>3, <1>4, <1>5, <1>6, <1>7, <1>8, <1>9, <1>10 DEF Next

------------------------------------------------------------------------------
\* An idle shell, or one whose save has not begun, keeps what it had.
LEMMA NextKept ==
  ASSUME KeptInv, Next
  PROVE  /\ CopyDone'
         /\ \A p \in Paths : file'[p] = Absent => latest'[p] = Absent
         /\ \A p \in Paths : Kept(p)'
<1> DEFINE Goal == /\ CopyDone'
                   /\ \A p \in Paths : file'[p] = Absent => latest'[p] = Absent
                   /\ \A p \in Paths : Kept(p)'
<1>1. ASSUME NEW s, NEW image, saving = Idle, Succeeds(s, image) \/ Fails(s, image)
      PROVE  Goal
  BY <1>1, CommandKeeps DEF Succeeds, Fails, Save
<1>2. ASSUME \/ \E name \in Typed : MountAgain(name) \/ MountNew(name)
             \/ \E s \in Slots : Target(s) \/ Unmount(s)
             \/ \E dir \in Dirs : Cd(dir)
      PROVE  Goal
  BY <1>2, CommandKeeps DEF MountAgain, MountNew, Target, Unmount, Cd
<1>3. ASSUME \/ \E n \in Names : Put(n) \/ PutNoRoom(n) \/ Delete(n)
             \/ Annotate
             \/ \E n, m \in Names : Rename(n, m)
      PROVE  Goal
  BY <1>3, <1>1 DEF Put, PutNoRoom, Delete, Annotate, Rename, Analyzed
<1>4. ASSUME NEW src, NEW dst, NEW pattern,
             \/ D2DCopy(src, pattern, dst)
             \/ D2DCopyFails(src, pattern, dst)
      PROVE  Goal
  BY <1>4, <1>1 DEF D2DCopy, D2DCopyFails
<1>5. ASSUME CreateBackup
      PROVE  Goal
  <2>1. saving \in Saving /\ saving.stage = "backup"
    BY <1>5 DEF KeptInv, TypeOK, CreateBackup, At, Idle, Saving
  <2>2. ASSUME NEW p \in Paths
        PROVE  Kept(p)'
    <3>1. \/ latest[p] = Absent
          \/ file[p] = latest[p]
          \/ \E t \in 0 .. now - 1 : backup[<<p, t>>] = latest[p]
      BY <2>1 DEF KeptInv, Kept
    <3>2. \A t \in 0 .. now - 1 : backup'[<<p, t>>] = backup[<<p, t>>]
      BY <1>5, <2>1, BoundAssumption DEF KeptInv, TypeOK, CreateBackup, BackupName
    <3> QED BY <1>5, <3>1, <3>2 DEF Kept, CreateBackup
  <2>3. CopyDone'
    BY <1>5, <2>1 DEF CreateBackup, CopyDone, Then, Saving
  <2> QED BY <1>5, <2>2, <2>3 DEF KeptInv, CreateBackup
<1>6. ASSUME WriteBackup
      PROVE  Goal
  <2>1. saving \in Saving /\ saving.stage = "copy" /\ now \in 0 .. MaxNow
    BY <1>6 DEF KeptInv, TypeOK, WriteBackup, At, Idle, Saving
  <2>2. saving'.stage = "create" /\ saving'.path = saving.path
    BY <1>6, <2>1 DEF WriteBackup, Then, Saving
  <2>3. backup'[<<saving.path, now>>] = file[saving.path]
    BY <1>6, <2>1 DEF KeptInv, TypeOK, WriteBackup, BackupName, Saving
  <2>4. ASSUME NEW p \in Paths
        PROVE  Kept(p)'
    <3>1. \/ latest[p] = Absent
          \/ file[p] = latest[p]
          \/ \E t \in 0 .. now - 1 : backup[<<p, t>>] = latest[p]
      BY <2>1 DEF KeptInv, Kept
    <3>2. \A t \in 0 .. now - 1 : backup'[<<p, t>>] = backup[<<p, t>>]
      BY <1>6, <2>1, BoundAssumption DEF KeptInv, TypeOK, WriteBackup, BackupName
    <3> QED BY <1>6, <2>2, <2>3, <3>1, <3>2 DEF Kept, WriteBackup
  <2>5. CopyDone'
    BY <1>6, <2>2, <2>3 DEF WriteBackup, CopyDone
  <2> QED BY <1>6, <2>4, <2>5 DEF KeptInv, WriteBackup
<1>7. ASSUME CreateImage
      PROVE  Goal
  <2>1. saving \in Saving /\ saving.stage = "create" /\ now \in 0 .. MaxNow
    BY <1>7 DEF KeptInv, TypeOK, CreateImage, At, Idle, Saving
  <2>2. saving'.stage = "write" /\ saving'.path = saving.path
    BY <1>7, <2>1 DEF CreateImage, Then, Saving
  <2>3. /\ \A p \in Paths : p # saving.path => file'[p] = file[p]
        /\ file'[saving.path] = Torn
    BY <1>7, <2>1 DEF KeptInv, TypeOK, CreateImage, Saving
  <2>4. ASSUME NEW p \in Paths
        PROVE  Kept(p)'
    <3>1. CASE p = saving.path
      <4>1. \/ latest[p] = Absent
            \/ backup[<<p, now>>] = latest[p]
            \/ \E t \in 0 .. now - 1 : backup[<<p, t>>] = latest[p]
        BY <2>1, <3>1 DEF KeptInv, Kept, CopyDone
      <4> QED BY <1>7, <2>2, <3>1, <4>1 DEF Kept, CreateImage
    <3>2. CASE p # saving.path
      BY <1>7, <2>1, <2>3, <3>2 DEF KeptInv, Kept, CreateImage
    <3> QED BY <3>1, <3>2
  <2>5. \A p \in Paths : file'[p] = Absent => latest'[p] = Absent
    BY <1>7, <2>3, MarkerAssumption DEF KeptInv, CreateImage
  <2>6. CopyDone'
    BY <2>2 DEF CopyDone
  <2> QED BY <2>4, <2>5, <2>6
<1>8. ASSUME WriteImage
      PROVE  Goal
  <2>1. saving \in Saving /\ saving.stage = "write" /\ saving # Idle
    BY <1>8 DEF KeptInv, TypeOK, WriteImage, At, Idle, Saving
  <2>2. volume[saving.slot] \in Volume
    BY <2>1 DEF KeptInv, TypeOK, SaveOfMounted, Saving
  <2>3. volume[saving.slot].image # Absent
    BY <2>2, MarkerAssumption DEF Volume
  <2>4. ASSUME NEW p \in Paths, p # saving.path
        PROVE  file'[p] = file[p] /\ latest'[p] = latest[p]
    BY <1>8, <2>4 DEF KeptInv, TypeOK, WriteImage
  <2>5. /\ file'[saving.path] = volume[saving.slot].image
        /\ latest'[saving.path] = volume[saving.slot].image
    BY <1>8, <2>1 DEF KeptInv, TypeOK, WriteImage, Saving
  <2>6. ASSUME NEW p \in Paths
        PROVE  Kept(p)'
    <3>1. CASE p = saving.path
      BY <2>5, <3>1 DEF Kept
    <3>2. CASE p # saving.path
      BY <1>8, <2>4, <3>2 DEF KeptInv, Kept, WriteImage
    <3> QED BY <3>1, <3>2
  <2>7. \A p \in Paths : file'[p] = Absent => latest'[p] = Absent
    BY <2>3, <2>4, <2>5 DEF KeptInv
  <2>8. CopyDone'
    BY <1>8 DEF CopyDone, WriteImage, Idle
  <2> QED BY <2>6, <2>7, <2>8
<1>9. ASSUME Restart \/ Tick
      PROVE  Goal
  <2>1. now' = now + 1 /\ now \in 0 .. MaxNow /\ UNCHANGED <<file, backup, latest>>
    BY <1>9 DEF KeptInv, TypeOK, Restart, Tick
  <2>2. saving' = Idle
    BY <1>9 DEF Restart, Tick
  <2>3. ASSUME NEW p \in Paths
        PROVE  Kept(p)'
    <3>1. \/ latest[p] = Absent
          \/ file[p] = latest[p]
          \/ \E t \in 0 .. now : backup[<<p, t>>] = latest[p]
      BY <2>1, BoundAssumption DEF KeptInv, Kept
    <3>2. 0 .. now = 0 .. now' - 1
      BY <2>1, BoundAssumption
    <3> QED BY <2>1, <3>1, <3>2 DEF Kept
  <2>4. CopyDone'
    BY <2>2 DEF CopyDone, Idle
  <2> QED BY <2>1, <2>3, <2>4 DEF KeptInv
<1> QED
  BY <1>2, <1>3, <1>4, <1>5, <1>6, <1>7, <1>8, <1>9 DEF Next

------------------------------------------------------------------------------
\* What is known of the files and backups holds in every state.
LEMMA KeptInvInductive == Spec => []KeptInv
<1>1. Init => KeptInv
  <2> SUFFICES ASSUME Init PROVE KeptInv
    OBVIOUS
  <2>1. TypeOK
    BY InitTyped
  <2>2. SaveOfMounted /\ CopyDone
    BY DEF Init, SaveOfMounted, CopyDone, Idle
  <2> QED BY <2>1, <2>2 DEF Init, KeptInv, Kept
<1>2. KeptInv /\ [Next]_vars => KeptInv'
  <2> SUFFICES ASSUME KeptInv, [Next]_vars PROVE KeptInv'
    OBVIOUS
  <2>1. CASE Next
    BY <2>1, NextTyped, NextSaveOfMounted, NextKept DEF KeptInv
  <2>2. CASE UNCHANGED vars
    BY <2>2 DEF vars, KeptInv, TypeOK, SaveOfMounted, CopyDone, Kept
  <2> QED BY <2>1, <2>2
<1> QED BY <1>1, <1>2, PTL DEF Spec

\* The shell is well typed: no slot ever holds a torn or missing image, and a
\* save always has a path and a mounted slot.
THEOREM ShellTyped == Spec => []TypeOK
<1>1. KeptInv => TypeOK BY DEF KeptInv
<1> QED BY <1>1, KeptInvInductive, PTL

\* saveDisk never destroys the last whole image of a file: it can be killed at
\* any step, in any number of saves per second and restarts.
THEOREM ImagesAreRecoverable == Spec => []Recoverable
<1>1. KeptInv => Recoverable
  <2> SUFFICES ASSUME KeptInv, NEW p \in Paths
               PROVE  \/ latest[p] \in {Absent, file[p]}
                      \/ \E t \in 0 .. MaxNow : backup[<<p, t>>] = latest[p]
    BY DEF Recoverable
  <2>1. now \in 0 .. MaxNow /\ 0 .. now - 1 \subseteq 0 .. MaxNow
    BY BoundAssumption DEF KeptInv, TypeOK
  <2>2. Kept(p)
    BY DEF KeptInv
  <2> QED BY <2>1, <2>2 DEF Kept
<1> QED BY <1>1, KeptInvInductive, PTL
------------------------------------------------------------------------------
(***************************************************************************)
(* The memory of a slot and the file it was read from, while every name    *)
(* that is mounted stands for one file and every file has one name.        *)
(***************************************************************************)
\* Every mounted name still means the file it was read from, no two slots
\* were read from one file, and a save writes the file of its slot.
NamedOnce ==
  ~aliased =>
    /\ \A s \in Slots : volume[s] # Empty => Abs(volume[s].name) = volume[s].origin
    /\ \A s, t \in Slots :
         volume[s] # Empty /\ volume[t] # Empty /\ volume[s].origin = volume[t].origin => s = t
    /\ saving # Idle => saving.path = volume[saving.slot].origin

\* No slot is mounted, or is read from another file, by the step.
NothingMounted ==
  \A s \in Slots : volume'[s] # Empty =>
    /\ volume[s] # Empty
    /\ volume'[s].name = volume[s].name
    /\ volume'[s].origin = volume[s].origin

\* A save begins with the file that the name of its slot means, and keeps it.
SaveKeeps ==
  saving' # Idle =>
    /\ saving'.slot \in Slots
    /\ volume'[saving'.slot] # Empty
    /\ \/ saving'.path = FileOfSlot(saving'.slot)
       \/ saving # Idle /\ saving'.slot = saving.slot /\ saving'.path = saving.path

StaysPut == NothingMounted /\ SaveKeeps /\ UNCHANGED <<cwd, aliased>>

LEMMA StayingPut ==
  ASSUME NamedOnce, StaysPut
  PROVE  NamedOnce'
<1> SUFFICES ASSUME ~aliased'
             PROVE  /\ \A s \in Slots : volume'[s] # Empty => Abs(volume[s].name)' = volume'[s].origin
                    /\ \A s, t \in Slots :
                         volume'[s] # Empty /\ volume'[t] # Empty /\ volume'[s].origin = volume'[t].origin
                           => s = t
                    /\ saving' # Idle => saving'.path = volume'[saving'.slot].origin
  BY DEF NamedOnce
<1>0. ~aliased
  BY DEF StaysPut
<1>1. \A s \in Slots : volume'[s] # Empty => Abs(volume[s].name)' = volume'[s].origin
  BY <1>0 DEF NamedOnce, StaysPut, NothingMounted, Abs
<1>2. \A s, t \in Slots :
        volume'[s] # Empty /\ volume'[t] # Empty /\ volume'[s].origin = volume'[t].origin => s = t
  BY <1>0 DEF NamedOnce, StaysPut, NothingMounted
<1>3. ASSUME saving' # Idle
      PROVE  saving'.path = volume'[saving'.slot].origin
  <2>1. PICK s \in Slots : s = saving'.slot
    BY <1>3 DEF StaysPut, SaveKeeps
  <2>2. volume[s] # Empty /\ volume'[s].origin = volume[s].origin
    BY <1>3, <2>1 DEF StaysPut, SaveKeeps, NothingMounted
  <2>3. CASE saving'.path = FileOfSlot(s)
    BY <1>0, <2>2, <2>1, <2>3 DEF NamedOnce, FileOfSlot
  <2>4. CASE saving # Idle /\ saving'.slot = saving.slot /\ saving'.path = saving.path
    BY <1>0, <2>1, <2>2, <2>4 DEF NamedOnce
  <2> QED BY <1>3, <2>1, <2>3, <2>4 DEF StaysPut, SaveKeeps
<1> QED BY <1>1, <1>2, <1>3

\* What a slot last read or saved is not touched.
SeenKept == \A s \in Slots : volume'[s] # Empty => volume'[s].seen = volume[s].seen

\* A command that edits a slot, whether it fails or not.
LEMMA EditedStaysPut ==
  ASSUME TypeOK, SaveOfMounted, saving = Idle,
         NEW s \in Slots, volume[s] # Empty, NEW image \in Images,
         Succeeds(s, image) \/ Fails(s, image)
  PROVE  /\ StaysPut /\ SeenKept /\ UNCHANGED <<file, latest>>
         /\ \A t \in Slots : t # s => volume'[t] = volume[t]
         /\ volume'[s] # Empty
         /\ volume'[s].image = image
<1>1. volume[s] \in Volume
  BY DEF TypeOK
<1>2. /\ volume'[s].name = volume[s].name
      /\ volume'[s].origin = volume[s].origin
      /\ volume'[s].seen = volume[s].seen
      /\ volume'[s].image = image
      /\ \A t \in Slots : t # s => volume'[t] = volume[t]
  BY <1>1 DEF TypeOK, Edited, Volume, Succeeds, Fails
<1>3. volume'[s] \in Volume
  BY <1>1 DEF TypeOK, Edited, Volume, Succeeds, Fails
<1>4. volume'[s] # Empty
  BY <1>3, EmptyAssumption
<1>5. NothingMounted /\ SeenKept
  BY <1>2 DEF NothingMounted, SeenKept
<1>6. SaveKeeps
  BY <1>4 DEF SaveKeeps, Succeeds, Fails, Save
<1> QED BY <1>2, <1>4, <1>5, <1>6 DEF StaysPut, Succeeds, Fails

\* A file that is whole is the last whole image it held, and a mounted slot
\* has seen the last whole image of its file.
CurrentInv ==
  /\ TypeOK
  /\ SaveOfMounted
  /\ NamedOnce
  /\ \A p \in Paths : file[p] \in Images => file[p] = latest[p]
  /\ SlotsAreCurrent

\* The slot a command edits, and the image it leaves there.
EditedSlot(s, image) ==
  /\ saving = Idle
  /\ volume[s] # Empty
  /\ image \in Images
  /\ Succeeds(s, image) \/ Fails(s, image)

\* Every command that edits a disk edits one slot.
LEMMA CommandsEdit ==
  ASSUME TypeOK,
         \/ \E n \in Names : Put(n) \/ PutNoRoom(n) \/ Delete(n)
         \/ Annotate
         \/ \E n, m \in Names : Rename(n, m)
         \/ \E src, dst \in Slots, pattern \in SUBSET Names :
              D2DCopy(src, pattern, dst) \/ D2DCopyFails(src, pattern, dst)
  PROVE  \E s \in Slots, image \in Images : EditedSlot(s, image)
<1>1. ASSUME NEW n \in Names, Put(n) \/ PutNoRoom(n) \/ Delete(n)
      PROVE  \E s \in Slots, image \in Images : EditedSlot(s, image)
  <2>1. /\ target \in Slots /\ volume[target] # Empty /\ volume[target].image \in Images
        /\ saving = Idle
    BY <1>1, TargetVolume DEF Put, PutNoRoom, Delete, Analyzed
  <2>2. \E image \in Images : Succeeds(target, image) \/ Fails(target, image)
    BY <1>1, <2>1 DEF Put, PutNoRoom, Delete, Images
  <2> QED BY <2>1, <2>2 DEF EditedSlot
<1>2. ASSUME Annotate
      PROVE  \E s \in Slots, image \in Images : EditedSlot(s, image)
  BY <1>2, TargetVolume DEF Annotate, Analyzed, EditedSlot
<1>3. ASSUME NEW n \in Names, NEW m \in Names, Rename(n, m)
      PROVE  \E s \in Slots, image \in Images : EditedSlot(s, image)
  <2>1. /\ target \in Slots /\ volume[target] # Empty /\ volume[target].image \in Images
        /\ saving = Idle
    BY <1>3, TargetVolume DEF Rename
  <2>2. \E image \in Images : Succeeds(target, image)
    BY <1>3, <2>1 DEF Rename, Images
  <2> QED BY <2>1, <2>2 DEF EditedSlot
<1>4. ASSUME NEW src \in Slots, NEW dst \in Slots, NEW pattern \in SUBSET Names,
             D2DCopy(src, pattern, dst) \/ D2DCopyFails(src, pattern, dst)
      PROVE  \E s \in Slots, image \in Images : EditedSlot(s, image)
  <2>1. volume[dst] \in Volume /\ volume[dst] # Empty /\ saving = Idle
    BY <1>4 DEF D2DCopy, D2DCopyFails, Mounted, TypeOK
  <2>2. Selected(src, pattern) \subseteq Names
    BY SelectedNames
  <2>3. \E image \in Images : Succeeds(dst, image) \/ Fails(dst, image)
    <3>1. CASE D2DCopy(src, pattern, dst)
      BY <2>1, <2>2, <3>1 DEF D2DCopy, Volume, Images
    <3>2. CASE D2DCopyFails(src, pattern, dst)
      <4>1. PICK done \in SUBSET Selected(src, pattern), last \in Selected(src, pattern) :
              Fails(dst, (volume[dst].image \cup done) \ {last})
        BY <3>2 DEF D2DCopyFails
      <4>2. (volume[dst].image \cup done) \ {last} \in Images
        BY <2>1, <2>2 DEF Volume, Images
      <4> QED BY <4>1, <4>2
    <3> QED BY <1>4, <3>1, <3>2
  <2> QED BY <2>1, <2>3 DEF EditedSlot
<1> QED BY <1>1, <1>2, <1>3, <1>4

------------------------------------------------------------------------------
\* A step that mounts nothing, reads nothing and saves nothing keeps what the
\* slots have seen.
LEMMA StayingCurrent ==
  ASSUME CurrentInv, TypeOK', SaveOfMounted', StaysPut, SeenKept, latest' = latest,
         \A p \in Paths : file'[p] \in {Absent, Torn, file[p]}
  PROVE  CurrentInv'
<1>1. NamedOnce'
  BY StayingPut DEF CurrentInv
<1>2. \A p \in Paths : file'[p] \in Images => file'[p] = latest'[p]
  BY MarkerAssumption DEF CurrentInv
<1>3. SlotsAreCurrent'
  BY DEF CurrentInv, SlotsAreCurrent, Mounted, StaysPut, SeenKept, NothingMounted
<1> QED BY <1>1, <1>2, <1>3 DEF CurrentInv

\* What mountDsk puts in a slot that was free.
NewlyMounted(s, name) ==
  /\ s \in Slots
  /\ volume[s] = Empty
  /\ Abs(name) \in Paths
  /\ file[Abs(name)] \in Images
  /\ volume'[s] = [name |-> name, image |-> file[Abs(name)], origin |-> Abs(name),
                   seen |-> file[Abs(name)]]
  /\ \A t \in Slots : t # s => volume'[t] = volume[t]
  /\ UNCHANGED <<file, cwd, latest, saving>>
  /\ saving = Idle

LEMMA MountsOne ==
  ASSUME TypeOK, NEW name \in Typed, MountNew(name)
  PROVE  \E s \in Slots : NewlyMounted(s, name)
<1>1. FreeSlots \in SUBSET Slots
  BY DEF FreeSlots
<1>2. PICK s \in Slots : s = Lowest(FreeSlots)
  BY <1>1, LowestSlot DEF MountNew
<1>3. volume[s] = Empty
  BY <1>1, <1>2, LowestSlot DEF MountNew, FreeSlots
<1>4. Abs(name) \in Paths
  BY AbsIsPath
<1>5. file[Abs(name)] \in Images
  BY <1>4 DEF TypeOK, MountNew, Readable, Hosted
<1>6. /\ volume'[s] = [name |-> name, image |-> file[Abs(name)], origin |-> Abs(name),
                       seen |-> file[Abs(name)]]
      /\ \A t \in Slots : t # s => volume'[t] = volume[t]
  BY <1>2 DEF TypeOK, MountNew
<1> QED BY <1>3, <1>4, <1>5, <1>6 DEF NewlyMounted, MountNew

\* A file that is mounted under its only name was in no slot.
LEMMA MountNewCurrent ==
  ASSUME CurrentInv, NEW name \in Typed, MountNew(name)
  PROVE  NamedOnce' /\ SlotsAreCurrent'
<1>1. PICK s \in Slots : NewlyMounted(s, name)
  BY MountsOne DEF CurrentInv
<1>2. ASSUME ~aliased'
      PROVE  /\ ~aliased
             /\ \A t \in Slots : volume[t] # Empty => volume[t].origin # Abs(name)
  <2>1. ~aliased /\ ~HasOtherName(name)
    BY <1>2 DEF MountNew
  <2>2. ASSUME NEW t \in Slots, volume[t] # Empty, volume[t].origin = Abs(name)
        PROVE  FALSE
    <3>1. volume[t].name # name
      BY <2>2 DEF MountNew, SlotsNamed, Mounted
    <3> QED BY <2>1, <2>2, <3>1 DEF HasOtherName, Mounted
  <2> QED BY <2>1, <2>2
<1>3. ASSUME ~aliased'
      PROVE  \A t \in Slots : volume'[t] # Empty => Abs(volume[t].name)' = volume'[t].origin
  <2>1. ASSUME NEW t \in Slots, volume'[t] # Empty, t # s
        PROVE  Abs(volume[t].name)' = volume'[t].origin
    BY <1>1, <1>2, <1>3, <2>1 DEF CurrentInv, NamedOnce, NewlyMounted, Abs
  <2>2. Abs(volume[s].name)' = volume'[s].origin
    BY <1>1 DEF NewlyMounted, Abs
  <2> QED BY <2>1, <2>2
<1>4. ASSUME ~aliased', NEW t \in Slots, NEW u \in Slots,
             volume'[t] # Empty, volume'[u] # Empty, volume'[t].origin = volume'[u].origin
      PROVE  t = u
  <2>1. volume'[s].origin = Abs(name)
    BY <1>1 DEF NewlyMounted
  <2> QED BY <1>1, <1>2, <1>4, <2>1 DEF CurrentInv, NamedOnce, NewlyMounted
<1>5. NamedOnce'
  BY <1>1, <1>3, <1>4 DEF NamedOnce, NewlyMounted
<1>6. ASSUME ~aliased', NEW t \in Slots, volume'[t] # Empty
      PROVE  volume'[t].seen = latest'[volume'[t].origin]
  <2>1. CASE t = s
    <3>1. file[Abs(name)] = latest[Abs(name)]
      BY <1>1 DEF CurrentInv, NewlyMounted
    <3> QED BY <1>1, <2>1, <3>1 DEF NewlyMounted
  <2>2. CASE t # s
    BY <1>1, <1>2, <1>6, <2>2 DEF CurrentInv, SlotsAreCurrent, Mounted, NewlyMounted
  <2> QED BY <2>1, <2>2
<1> QED BY <1>5, <1>6 DEF SlotsAreCurrent, Mounted

\* What saveDisk leaves when it is done.
SaveDone ==
  /\ saving \in Saving
  /\ saving # Idle
  /\ volume[saving.slot] \in Volume
  /\ volume'[saving.slot] = [volume[saving.slot] EXCEPT !.seen = volume[saving.slot].image]
  /\ \A t \in Slots : t # saving.slot => volume'[t] = volume[t]
  /\ file'[saving.path] = volume[saving.slot].image
  /\ latest'[saving.path] = volume[saving.slot].image
  /\ \A p \in Paths : p # saving.path => file'[p] = file[p] /\ latest'[p] = latest[p]
  /\ saving' = Idle
  /\ UNCHANGED <<cwd, aliased>>

LEMMA WriteImageSaves ==
  ASSUME TypeOK, SaveOfMounted, WriteImage
  PROVE  SaveDone
<1>1. saving \in Saving /\ saving # Idle
  BY DEF TypeOK, WriteImage, At, Idle, Saving
<1>2. volume[saving.slot] \in Volume
  BY <1>1 DEF TypeOK, SaveOfMounted, Saving
<1>3. /\ volume'[saving.slot] = [volume[saving.slot] EXCEPT !.seen = volume[saving.slot].image]
      /\ \A t \in Slots : t # saving.slot => volume'[t] = volume[t]
  BY <1>1 DEF TypeOK, WriteImage, Saving
<1>4. /\ file'[saving.path] = volume[saving.slot].image
      /\ latest'[saving.path] = volume[saving.slot].image
      /\ \A p \in Paths : p # saving.path => file'[p] = file[p] /\ latest'[p] = latest[p]
  BY <1>1 DEF TypeOK, WriteImage, Saving
<1> QED BY <1>1, <1>2, <1>3, <1>4 DEF SaveDone, WriteImage

\* A save is seen by the only slot that was read from its file.
LEMMA SaveDoneCurrent ==
  ASSUME CurrentInv, SaveDone
  PROVE  /\ NamedOnce' /\ SlotsAreCurrent'
         /\ \A p \in Paths : file'[p] \in Images => file'[p] = latest'[p]
<1>1. PICK s \in Slots, path \in Paths : s = saving.slot /\ path = saving.path
  BY DEF SaveDone, Saving
<1>2. /\ volume[s] \in Volume
      /\ volume'[s].name = volume[s].name
      /\ volume'[s].origin = volume[s].origin
      /\ volume'[s].seen = volume[s].image
      /\ volume[s] # Empty
      /\ \A t \in Slots : t # s => volume'[t] = volume[t]
  BY <1>1, EmptyAssumption DEF SaveDone, Volume
<1>3. StaysPut
  BY <1>2 DEF StaysPut, NothingMounted, SaveKeeps, SaveDone
<1>4. \A p \in Paths : file'[p] \in Images => file'[p] = latest'[p]
  <2>1. ASSUME NEW p \in Paths, file'[p] \in Images PROVE file'[p] = latest'[p]
    BY <2>1 DEF SaveDone, CurrentInv
  <2> QED BY <2>1
<1>5. ASSUME ~aliased', NEW t \in Slots, volume'[t] # Empty
      PROVE  volume'[t].seen = latest'[volume'[t].origin]
  <2>0. ~aliased /\ volume[s].origin = path
    BY <1>1, <1>5 DEF SaveDone, CurrentInv, NamedOnce
  <2>1. CASE t = s
    BY <1>1, <1>2, <2>0, <2>1 DEF SaveDone
  <2>2. CASE t # s
    <3>1. volume[t] # Empty /\ volume'[t] = volume[t]
      BY <1>2, <1>5, <2>2
    <3>2. volume[t].origin # path
      BY <1>2, <2>0, <2>2, <3>1 DEF CurrentInv, NamedOnce
    <3>3. volume[t].origin \in Paths
      BY <3>1 DEF CurrentInv, TypeOK, Volume
    <3>4. volume[t].seen = latest[volume[t].origin]
      BY <2>0, <3>1 DEF CurrentInv, SlotsAreCurrent, Mounted
    <3> QED BY <1>1, <3>1, <3>2, <3>3, <3>4 DEF SaveDone
  <2> QED BY <2>1, <2>2
<1>6. NamedOnce'
  BY <1>3, StayingPut DEF CurrentInv
<1> QED BY <1>4, <1>5, <1>6 DEF SlotsAreCurrent, Mounted

\* The steps of a save before the last one change only the file that is saved.
LEMMA SavingStep ==
  ASSUME TypeOK, SaveOfMounted, CreateBackup \/ WriteBackup \/ CreateImage
  PROVE  /\ StaysPut /\ SeenKept /\ volume' = volume /\ latest' = latest
         /\ saving \in Saving /\ saving # Idle
         /\ saving' # Idle /\ saving'.slot = saving.slot
         /\ \A p \in Paths : p # saving.path => file'[p] = file[p]
         /\ \A p \in Paths : file'[p] \in {Absent, Torn, file[p]}
<1>1. saving \in Saving /\ saving # Idle
  BY DEF TypeOK, CreateBackup, WriteBackup, CreateImage, At, Idle, Saving
<1>2. saving' # Idle /\ saving'.slot = saving.slot /\ saving'.path = saving.path
  BY <1>1 DEF CreateBackup, WriteBackup, CreateImage, Then, Saving, Idle
<1>3. /\ volume' = volume /\ latest' = latest
      /\ \A p \in Paths : p # saving.path => file'[p] = file[p]
      /\ \A p \in Paths : file'[p] \in {Absent, Torn, file[p]}
  BY <1>1 DEF TypeOK, CreateBackup, WriteBackup, CreateImage
<1>4. StaysPut
  <2>1. saving.slot \in Slots /\ volume[saving.slot] # Empty
    BY <1>1 DEF SaveOfMounted, Saving
  <2>2. SaveKeeps
    BY <1>1, <1>2, <1>3, <2>1 DEF SaveKeeps
  <2> QED BY <1>3, <2>2 DEF StaysPut, NothingMounted, CreateBackup, WriteBackup, CreateImage
<1> QED BY <1>1, <1>2, <1>3, <1>4 DEF SeenKept

\* The commands that change no image and no file.
LEMMA QuietStep ==
  ASSUME TypeOK,
         \/ \E name \in Typed : MountAgain(name)
         \/ \E s \in Slots : Target(s) \/ Unmount(s)
         \/ Tick
  PROVE  /\ StaysPut /\ SeenKept /\ UNCHANGED <<file, latest>> /\ saving' = saving /\ saving = Idle
         /\ \A s \in Slots : volume'[s] # Empty => volume'[s] = volume[s]
<1>1. \A s \in Slots : volume'[s] # Empty => volume'[s] = volume[s]
  BY DEF TypeOK, MountAgain, Target, Unmount, Tick
<1>2. saving' = saving /\ saving = Idle /\ UNCHANGED <<file, latest, cwd, aliased>>
  BY DEF MountAgain, Target, Unmount, Tick
<1> QED BY <1>1, <1>2 DEF StaysPut, NothingMounted, SaveKeeps, SeenKept

\* cd: the relative names that are mounted, if any, now mean other files.
LEMMA CdNamed ==
  ASSUME TypeOK, NamedOnce, NEW dir \in Dirs, Cd(dir)
  PROVE  NamedOnce'
<1> SUFFICES ASSUME ~aliased'
             PROVE  /\ \A s \in Slots : volume'[s] # Empty => Abs(volume[s].name)' = volume'[s].origin
                    /\ \A s, t \in Slots :
                         volume'[s] # Empty /\ volume'[t] # Empty /\ volume'[s].origin = volume'[t].origin
                           => s = t
                    /\ saving' # Idle => saving'.path = volume'[saving'.slot].origin
  BY DEF NamedOnce
<1>1. ~aliased /\ (dir = cwd \/ ~RelativeMounted)
  BY DEF Cd
<1>2. volume' = volume /\ saving' = Idle /\ cwd' = dir
  BY DEF Cd
<1>3. ASSUME NEW s \in Slots, volume[s] # Empty
      PROVE  Abs(volume[s].name)' = volume[s].origin
  <2>1. Abs(volume[s].name) = volume[s].origin
    BY <1>1, <1>3 DEF NamedOnce
  <2>2. CASE dir = cwd
    BY <1>2, <2>1, <2>2 DEF Abs
  <2>3. CASE ~RelativeMounted
    BY <1>2, <1>3, <2>1, <2>3 DEF Abs, RelativeMounted, Mounted
  <2> QED BY <1>1, <2>2, <2>3
<1> QED BY <1>1, <1>2, <1>3 DEF NamedOnce

LEMMA CurrentStep ==
  ASSUME CurrentInv, Next
  PROVE  CurrentInv'
<1>0. TypeOK /\ SaveOfMounted /\ TypeOK' /\ SaveOfMounted'
  BY NextTyped, NextSaveOfMounted DEF CurrentInv
<1>1. ASSUME \/ \E name \in Typed : MountAgain(name)
             \/ \E s \in Slots : Target(s) \/ Unmount(s)
             \/ Tick
      PROVE  CurrentInv'
  <2>1. StaysPut /\ SeenKept /\ UNCHANGED <<file, latest>>
    BY <1>0, <1>1, QuietStep
  <2> QED BY <1>0, <2>1, StayingCurrent
<1>2. ASSUME NEW name \in Typed, MountNew(name)
      PROVE  CurrentInv'
  <2>1. UNCHANGED <<file, latest>>
    BY <1>2 DEF MountNew
  <2> QED BY <1>0, <1>2, <2>1, MountNewCurrent DEF CurrentInv
<1>3. ASSUME NEW dir \in Dirs, Cd(dir)
      PROVE  CurrentInv'
  <2>1. NamedOnce'
    BY <1>0, <1>3, CdNamed DEF CurrentInv
  <2>2. UNCHANGED <<file, latest, volume>> /\ (~aliased' => ~aliased)
    BY <1>3 DEF Cd
  <2> QED BY <1>0, <2>1, <2>2 DEF CurrentInv, SlotsAreCurrent, Mounted
<1>4. ASSUME NEW s \in Slots, NEW image \in Images, EditedSlot(s, image)
      PROVE  CurrentInv'
  <2>1. StaysPut /\ SeenKept /\ UNCHANGED <<file, latest>>
    BY <1>0, <1>4, EditedStaysPut DEF EditedSlot
  <2> QED BY <1>0, <2>1, StayingCurrent
<1>5. ASSUME \/ \E n \in Names : Put(n) \/ PutNoRoom(n) \/ Delete(n)
             \/ Annotate
             \/ \E n, m \in Names : Rename(n, m)
             \/ \E src, dst \in Slots, pattern \in SUBSET Names :
                  D2DCopy(src, pattern, dst) \/ D2DCopyFails(src, pattern, dst)
      PROVE  CurrentInv'
  BY <1>0, <1>4, <1>5, CommandsEdit
<1>6. ASSUME CreateBackup \/ WriteBackup \/ CreateImage
      PROVE  CurrentInv'
  BY <1>0, <1>6, SavingStep, StayingCurrent
<1>7. ASSUME WriteImage
      PROVE  CurrentInv'
  BY <1>0, <1>7, WriteImageSaves, SaveDoneCurrent DEF CurrentInv
<1>8. ASSUME Restart
      PROVE  CurrentInv'
  BY <1>0, <1>8 DEF CurrentInv, NamedOnce, SlotsAreCurrent, Mounted, Restart
<1> QED
  BY <1>1, <1>2, <1>3, <1>5, <1>6, <1>7, <1>8 DEF Next

LEMMA InitCurrent == Init => CurrentInv
<1> SUFFICES ASSUME Init PROVE CurrentInv
  OBVIOUS
<1>1. TypeOK
  BY InitTyped
<1> QED BY <1>1 DEF Init, CurrentInv, SaveOfMounted, NamedOnce, SlotsAreCurrent, Mounted

LEMMA CurrentInvariance == Spec => []CurrentInv
<1>1. CurrentInv /\ [Next]_vars => CurrentInv'
  <2> SUFFICES ASSUME CurrentInv, [Next]_vars PROVE CurrentInv'
    OBVIOUS
  <2>1. CASE Next
    BY <2>1, CurrentStep
  <2>2. CASE UNCHANGED vars
    BY <2>2 DEF vars, CurrentInv, TypeOK, SaveOfMounted, NamedOnce, SlotsAreCurrent, Mounted, Abs
  <2> QED BY <2>1, <2>2
<1> QED BY <1>1, InitCurrent, PTL DEF Spec

\* No save overwrites what another slot saved, as long as every file that is
\* mounted has kept one name and every name its file: also when commands fail
\* half-way, when the program was killed during a save, and when a name that is
\* in use is mounted again.
THEOREM SlotsStayCurrent == Spec => []SlotsAreCurrent
<1>1. CurrentInv => SlotsAreCurrent
  BY DEF CurrentInv
<1> QED BY <1>1, CurrentInvariance, PTL

------------------------------------------------------------------------------
(***************************************************************************)
(* A session in which no command fails half-way.                           *)
(***************************************************************************)
\* A slot whose image is not in its file is being saved.
Saved ==
  ~aliased =>
    \A s \in Slots : volume[s] # Empty =>
      \/ file[volume[s].origin] = volume[s].image
      \/ saving # Idle /\ saving.slot = s

LEMMA SavedStep ==
  ASSUME CanFill = FALSE, CurrentInv, Saved, Next
  PROVE  Saved'
<1>0. TypeOK /\ SaveOfMounted /\ NamedOnce
  BY DEF CurrentInv
<1>1. ASSUME \/ \E name \in Typed : MountAgain(name)
             \/ \E s \in Slots : Target(s) \/ Unmount(s)
             \/ Tick
      PROVE  Saved'
  <2>1. /\ UNCHANGED <<file, aliased, saving>>
        /\ \A s \in Slots : volume'[s] # Empty => volume'[s] = volume[s]
    BY <1>0, <1>1, QuietStep DEF StaysPut
  <2> QED BY <2>1 DEF Saved
<1>2. ASSUME NEW name \in Typed, MountNew(name)
      PROVE  Saved'
  <2>1. PICK s \in Slots : NewlyMounted(s, name)
    BY <1>0, <1>2, MountsOne
  <2>2. ~aliased' => ~aliased
    BY <1>2 DEF MountNew
  <2>3. ASSUME ~aliased', NEW t \in Slots, volume'[t] # Empty
        PROVE  file'[volume'[t].origin] = volume'[t].image
    BY <2>1, <2>2, <2>3 DEF NewlyMounted, Saved
  <2> QED BY <2>3 DEF Saved
<1>3. ASSUME NEW dir \in Dirs, Cd(dir)
      PROVE  Saved'
  BY <1>3 DEF Cd, Saved
<1>4. ASSUME NEW s \in Slots, NEW image \in Images, EditedSlot(s, image), Succeeds(s, image)
      PROVE  Saved'
  <2>1. /\ file' = file /\ aliased' = aliased
        /\ \A t \in Slots : t # s => volume'[t] = volume[t]
    BY <1>0, <1>4, EditedStaysPut DEF EditedSlot, StaysPut
  <2>2. saving' # Idle /\ saving'.slot = s
    BY <1>4 DEF Succeeds, Save, Idle
  <2>3. saving = Idle
    BY <1>4 DEF EditedSlot
  <2> QED BY <2>1, <2>2, <2>3 DEF Saved
<1>5. ASSUME \/ \E n \in Names : Put(n) \/ PutNoRoom(n) \/ Delete(n)
             \/ Annotate
             \/ \E n, m \in Names : Rename(n, m)
             \/ \E src, dst \in Slots, pattern \in SUBSET Names :
                  D2DCopy(src, pattern, dst) \/ D2DCopyFails(src, pattern, dst)
      PROVE  Saved'
  <2>1. PICK s \in Slots, image \in Images : EditedSlot(s, image)
    BY <1>0, <1>5, CommandsEdit
  <2>2. saving' # Idle
    <3>1. ASSUME NEW r, NEW edited, Succeeds(r, edited)
          PROVE  saving' # Idle
      BY <3>1 DEF Succeeds, Save, Idle
    <3>2. ~ (\E n \in Names : PutNoRoom(n))
      BY DEF PutNoRoom
    <3>3. ~ (\E src, dst \in Slots, pattern \in SUBSET Names : D2DCopyFails(src, pattern, dst))
      BY DEF D2DCopyFails
    <3> QED BY <1>5, <3>1, <3>2, <3>3 DEF Put, Delete, Annotate, Rename, D2DCopy
  <2>3. Succeeds(s, image)
    BY <2>1, <2>2 DEF EditedSlot, Fails
  <2> QED BY <1>4, <2>1, <2>3
<1>6. ASSUME CreateBackup \/ WriteBackup \/ CreateImage
      PROVE  Saved'
  <2>1. /\ volume' = volume /\ aliased' = aliased
        /\ saving \in Saving /\ saving # Idle
        /\ saving' # Idle /\ saving'.slot = saving.slot
        /\ \A p \in Paths : p # saving.path => file'[p] = file[p]
    BY <1>0, <1>6, SavingStep DEF StaysPut
  <2>2. ASSUME ~aliased, NEW s \in Slots, volume[s] # Empty, s # saving.slot
        PROVE  file'[volume[s].origin] = volume[s].image
    <3>1. volume[s] \in Volume /\ saving.slot \in Slots /\ volume[saving.slot] # Empty
      BY <1>0, <2>1, <2>2 DEF TypeOK, SaveOfMounted, Saving
    <3>2. volume[s].origin # saving.path
      BY <1>0, <2>1, <2>2, <3>1 DEF NamedOnce
    <3> QED BY <2>1, <2>2, <3>1, <3>2 DEF Saved, Volume
  <2> QED BY <2>1, <2>2 DEF Saved
<1>7. ASSUME WriteImage
      PROVE  Saved'
  <2>1. SaveDone
    BY <1>0, <1>7, WriteImageSaves
  <2>2. PICK s \in Slots, path \in Paths : s = saving.slot /\ path = saving.path
    BY <2>1 DEF SaveDone, Saving
  <2>3. ASSUME ~aliased', NEW t \in Slots, volume'[t] # Empty
        PROVE  file'[volume'[t].origin] = volume'[t].image
    <3>0. ~aliased /\ volume[s].origin = path
      BY <1>0, <2>1, <2>2, <2>3 DEF SaveDone, NamedOnce
    <3>1. CASE t = s
      BY <2>1, <2>2, <3>0, <3>1 DEF SaveDone, Volume
    <3>2. CASE t # s
      <4>1. volume[t] # Empty /\ volume'[t] = volume[t]
        BY <2>1, <2>2, <2>3, <3>2 DEF SaveDone
      <4>2. volume[s] # Empty
        BY <1>0, <2>1, <2>2 DEF SaveOfMounted, SaveDone
      <4>3. volume[t].origin # path /\ volume[t].origin \in Paths
        BY <1>0, <3>0, <3>2, <4>1, <4>2 DEF NamedOnce, TypeOK, Volume
      <4>4. file[volume[t].origin] = volume[t].image
        BY <2>2, <3>0, <3>2, <4>1 DEF Saved
      <4> QED BY <2>1, <2>2, <4>1, <4>3, <4>4 DEF SaveDone
    <3> QED BY <3>1, <3>2
  <2> QED BY <2>3 DEF Saved
<1>8. ASSUME Restart
      PROVE  Saved'
  BY <1>8 DEF Saved, Restart
<1> QED
  BY <1>1, <1>2, <1>3, <1>5, <1>6, <1>7, <1>8 DEF Next

\* Between commands every image file holds what is in memory, if no command
\* fails half-way and every mounted file has kept one name and every name its
\* file: what extract, copy and move read from the file is what the user edited.
THEOREM FilesFollowMemory ==
  ASSUME CanFill = FALSE
  PROVE  Spec => []MemoryIsOnDisk
<1>1. Init => Saved
  BY DEF Init, Saved
<1>2. CurrentInv /\ Saved /\ [Next]_vars => Saved'
  <2> SUFFICES ASSUME CurrentInv, Saved, [Next]_vars PROVE Saved'
    OBVIOUS
  <2>1. CASE Next
    BY <2>1, SavedStep
  <2>2. CASE UNCHANGED vars
    BY <2>2 DEF vars, Saved
  <2> QED BY <2>1, <2>2
<1>3. Saved => MemoryIsOnDisk
  BY DEF Saved, MemoryIsOnDisk, Mounted
<1> QED BY <1>1, <1>2, <1>3, CurrentInvariance, PTL DEF Spec
==============================================================================
