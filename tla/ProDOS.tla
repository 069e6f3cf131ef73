-------------------------------- MODULE ProDOS --------------------------------
(***************************************************************************)
(* A ProDOS volume as disk/diskimagepd.go edits it: the volume bitmap, the *)
(* directories, and the index and data blocks of files.  The image is      *)
(* edited in memory by one goroutine, so each exported method is one step, *)
(* except the removal of a directory: its loop over the files of the       *)
(* directory, which calls itself for subdirectories and can fail half-way, *)
(* takes a step for each file.  Error returns that change nothing are      *)
(* stuttering steps, the ones that change something are actions.           *)
(*                                                                         *)
(* The root directory is a chain of blocks when the volume is formatted,   *)
(* and no chain ever grows (see GrowDirectory), so a directory is named by *)
(* its first block and its entries are numbered along the chain.  Block 0  *)
(* is the boot block; a null pointer is 0 too.                             *)
(***************************************************************************)
EXTENDS Integers, FiniteSets, Sequences

CONSTANTS
  NumBlocks,    \* TotalBlocks of the volume header
  Root,         \* the first block of the root directory
  InitialFree,  \* the blocks the bitmap of the mounted image has free
  RootSlots,    \* entries of the root directory
  SubSlots,     \* entries of a directory made here, which is one block
  MaxDepth,     \* directories nest this deep (bound of the model)
  Names,        \* names of at most 15 characters, case folded
  LongNames,    \* longer names, which the user can type too
  Truncated,    \* the first 15 characters of a long name
  Kinds,        \* types of files
  Payloads,     \* contents of files
  Size,         \* length of a payload in bytes
  BlockBytes,   \* bytes of a block, 512
  IndexSize,    \* pointers of an index block, 256
  CountWrap,    \* the low byte of -1, 255
  Never,        \* an entry that was never used: its first byte is zero
  Deleted       \* a removed entry: its storage type is zero, its first byte is not

Block  == 1 .. NumBlocks - 1
Null   == 0
NoSlot == 0
Typed  == Names \cup LongNames
Path   == UNION {[1 .. k -> Names] : k \in 0 .. MaxDepth}

\* What is stored of the name the user typed (ProDOSFileDescriptor.SetName).
Stored(arg) == IF arg \in LongNames THEN Truncated[arg] ELSE arg

Slots(d) == 1 .. (IF d = Root THEN RootSlots ELSE SubSlots)

Entry ==
  [name : Names, st : {"seedling", "sapling"}, kind : Kinds, key : Block,
   size : Nat, locked : BOOLEAN]
    \cup [name : Names, st : {"dir"}, key : Block, locked : BOOLEAN]

ASSUME VolumeAssumption ==
  /\ NumBlocks \in Nat \ {0}
  /\ Root \in Block
  /\ InitialFree \subseteq Block \ {Root}
  /\ RootSlots \in Nat /\ SubSlots \in Nat /\ MaxDepth \in Nat
ASSUME NameAssumption ==
  /\ Names \cap LongNames = {}
  /\ Truncated \in [LongNames -> Names]
ASSUME PayloadAssumption ==
  /\ Size \in [Payloads -> Nat \ {0}]
  /\ BlockBytes \in Nat \ {0} /\ IndexSize \in Nat \ {0}
  /\ CountWrap \in Nat
ASSUME EntryAssumption == {Never, Deleted} \cap Entry = {} /\ Never # Deleted

VARIABLES
  free,  \* blocks the volume bitmap marks free
  blk,   \* what each block holds
  job,   \* the calls of PRODOSDeleteDirectory that have not returned, outermost first
  after  \* the write PRODOSWriteFile goes on with when they have, if it made the first

vars == <<free, blk, job, after>>

NoWrite == [write |-> FALSE]
Idle == job = <<>> /\ after = NoWrite

Min(S) == CHOOSE i \in S : \A j \in S : i <= j
First(S) == IF S = {} THEN NoSlot ELSE Min(S)

------------------------------------------------------------------------------
(***************************************************************************)
(* Directories.  PRODOSGetCatalog counts the entries whose first byte is   *)
(* not zero, removed ones too, and stops when it has seen as many as the   *)
(* header says there are files: only the files before that are shown.      *)
(* Behind the last block it reads the boot block, taken here to hold no    *)
(* entry of a valid type.  PRODOSGetNamedEntry looks at every entry.       *)
(***************************************************************************)
At(d, i) == blk[d].entries[i]
IsEntry(e) == e # Never /\ e # Deleted
InUse(d) == {i \in Slots(d) : IsEntry(At(d, i))}
Touched(d) == {i \in Slots(d) : At(d, i) # Never}

Shown(d) == {i \in InUse(d) : Cardinality({j \in Touched(d) : j <= i}) <= blk[d].count}

NamedEntry(d, arg) == First({i \in InUse(d) : At(d, i).name = arg})
FreeEntry(d) == First(Slots(d) \ InUse(d))

IsDir(e) == IsEntry(e) /\ e.st = "dir"

\* PRODOSFindDirBlocks: each directory of a path is looked up in the catalog
\* of the one before it.
Subdirectory(d, n) ==
  LET S == IF d = Null THEN {} ELSE {i \in Shown(d) : IsDir(At(d, i)) /\ At(d, i).name = n}
  IN  IF S = {} THEN Null ELSE At(d, Min(S)).key

DirBlock(path) ==
  LET at[k \in 0 .. Len(path)] ==
        IF k = 0 THEN Root ELSE Subdirectory(at[k - 1], path[k])
  IN  at[Len(path)]

\* SetFileCount(GetFileCount() - 1): of -1 only the low byte is kept.
Less(c) == IF c = 0 THEN CountWrap ELSE c - 1

\* PRODOSGetFreeBlocks: the n lowest free blocks in order.
FreeBlocks(f, n) == [j \in 1 .. n |-> CHOOSE b \in f : Cardinality({x \in f : x <= b}) = j]

------------------------------------------------------------------------------
(***************************************************************************)
(* Files.  A file of one data block is a seedling, its key block the data; *)
(* a longer one a sapling, its key block an index of its data blocks.      *)
(***************************************************************************)
DataBlocks(p) == (Size[p] \div BlockBytes) + 1
IsSapling(p) == DataBlocks(p) > 1
TotalBlocks(p) == IF IsSapling(p) THEN DataBlocks(p) + 1 ELSE 1

\* The space is looked for first; an index that is too short is noticed later,
\* and both errors come back after the old file of that name is gone.
CanStore(f, p) == Cardinality(f) >= TotalBlocks(p) /\ DataBlocks(p) <= IndexSize

\* Of the blocks that PRODOSGetFreeBlocks found, the first is the key block.
Found(f, p) == FreeBlocks(f, TotalBlocks(p))

\* Mutant: the index block is also the first data block.
DataListEarly(found, p) == found
DataList(found, p) == IF IsSapling(p) THEN Tail(found) ELSE found

\* The image after PRODOSWriteSaplingBlocks, or PRODOSWrite of a seedling.
BlocksWith(found, p) ==
  LET data == DataList(found, p) IN
  [b \in Block |->
     IF \E j \in DOMAIN data : data[j] = b
     THEN [tag |-> "data", payload |-> p, chunk |-> CHOOSE j \in DOMAIN data : data[j] = b]
     ELSE IF b = found[1] THEN [tag |-> "index", ptrs |-> data]
     ELSE blk[b]]

NewEntry(found, arg, k, p) ==
  [name |-> Stored(arg), st |-> IF IsSapling(p) THEN "sapling" ELSE "seedling", kind |-> k,
   key |-> found[1], size |-> Size[p], locked |-> FALSE]

\* Mutant: the index block, or a seedling, is not marked.
FreeWithoutIndex(f, found) == f \ {found[j] : j \in DOMAIN found \ {1}}
FreeWithout(f, found) == f \ {found[j] : j \in DOMAIN found}

Pointers(e) == IF e.st = "sapling" /\ blk[e.key].tag = "index" THEN blk[e.key].ptrs ELSE <<>>

\* The blocks an entry occupies.
Footprint(e) == {e.key} \cup {Pointers(e)[j] : j \in DOMAIN Pointers(e)}

\* The blocks a removal gives back.  The loop over the pointers frees the first
\* one twice and not the last one of a full index block; the number at which it
\* also stops, 280 or 1600, is no block of the volume.
\* Mutant: the index block is kept.
GivenBackWithoutIndex(e) ==
  {Pointers(e)[j] : j \in {i \in DOMAIN Pointers(e) : i < IndexSize}}
GivenBack(e) == {e.key} \cup GivenBackWithoutIndex(e)

------------------------------------------------------------------------------
Init ==
  /\ free = InitialFree
  /\ blk = [b \in Block |->
              IF b = Root THEN [tag |-> "dir", count |-> 0, entries |-> [i \in Slots(Root) |-> Never]]
              ELSE [tag |-> "blank"]]
  /\ job = <<>>
  /\ after = NoWrite

(***************************************************************************)
(* PRODOSWriteFile: a file of that name is removed before the space for    *)
(* the new one is looked for; its create time and access mode are kept.    *)
(***************************************************************************)
Publish(f, d, i, arg, k, p, count) ==
  LET found == Found(f, p) IN
  /\ blk' = [BlocksWith(found, p) EXCEPT ![d].entries[i] = NewEntry(found, arg, k, p),
                                         ![d].count = count]
  /\ free' = FreeWithout(f, found)

WriteNewFile(path, arg, k, p) ==
  LET d == DirBlock(path) IN
  /\ Idle
  /\ d # Null
  /\ NamedEntry(d, arg) = NoSlot
  /\ FreeEntry(d) # NoSlot
  /\ CanStore(free, p)
  /\ Publish(free, d, FreeEntry(d), arg, k, p, blk[d].count + 1)
  /\ UNCHANGED <<job, after>>

\* PRODOSDeleteFile lets only files go that may be destroyed and written.
Removable(d, i) == i # NoSlot /\ ~IsDir(At(d, i)) /\ ~At(d, i).locked

\* Mutant: the lock is not looked at.
ReplaceAnyFile(path, arg, k, p) ==
  LET d == DirBlock(path)
      i == NamedEntry(d, arg)
      f == free \cup GivenBack(At(d, i)) IN
  /\ Idle
  /\ d # Null
  /\ i # NoSlot /\ ~IsDir(At(d, i))
  /\ CanStore(f, p)
  /\ Publish(f, d, i, arg, k, p, Less(blk[d].count) + 1)
  /\ UNCHANGED <<job, after>>

ReplaceFile(path, arg, k, p) ==
  LET d == DirBlock(path)
      i == NamedEntry(d, arg)
      f == free \cup GivenBack(At(d, i)) IN
  /\ Idle
  /\ d # Null
  /\ Removable(d, i)
  /\ CanStore(f, p)
  /\ Publish(f, d, i, arg, k, p, Less(blk[d].count) + 1)
  /\ UNCHANGED <<job, after>>

\* The entry of slot i of directory d is marked inactive.
RemoveEntry(d, i, freed) ==
  /\ free' = free \cup freed
  /\ blk' = [blk EXCEPT ![d].entries[i] = Deleted, ![d].count = Less(@)]

\* "Not enough blocks" or "Too many data blocks".
ReplaceNoRoom(path, arg, p) ==
  LET d == DirBlock(path)
      i == NamedEntry(d, arg) IN
  /\ Idle
  /\ d # Null
  /\ Removable(d, i)
  /\ ~CanStore(free \cup GivenBack(At(d, i)), p)
  /\ RemoveEntry(d, i, GivenBack(At(d, i)))
  /\ UNCHANGED <<job, after>>

(***************************************************************************)
(* PRODOSGetFirstFreeEntry in a directory that is full: a block is taken   *)
(* and marked used, and its first entry returned; the block is linked to   *)
(* nothing, and what is then written to the entry cannot be found again.   *)
(***************************************************************************)
MustGrow(d, arg) == d # Null /\ NamedEntry(d, arg) = NoSlot /\ FreeEntry(d) = NoSlot /\ free # {}
Grown == Min(free)

WriteToGrownBlock(path, arg, p) ==
  LET d == DirBlock(path)
      f == free \ {Grown} IN
  /\ Idle
  /\ MustGrow(d, arg)
  /\ CanStore(f, p)
  /\ free' = FreeWithout(f, Found(f, p))
  /\ blk' = [BlocksWith(Found(f, p), p) EXCEPT ![d].count = @ + 1]
  /\ UNCHANGED <<job, after>>

\* The write, or a new directory, fails after the block was taken.
GrowForNothing(path, arg) ==
  LET d == DirBlock(path)
      f == free \ {Grown} IN
  /\ Idle
  /\ MustGrow(d, arg)
  /\ \/ \E p \in Payloads : ~CanStore(f, p)
     \/ f = {} \/ blk[Grown].tag # "blank"
  /\ free' = f
  /\ UNCHANGED <<blk, job, after>>

(***************************************************************************)
(* PRODOSCreateDirectory.  The count of the directory it is made in becomes*)
(* that of the volume plus one.  An entry in a grown block is refused when *)
(* what the block held last looks like an entry in use.                    *)
(***************************************************************************)
\* Mutant: it is laid out like the root directory.
NewDirBlockAsRoot == [tag |-> "dir", count |-> 0, entries |-> [i \in 1 .. RootSlots |-> Never]]
NewDirBlock == [tag |-> "dir", count |-> 0, entries |-> [i \in 1 .. SubSlots |-> Never]]

\* Mutant: the block is not marked used.
CreateUnmarked(path, arg) ==
  LET d == DirBlock(path) IN
  /\ Idle
  /\ Len(path) < MaxDepth
  /\ d # Null
  /\ NamedEntry(d, arg) = NoSlot
  /\ FreeEntry(d) # NoSlot
  /\ free # {}
  /\ blk' = [blk EXCEPT
       ![Min(free)] = NewDirBlock,
       ![d].entries[FreeEntry(d)] =
          [name |-> Stored(arg), st |-> "dir", key |-> Min(free), locked |-> FALSE],
       ![d].count = blk[Root].count + 1]
  /\ UNCHANGED <<free, job, after>>

CreateDirectory(path, arg) ==
  LET d == DirBlock(path) IN
  /\ Idle
  /\ Len(path) < MaxDepth
  /\ d # Null
  /\ NamedEntry(d, arg) = NoSlot
  /\ FreeEntry(d) # NoSlot
  /\ free # {}
  /\ free' = free \ {Min(free)}
  /\ blk' = [blk EXCEPT
       ![Min(free)] = NewDirBlock,
       ![d].entries[FreeEntry(d)] =
          [name |-> Stored(arg), st |-> "dir", key |-> Min(free), locked |-> FALSE],
       ![d].count = blk[Root].count + 1]
  /\ UNCHANGED <<job, after>>

CreateInGrownBlock(path, arg) ==
  LET d == DirBlock(path)
      f == free \ {Grown} IN
  /\ Idle
  /\ MustGrow(d, arg)
  /\ blk[Grown].tag # "dir"
  /\ f # {}
  /\ free' = f \ {Min(f)}
  /\ blk' = [blk EXCEPT ![Min(f)] = NewDirBlock, ![d].count = blk[Root].count + 1]
  /\ UNCHANGED <<job, after>>

\* PRODOSDeleteFile of a file.
DeleteFile(path, arg) ==
  LET d == DirBlock(path)
      i == NamedEntry(d, arg) IN
  /\ Idle
  /\ d # Null
  /\ Removable(d, i)
  /\ RemoveEntry(d, i, GivenBack(At(d, i)))
  /\ UNCHANGED <<job, after>>

(***************************************************************************)
(* PRODOSDeleteDirectory.  A frame of job is the entry of the directory    *)
(* that is removed, and the slots of the files in it that are still to be  *)
(* removed, as the catalog showed them at the start.  Every call looks up  *)
(* its path again, so a directory that the removals so far have hidden     *)
(* from the catalog is an error; the error ends all the calls.             *)
(***************************************************************************)
Frame(d, i) == [dir |-> d, slot |-> i, left |-> Shown(At(d, i).key)]

\* PRODOSDeleteFile, or PRODOSWriteFile, of a name that is a directory.
StartRemoval(path, arg) ==
  LET d == DirBlock(path)
      i == NamedEntry(d, arg) IN
  /\ Idle
  /\ d # Null
  /\ i # NoSlot /\ IsDir(At(d, i)) /\ ~At(d, i).locked
  /\ job' = <<Frame(d, i)>>
  /\ \/ after' = NoWrite
     \/ \E k \in Kinds, p \in Payloads :
          after' = [write |-> TRUE, dir |-> d, slot |-> i, name |-> arg, kind |-> k, payload |-> p]
  /\ UNCHANGED <<free, blk>>

Top == job[Len(job)]
TopDir == At(Top.dir, Top.slot).key
Callers == SubSeq(job, 1, Len(job) - 1)
PathShown == \A n \in DOMAIN job : job[n].slot \in Shown(job[n].dir)
Child == At(TopDir, Min(Top.left))
TopDone == [Top EXCEPT !.left = @ \ {Min(@)}]

\* Mutant: a locked file in the directory is removed like any other.
RemoveAnyFile ==
  /\ job # <<>> /\ Top.left # {} /\ PathShown
  /\ ~IsDir(Child)
  /\ RemoveEntry(TopDir, Min(Top.left), GivenBack(Child))
  /\ job' = Append(Callers, TopDone)
  /\ UNCHANGED after

RemoveFileInside ==
  /\ job # <<>> /\ Top.left # {} /\ PathShown
  /\ ~IsDir(Child) /\ ~Child.locked
  /\ RemoveEntry(TopDir, Min(Top.left), GivenBack(Child))
  /\ job' = Append(Callers, TopDone)
  /\ UNCHANGED after

\* A subdirectory is not asked for its access mode.
RemoveDirectoryInside ==
  /\ job # <<>> /\ Top.left # {} /\ PathShown
  /\ IsDir(Child)
  /\ job' = Append(Append(Callers, TopDone), Frame(TopDir, Min(Top.left)))
  /\ UNCHANGED <<free, blk, after>>

FinishRemoval ==
  /\ job # <<>> /\ Top.left = {} /\ PathShown
  /\ Shown(TopDir) = {}
  /\ RemoveEntry(Top.dir, Top.slot, {TopDir})
  /\ job' = Callers
  /\ UNCHANGED after

\* "Path not found", "Permission denied", "Could not delete all subfiles".
RemovalFails ==
  /\ job # <<>>
  /\ \/ ~PathShown
     \/ IF Top.left = {} THEN Shown(TopDir) # {} ELSE ~IsDir(Child) /\ Child.locked
  /\ job' = <<>>
  /\ after' = NoWrite
  /\ UNCHANGED <<free, blk>>

\* PRODOSWriteFile goes on where the directory was.
WriteAfterRemoval ==
  /\ job = <<>> /\ after # NoWrite
  /\ IF CanStore(free, after.payload)
     THEN Publish(free, after.dir, after.slot, after.name, after.kind, after.payload,
                  blk[after.dir].count + 1)
     ELSE UNCHANGED <<free, blk>>
  /\ after' = NoWrite
  /\ UNCHANGED job

\* PRODOSSetLocked, for the commands lock and unlock.
SetLocked(path, arg, lock) ==
  LET d == DirBlock(path)
      i == NamedEntry(d, arg) IN
  /\ Idle
  /\ d # Null /\ i # NoSlot
  /\ blk' = [blk EXCEPT ![d].entries[i].locked = lock]
  /\ UNCHANGED <<free, job, after>>

\* Mutant: the new name is not looked up.
RenameOntoFile(path, arg, newarg) ==
  LET d == DirBlock(path)
      i == NamedEntry(d, arg) IN
  /\ Idle
  /\ d # Null /\ i # NoSlot
  /\ blk' = [blk EXCEPT ![d].entries[i].name = Stored(newarg)]
  /\ UNCHANGED <<free, job, after>>

\* PRODOSRenameFile: the access mode is not looked at.
RenameFile(path, arg, newarg) ==
  LET d == DirBlock(path)
      i == NamedEntry(d, arg) IN
  /\ Idle
  /\ d # Null /\ i # NoSlot
  /\ NamedEntry(d, newarg) = NoSlot
  /\ blk' = [blk EXCEPT ![d].entries[i].name = Stored(newarg)]
  /\ UNCHANGED <<free, job, after>>

Next ==
  \/ \E path \in Path, arg \in Typed :
       \/ \E k \in Kinds, p \in Payloads :
            WriteNewFile(path, arg, k, p) \/ ReplaceFile(path, arg, k, p)
       \/ \E p \in Payloads : ReplaceNoRoom(path, arg, p) \/ WriteToGrownBlock(path, arg, p)
       \/ GrowForNothing(path, arg)
       \/ CreateDirectory(path, arg)
       \/ CreateInGrownBlock(path, arg)
       \/ DeleteFile(path, arg)
       \/ StartRemoval(path, arg)
       \/ \E lock \in BOOLEAN : SetLocked(path, arg, lock)
       \/ \E newarg \in Typed : RenameFile(path, arg, newarg)
  \/ RemoveFileInside
  \/ RemoveDirectoryInside
  \/ FinishRemoval
  \/ RemovalFails
  \/ WriteAfterRemoval

Spec == Init /\ [][Next]_vars
==============================================================================
