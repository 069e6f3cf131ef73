------------------------------- MODULE AppleDOS -------------------------------
(***************************************************************************)
(* A DOS 3.3 volume as disk/diskimageappledos.go edits it: the free map of *)
(* the VTOC, the catalog, and sectors that hold file data or track/sector  *)
(* (T/S) lists.  The image is edited in memory by one goroutine, so each   *)
(* exported method is one step; the error returns that change nothing are  *)
(* stuttering steps, the ones that change something are actions.           *)
(*                                                                         *)
(* A sector is its linear index track * SPT + sector.  Sector 0 (T0,S0) is *)
(* also the pair that ends a T/S list and the pointer that ends a chain.   *)
(* No sector of track 0 is ever free in the images considered: an entry    *)
(* whose list starts on track 0 looks like one that was never used.        *)
(***************************************************************************)
EXTENDS Integers, FiniteSets, Sequences

CONSTANTS
  NumSectors,    \* sectors of the volume
  CatalogTrack,  \* the sectors of the track of the VTOC and the catalog
  InitialFree,   \* the sectors the VTOC of the mounted image has free
  NumSlots,      \* entries of the catalog
  Names,         \* names of at most 30 characters, case folded
  LongNames,     \* longer names, which the user can type too
  Truncated,     \* the first 30 characters of a long name
  Kinds,         \* types of the files that are put, for instance BIN and TXT
  Payloads,      \* contents of files, with the header WriteFile prepends
  Size,          \* length of a payload in bytes
  SectorBytes,   \* STD_BYTES_PER_SECTOR
  MaxPairs,      \* T/S pairs of one list sector, VTOC byte 0x27
  Unused         \* an entry of the catalog that names no file

Sector == 0 .. NumSectors - 1
Null   == 0
Slot   == 1 .. NumSlots
NoSlot == 0
Typed  == Names \cup LongNames

\* What is stored of the name the user typed (FileDescriptor.SetName).
Stored(arg) == IF arg \in LongNames THEN Truncated[arg] ELSE arg

Entry == [name : Names, kind : Kinds, locked : BOOLEAN,
          start : Sector \ {Null}, total : Nat]

Content ==
  [tag : {"data"}, payload : Payloads, chunk : Nat \ {0}]
    \cup [tag : {"list"}, next : Sector, pairs : Seq(Sector)]
    \cup {[tag |-> "blank"]}

ASSUME VolumeAssumption ==
  /\ NumSectors \in Nat \ {0}
  /\ CatalogTrack \subseteq Sector
  /\ InitialFree \subseteq Sector \ {Null}
  /\ NumSlots \in Nat
ASSUME NameAssumption ==
  /\ Names \cap LongNames = {}
  /\ Truncated \in [LongNames -> Names]
ASSUME PayloadAssumption ==
  /\ Size \in [Payloads -> Nat \ {0}]
  /\ SectorBytes \in Nat \ {0}
  /\ MaxPairs \in Nat \ {0}
ASSUME UnusedAssumption == Unused \notin Entry

VARIABLES
  free,     \* sectors the bitmap of the VTOC marks free
  cat,      \* the catalog
  sec,      \* what each sector holds
  crashed   \* WriteFile dereferenced the nil entry of a full catalog

vars == <<free, cat, sec, crashed>>

------------------------------------------------------------------------------
(***************************************************************************)
(* The walk from the first T/S list of a file: the k-th list of the chain, *)
(* the null pointer after the last one.  A chain that closes on itself is  *)
(* walked around, so NumSectors hops reach every list it has.              *)
(***************************************************************************)
NextOf ==
  [s \in Sector |-> IF s # Null /\ sec[s].tag = "list" THEN sec[s].next ELSE Null]

Chain(next, start) ==
  LET hop[k \in 1 .. NumSectors] == IF k = 1 THEN start ELSE next[hop[k - 1]]
  IN  hop

\* Mutant: the null pointer that ends the chain is taken for a list.
ListSectorsAndNull(start) == {Chain(NextOf, start)[k] : k \in 1 .. NumSectors}

ListSectors(start) == {Chain(NextOf, start)[k] : k \in 1 .. NumSectors} \ {Null}

\* The pairs of a list up to the first null pair.
PairSet(s) ==
  IF sec[s].tag = "list"
  THEN {sec[s].pairs[i] : i \in {j \in DOMAIN sec[s].pairs :
                                   \A h \in 1 .. j : sec[s].pairs[h] # Null}}
  ELSE {}

DataSectors(start) == UNION {PairSet(s) : s \in ListSectors(start)}

InUse(i) == cat[i] # Unused

\* The sectors a file occupies, lists and data.
Footprint(i) == ListSectors(cat[i].start) \cup DataSectors(cat[i].start)

------------------------------------------------------------------------------
(***************************************************************************)
(* Lookups in the catalog, and the search for free sectors: the last track *)
(* first, the last sector of a track first, the catalog track skipped.     *)
(***************************************************************************)
First(S) == IF S = {} THEN NoSlot ELSE CHOOSE i \in S : \A j \in S : i <= j

NamedCatalogEntry(arg) == First({i \in Slot : InUse(i) /\ cat[i].name = arg})

NextFreeCatalogEntry == First({i \in Slot : ~InUse(i)})

DataBlocks(p) == (Size[p] \div SectorBytes) + 1
ListBlocks(p) == (DataBlocks(p) \div MaxPairs) + 1
\* Mutant: the lists are not counted.
DataBlocksOnly(p) == DataBlocks(p)
TotalBlocks(p) == ListBlocks(p) + DataBlocks(p)

\* Chunks of SectorBytes that the data loop writes.
Chunks(p) == (Size[p] + SectorBytes - 1) \div SectorBytes

Candidates(f) == f \ CatalogTrack
Position(f, s) == Cardinality({x \in Candidates(f) : x >= s})
HasRoom(f, p) == Cardinality(Candidates(f)) >= TotalBlocks(p)

\* The blocks GetFreeSectors returns: T/S lists first, then data.
Needed(f, j) == CHOOSE s \in Candidates(f) : Position(f, s) = j
ListAt(f, p, j) == Needed(f, j)
\* Mutant: the first data block is the last list.
DataAtEarly(f, p, j) == Needed(f, ListBlocks(p) + j - 1)
DataAt(f, p, j) == Needed(f, ListBlocks(p) + j)

\* Every T/S list is filled from the first data block on: the offset of the
\* list in the file is never advanced.
Linked(p) == IF MaxPairs >= DataBlocks(p) THEN DataBlocks(p) ELSE MaxPairs
ListContent(f, p, j) ==
  [tag   |-> "list",
   next  |-> IF j < ListBlocks(p) THEN ListAt(f, p, j + 1) ELSE Null,
   pairs |-> [i \in 1 .. Linked(p) |-> DataAt(f, p, i)]]

\* The image after the loops that write the data and the T/S lists.
SectorsWith(f, p) ==
  [s \in Sector |->
     IF \E j \in 1 .. ListBlocks(p) : s = ListAt(f, p, j)
     THEN ListContent(f, p, CHOOSE j \in 1 .. ListBlocks(p) : s = ListAt(f, p, j))
     ELSE IF \E j \in 1 .. Chunks(p) : s = DataAt(f, p, j)
     THEN [tag |-> "data", payload |-> p,
           chunk |-> CHOOSE j \in 1 .. Chunks(p) : s = DataAt(f, p, j)]
     ELSE sec[s]]

\* The bitmap after them: the data blocks that no list names stay free.
ListSet(f, p) == {ListAt(f, p, j) : j \in 1 .. ListBlocks(p)}
LinkedSet(f, p) == {DataAt(f, p, j) : j \in 1 .. Linked(p)}
\* Mutants: the lists, or the data blocks, are not marked used.
FreeWithoutLinked(f, p) == f \ LinkedSet(f, p)
FreeWithoutLists(f, p) == f \ ListSet(f, p)
FreeWithout(f, p) == f \ (ListSet(f, p) \cup LinkedSet(f, p))

\* The bitmap with the sectors of entry i given back.
FreeAfterRemove(i) == free \cup Footprint(i)

------------------------------------------------------------------------------
Init ==
  /\ free = InitialFree
  /\ cat = [i \in Slot |-> Unused]
  /\ sec = [s \in Sector |-> [tag |-> "blank"]]
  /\ crashed = FALSE

(***************************************************************************)
(* AppleDOSWriteFile.  A file of that name and type is removed before the  *)
(* space is looked for, and the bitmap read again; a file of that name and *)
(* another type is an error.  Nothing looks at the lock bit.               *)
(***************************************************************************)
\* Mutant: the bitmap is not read again after the removal.
FreeNotReread(i) == free
\* The bitmap in which the space is looked for.
FreeForWrite(i) == IF i = NoSlot THEN free ELSE FreeAfterRemove(i)

StoreFile(i, f, arg, k, p) ==
  /\ HasRoom(f, p)
  /\ sec' = SectorsWith(f, p)
  /\ free' = FreeWithout(f, p)
  /\ cat' = [cat EXCEPT ![i] = [name |-> Stored(arg), kind |-> k, locked |-> FALSE,
                                start |-> ListAt(f, p, 1), total |-> TotalBlocks(p)]]
  /\ UNCHANGED crashed

WriteNewFile(arg, k, p) ==
  /\ ~crashed
  /\ NamedCatalogEntry(arg) = NoSlot
  /\ NextFreeCatalogEntry # NoSlot
  /\ StoreFile(NextFreeCatalogEntry, FreeForWrite(NoSlot), arg, k, p)

ReplaceFile(arg, k, p) ==
  LET i == NamedCatalogEntry(arg) IN
  /\ ~crashed
  /\ i # NoSlot
  /\ cat[i].kind = k
  /\ StoreFile(i, FreeForWrite(i), arg, k, p)

\* "Insufficent space", returned after the old file was removed.
ReplaceNoRoom(arg, k, p) ==
  LET i == NamedCatalogEntry(arg) IN
  /\ ~crashed
  /\ i # NoSlot
  /\ cat[i].kind = k
  /\ ~HasRoom(FreeForWrite(i), p)
  /\ free' = FreeAfterRemove(i)
  /\ cat' = [cat EXCEPT ![i] = Unused]
  /\ UNCHANGED <<sec, crashed>>

\* The end of the catalog chain returns a nil entry with a nil error: the
\* sectors are written and marked, then the entry is dereferenced.
WriteCatalogFull(arg, p) ==
  /\ ~crashed
  /\ NamedCatalogEntry(arg) = NoSlot
  /\ NextFreeCatalogEntry = NoSlot
  /\ HasRoom(free, p)
  /\ sec' = SectorsWith(free, p)
  /\ free' = FreeWithout(free, p)
  /\ crashed' = TRUE
  /\ UNCHANGED cat

\* AppleDOSDeleteFile.
DeleteFile(arg) ==
  LET i == NamedCatalogEntry(arg) IN
  /\ ~crashed
  /\ i # NoSlot
  /\ free' = FreeAfterRemove(i)
  /\ cat' = [cat EXCEPT ![i] = Unused]
  /\ UNCHANGED <<sec, crashed>>

\* AppleDOSSetLocked, for the commands lock and unlock.
SetLocked(arg, lock) ==
  LET i == NamedCatalogEntry(arg) IN
  /\ ~crashed
  /\ i # NoSlot
  /\ cat' = [cat EXCEPT ![i].locked = lock]
  /\ UNCHANGED <<free, sec, crashed>>

\* Mutant: the new name is not looked up.
RenameOntoFile(arg, newarg) ==
  LET i == NamedCatalogEntry(arg) IN
  /\ ~crashed
  /\ i # NoSlot
  /\ cat' = [cat EXCEPT ![i].name = Stored(newarg)]
  /\ UNCHANGED <<free, sec, crashed>>

\* AppleDOSRenameFile: the full new name is looked up, its first 30
\* characters are stored.
RenameFile(arg, newarg) ==
  LET i == NamedCatalogEntry(arg) IN
  /\ ~crashed
  /\ i # NoSlot
  /\ NamedCatalogEntry(newarg) = NoSlot
  /\ cat' = [cat EXCEPT ![i].name = Stored(newarg)]
  /\ UNCHANGED <<free, sec, crashed>>

Next ==
  \E arg \in Typed :
    \/ \E k \in Kinds, p \in Payloads :
         \/ WriteNewFile(arg, k, p)
         \/ ReplaceFile(arg, k, p)
         \/ ReplaceNoRoom(arg, k, p)
    \/ \E p \in Payloads : WriteCatalogFull(arg, p)
    \/ DeleteFile(arg)
    \/ \E lock \in BOOLEAN : SetLocked(arg, lock)
    \/ \E newarg \in Typed : RenameFile(arg, newarg)

Spec == Init /\ [][Next]_vars

------------------------------------------------------------------------------
TypeOK ==
  /\ free \in SUBSET (Sector \ {Null})
  /\ cat \in [Slot -> Entry \cup {Unused}]
  /\ sec \in [Sector -> Content]
  /\ crashed \in BOOLEAN

\* A sector that a file occupies is marked used: no later write can take it.
\* (The bitmap and the T/S lists are edited by different loops of WriteFile,
\* and given back by two copies of the removal code.)
UsedMarked == \A i \in Slot : InUse(i) => Footprint(i) \cap free = {}

\* No sector belongs to two files.
NoCrossLink ==
  \A i, j \in Slot : InUse(i) /\ InUse(j) /\ i # j => Footprint(i) \cap Footprint(j) = {}

\* Unless the program crashed in a write, every sector that was free in the
\* mounted image is still free or belongs to a file: replacing, removing and
\* failing to write leak nothing, and give back nothing that was not theirs.
NoLeak ==
  crashed \/ InitialFree = free \cup UNION {Footprint(i) : i \in {j \in Slot : InUse(j)}}
==============================================================================
