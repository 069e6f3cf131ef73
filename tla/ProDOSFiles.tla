------------------------------ MODULE ProDOSFiles ------------------------------
(***************************************************************************)
(* Reading a ProDOS volume back (PRODOSGetCatalog, PRODOSReadFile), the    *)
(* tree of directories and files on it, and what must be true of them.     *)
(***************************************************************************)
EXTENDS ProDOS, Functions

CONSTANTS
  Missing,   \* a name with no file
  Garbled    \* what is read is not what any command stored

ASSUME GarbledAssumption == Garbled \notin Payloads
ASSUME MissingAssumption ==
  Missing \notin [kind : Kinds, payload : Payloads \cup {Garbled}, locked : BOOLEAN]

\* The data blocks in the order PRODOSReadFileSectors reads them.
ReadOrder(e) == IF e.st = "seedling" THEN <<e.key>> ELSE Pointers(e)

\* Reading ends with the byte that the size in the entry says is the last.
Chunks(p) == (Size[p] + BlockBytes - 1) \div BlockBytes

Holds(e, p) ==
  LET order == ReadOrder(e) IN
  /\ e.size = Size[p]
  /\ Chunks(p) <= Len(order)
  /\ \A j \in 1 .. Chunks(p) : blk[order[j]] = [tag |-> "data", payload |-> p, chunk |-> j]

\* The first block tells which payload it can be.
Payload(e) ==
  LET first == IF ReadOrder(e) = <<>> THEN [tag |-> "blank"] ELSE blk[ReadOrder(e)[1]] IN
  IF first.tag = "data" /\ Holds(e, first.payload) THEN first.payload ELSE Garbled

\* The directories of the volume, shown or not.
Directories ==
  LET at[k \in 0 .. MaxDepth] ==
        IF k = 0 THEN {Root}
        ELSE at[k - 1] \cup
             UNION {{At(d, i).key : i \in {j \in InUse(d) : IsDir(At(d, j))}} : d \in at[k - 1]}
  IN  at[MaxDepth]

\* Those that PRODOSFindDirBlocks finds by their path.
ShownDirectories ==
  LET at[k \in 0 .. MaxDepth] ==
        IF k = 0 THEN {Root}
        ELSE at[k - 1] \cup
             UNION {{At(d, i).key : i \in {j \in Shown(d) : IsDir(At(d, j))}} : d \in at[k - 1]}
  IN  at[MaxDepth]

\* The entries in use, each with the directory it is in.
Entries == UNION {{<<d, i>> : i \in InUse(d)} : d \in Directories}
EntryOf(x) == At(x[1], x[2])

Occupied == UNION {Footprint(EntryOf(x)) : x \in Entries}

\* The files of the root directory by name: the refinement mapping.
FileNamed(n) ==
  LET i == NamedEntry(Root, n)
      e == At(Root, i) IN
  IF i = NoSlot \/ IsDir(e) THEN Missing
  ELSE [kind |-> e.kind, payload |-> Payload(e), locked |-> e.locked]

FilesInRoot == [n \in Names |-> FileNamed(n)]

Store == INSTANCE FileStore WITH files <- FilesInRoot, KeepsKind <- FALSE, HonoursLock <- TRUE

------------------------------------------------------------------------------
TypeOK ==
  /\ free \subseteq Block \ {Root}
  /\ \A b \in Block :
       \/ blk[b] = [tag |-> "blank"]
       \/ blk[b] \in [tag : {"data"}, payload : Payloads, chunk : Nat \ {0}]
       \/ blk[b].tag = "index" /\ Range(blk[b].ptrs) \subseteq Block
       \/ /\ blk[b].tag = "dir"
          /\ blk[b].count \in Nat
          /\ blk[b].entries \in [Slots(b) -> Entry \cup {Never, Deleted}]
  /\ \A n \in DOMAIN job : job[n].dir \in Block /\ job[n].left \subseteq Slots(Null)
  /\ after = NoWrite \/ (after.dir \in Block /\ after.slot \in Slots(after.dir))

\* A block that a file or a directory occupies, shown in the catalog or not,
\* is marked used: no later write can take it.  The bitmap, the entry and the
\* blocks are edited by different calls, and the bitmap last.
UsedMarked == free \cap Occupied = {}

\* No block belongs to two files or directories.
NoCrossLink ==
  \A x, y \in Entries : x # y => Footprint(EntryOf(x)) \cap Footprint(EntryOf(y)) = {}

\* Every file on the volume, whatever its directory and shown or not, reads
\* back as some put stored it.
ReadsBack ==
  \A x \in Entries : ~IsDir(EntryOf(x)) => Payload(EntryOf(x)) # Garbled

\* A directory names no file twice: a write looks its name up first, a rename
\* refuses a name that exists, also when the catalog does not show it.
UniqueNames ==
  \A d \in Directories : \A i, j \in InUse(d) : At(d, i).name = At(d, j).name => i = j

\* Every command does to the files of the root directory what FileStore says,
\* and a file that is locked is neither replaced nor removed; what goes on in
\* subdirectories, and in the removal of one, touches none of them.
ImplementsFileStore == Store!Spec

\* The blocks that are neither free nor in a file or a directory.
Lost == InitialFree \ (free \cup Occupied)

\* Blocks are lost in three ways only: a directory that is full takes a block
\* for itself (and for the file that goes into it); the last block of a full
\* index is not given back; what a removed directory held beyond what the
\* catalog showed goes with it.
OnlyKnownLeaks ==
  [][\A b \in Lost' \ Lost :
       \/ b \in free /\ \E d \in Directories : FreeEntry(d) = NoSlot
       \/ \E x \in Entries : \E j \in DOMAIN Pointers(EntryOf(x)) :
            b = Pointers(EntryOf(x))[j] /\ j = IndexSize
       \/ \E x \in Entries : b \in Footprint(EntryOf(x)) /\ x[1] \notin Directories']_vars

\* The removal of a directory stops at a file that is locked: a locked file
\* that the catalogs show, that of its directory and those on the path to it,
\* stays where it is, with the same contents, until it is unlocked or renamed.
LockedStays ==
  [][\A x \in Entries :
       (/\ ~IsDir(EntryOf(x)) /\ EntryOf(x).locked
        /\ x[1] \in ShownDirectories /\ x[2] \in Shown(x[1]))
         => /\ x \in Entries'
            /\ ~IsDir(EntryOf(x)') /\ EntryOf(x)'.key = EntryOf(x).key
            /\ Payload(EntryOf(x))' = Payload(EntryOf(x))]_vars
==============================================================================
