----------------------------- MODULE ProDOS_proofs -----------------------------
(***************************************************************************)
(* The ProDOS volume is safe for every volume size, directory size, depth  *)
(* of directories, set of names and files of any length: the bitmap, the   *)
(* entries and the blocks they name agree after every command, and between *)
(* the steps of the removal of a directory.                                *)
(***************************************************************************)
EXTENDS ProDOSFiles, NumberLemmas

Content(b) ==
  [tag : {"blank"}]
    \cup [tag : {"data"}, payload : Payloads, chunk : Nat \ {0}]
    \cup [tag : {"index"}, ptrs : Seq(Block)]
    \cup [tag : {"dir"}, count : Nat, entries : [Slots(b) -> Entry \cup {Never, Deleted}]]

Frames  == [dir : Block, slot : Nat, left : SUBSET Slots(Null)]
Pending == [write : {TRUE}, dir : Block, slot : Nat, name : Typed, kind : Kinds,
            payload : Payloads]

IsDirBlock(b) == b \in Block /\ blk[b].tag = "dir"

\* What each variable holds.
ImageTyped ==
  /\ free \in SUBSET (Block \ {Root})
  /\ blk = [b \in Block |-> blk[b]]
  /\ \A b \in Block : blk[b] \in Content(b)
  /\ IsDirBlock(Root)

CallsTyped ==
  /\ job \in Seq(Frames)
  /\ after \in {NoWrite} \cup Pending

(***************************************************************************)
(* The inductive invariant is about every directory block of the image,    *)
(* on the volume or not: a removed directory keeps the entries the catalog *)
(* did not show, and they keep what they occupy.                           *)
(***************************************************************************)
Used(d, i) == IsDirBlock(d) /\ i \in InUse(d)

\* The file of an entry, as PRODOSWriteFile stores it.
Stores(e, p) ==
  /\ e.size = Size[p] /\ DataBlocks(p) <= IndexSize
  /\ \/ /\ e.st = "seedling"
        /\ DataBlocks(p) = 1
        /\ blk[e.key] = [tag |-> "data", payload |-> p, chunk |-> 1]
     \/ /\ e.st = "sapling"
        /\ blk[e.key].tag = "index"
        /\ Len(blk[e.key].ptrs) = DataBlocks(p)
        /\ \A j \in 1 .. DataBlocks(p) :
             blk[blk[e.key].ptrs[j]] = [tag |-> "data", payload |-> p, chunk |-> j]

Whole(e) == IF e.st = "dir" THEN IsDirBlock(e.key) ELSE \E p \in Payloads : Stores(e, p)

EntriesWhole == \A d \in Block : \A i \in Slots(d) : Used(d, i) => Whole(At(d, i))

EntriesMarked ==
  \A d \in Block : \A i \in Slots(d) :
    Used(d, i) => Footprint(At(d, i)) \cap (free \cup {Root}) = {}

EntriesApart ==
  \A c, d \in Block : \A i \in Slots(c), j \in Slots(d) :
    /\ Used(c, i) /\ Used(d, j)
    /\ Footprint(At(c, i)) \cap Footprint(At(d, j)) # {}
    => c = d /\ i = j

\* Directories nest: none is inside itself.
Nested(depth) ==
  \A d \in Block : \A i \in Slots(d) :
    Used(d, i) /\ IsDir(At(d, i)) => depth[d] < depth[At(d, i).key]

\* A directory that a write may go to: the root, or one that has an entry.
Linked(d) ==
  \/ d = Root
  \/ \E c \in Block : \E i \in Slots(c) : Used(c, i) /\ IsDir(At(c, i)) /\ At(c, i).key = d

\* The calls that have not returned: each is about an entry of the directory
\* that the call before it removes, and none removes what another still needs.
KeyOf(n) == At(job[n].dir, job[n].slot).key

CallsNest(depth) ==
  /\ \A n \in DOMAIN job :
       /\ Used(job[n].dir, job[n].slot) /\ IsDir(At(job[n].dir, job[n].slot))
       /\ job[n].left \subseteq InUse(KeyOf(n))
  /\ \A n \in DOMAIN job : n + 1 \in DOMAIN job =>
       job[n + 1].dir = KeyOf(n) /\ job[n + 1].slot \notin job[n].left
  /\ \A m, n \in DOMAIN job : m < n => depth[job[m].dir] < depth[job[n].dir]

WriteReady ==
  after # NoWrite =>
    /\ Linked(after.dir) /\ after.dir \in Directories
    /\ after.slot \in Slots(after.dir)
    /\ IF job = <<>> THEN after.slot \notin InUse(after.dir)
                     ELSE after.dir = job[1].dir /\ after.slot = job[1].slot

Inv ==
  /\ ImageTyped /\ CallsTyped
  /\ EntriesWhole /\ EntriesMarked /\ EntriesApart
  /\ \E depth \in [Block -> Nat] : Nested(depth) /\ CallsNest(depth)
  /\ WriteReady

\* No two entries in use of a directory have one name, and a write that waits
\* for a directory to go has the name for itself.
NamesApart ==
  /\ \A d \in Block : IsDirBlock(d) =>
       \A i, j \in InUse(d) : At(d, i).name = At(d, j).name => i = j
  /\ after # NoWrite =>
       /\ IsDirBlock(after.dir)
       /\ \A i \in InUse(after.dir) : At(after.dir, i).name = after.name => i = after.slot
------------------------------------------------------------------------------
(* What a search for a slot returns.                                       *)
LEMMA FirstOf ==
  ASSUME NEW d, NEW S \in SUBSET Slots(d)
  PROVE  /\ First(S) \in S \cup {NoSlot}
         /\ First(S) = NoSlot <=> S = {}
<1>1. S \in SUBSET Nat /\ NoSlot \notin S
  BY VolumeAssumption DEF Slots, NoSlot
<1>2. CASE S = {}
  BY <1>2 DEF First
<1>3. CASE S # {}
  <2>1. \E i \in S : \A j \in S : i <= j
    BY <1>1, <1>3, LeastElement
  <2>2. First(S) \in S
    BY <1>3, <2>1 DEF First, Min
  <2> QED BY <1>1, <1>3, <2>2
<1> QED BY <1>2, <1>3

LEMMA NamedEntryOf ==
  ASSUME NEW d, NEW arg
  PROVE  /\ NamedEntry(d, arg) # NoSlot =>
              /\ NamedEntry(d, arg) \in InUse(d)
              /\ At(d, NamedEntry(d, arg)).name = arg
         /\ NamedEntry(d, arg) = NoSlot => \A i \in InUse(d) : At(d, i).name # arg
<1> DEFINE S == {i \in InUse(d) : At(d, i).name = arg}
<1>1. S \in SUBSET Slots(d)
  BY DEF InUse
<1>2. First(S) \in S \cup {NoSlot} /\ (First(S) = NoSlot <=> S = {})
  BY <1>1, FirstOf
<1> QED BY <1>2 DEF NamedEntry

LEMMA FreeEntryOf ==
  ASSUME NEW d, FreeEntry(d) # NoSlot
  PROVE  FreeEntry(d) \in Slots(d) /\ FreeEntry(d) \notin InUse(d)
<1> DEFINE S == Slots(d) \ InUse(d)
<1>1. First(S) \in S \cup {NoSlot}
  BY FirstOf
<1> QED BY <1>1 DEF FreeEntry

LEMMA LowestBlock ==
  ASSUME NEW f \in SUBSET Block, f # {}
  PROVE  Min(f) \in f
<1>1. f \in SUBSET Nat
  BY VolumeAssumption DEF Block
<1>2. \E i \in f : \A j \in f : i <= j
  BY <1>1, LeastElement
<1> QED BY <1>2 DEF Min

LEMMA StoredName ==
  ASSUME NEW arg \in Typed
  PROVE  Stored(arg) \in Names /\ (LongNames = {} => Stored(arg) = arg)
BY NameAssumption DEF Typed, Stored

LEMMA CountAfter ==
  ASSUME NEW c \in Nat
  PROVE  Less(c) \in Nat
BY PayloadAssumption DEF Less

(* The search for free blocks finds as many as are asked for, each once.   *)
LEMMA BlocksFound ==
  ASSUME NEW f \in SUBSET Block, NEW n \in Nat, n <= Cardinality(f)
  PROVE  /\ FreeBlocks(f, n) \in [1 .. n -> f]
         /\ \A j, k \in 1 .. n : FreeBlocks(f, n)[j] = FreeBlocks(f, n)[k] => j = k
<1> DEFINE rank(b) == Cardinality({x \in f : x <= b})
           found == FreeBlocks(f, n)
<1>1. f \in SUBSET Nat /\ IsFiniteSet(f)
  <2>1. IsFiniteSet(Block)
    BY VolumeAssumption, FS_Interval DEF Block
  <2>2. f \in SUBSET Nat
    BY VolumeAssumption DEF Block
  <2> QED BY <2>1, <2>2, FS_Subset
<1>2. Cardinality(f) \in Nat
  BY <1>1, FS_CardinalityType
<1>3. \A j \in 1 .. n : \E b \in f : rank(b) = j
  BY <1>1, <1>2, RankFromBelow
<1>4. found = [j \in 1 .. n |-> CHOOSE b \in f : rank(b) = j]
  BY DEF FreeBlocks
<1> HIDE DEF rank, found
<1>5. \A j \in 1 .. n : found[j] \in f /\ rank(found[j]) = j
  BY <1>3, <1>4
<1>6. found \in [1 .. n -> f]
  BY <1>4, <1>5
<1> QED BY <1>5, <1>6 DEF found
------------------------------------------------------------------------------
(* The entries of a well-typed image.                                      *)
LEMMA EntryTyped ==
  ASSUME ImageTyped, NEW d, NEW i, Used(d, i)
  PROVE  /\ d \in Block /\ i \in Slots(d)
         /\ At(d, i) \in Entry
         /\ At(d, i).key \in Block
         /\ At(d, i).st \in {"dir", "seedling", "sapling"}
         /\ At(d, i).st # "dir" => At(d, i).size \in Nat
<1>1. /\ d \in Block /\ blk[d].tag = "dir" /\ i \in Slots(d)
      /\ At(d, i) # Never /\ At(d, i) # Deleted
  BY DEF Used, IsDirBlock, InUse, IsEntry
<1>2. blk[d] \in Content(d)
  BY <1>1 DEF ImageTyped
<1>3. blk[d].entries \in [Slots(d) -> Entry \cup {Never, Deleted}]
  BY <1>1, <1>2 DEF Content
<1>4. At(d, i) \in Entry
  BY <1>1, <1>3 DEF At
<1> QED BY <1>1, <1>4 DEF Entry

(* A directory that a write may go to is in use, and holds no file.        *)
LEMMA LinkedBlock ==
  ASSUME ImageTyped, EntriesWhole, EntriesMarked, NEW d, Linked(d)
  PROVE  /\ IsDirBlock(d) /\ d \notin free
<1>1. CASE d = Root
  BY <1>1 DEF ImageTyped
<1>2. CASE d # Root
  <2>1. PICK c \in Block :
          \E i \in Slots(c) : Used(c, i) /\ IsDir(At(c, i)) /\ At(c, i).key = d
    BY <1>2 DEF Linked
  <2>2. PICK i \in Slots(c) : Used(c, i) /\ IsDir(At(c, i)) /\ At(c, i).key = d
    BY <2>1
  <2>3. Whole(At(c, i))
    BY <2>2 DEF EntriesWhole
  <2>4. IsDirBlock(d)
    BY <2>2, <2>3 DEF Whole, IsDir
  <2>5. d \in Footprint(At(c, i))
    BY <2>2 DEF Footprint
  <2>6. d \notin free
    BY <2>2, <2>5 DEF EntriesMarked
  <2> QED BY <2>4, <2>6
<1> QED BY <1>1, <1>2

(* What an entry occupies is on the volume.                                *)
LEMMA FootprintInBlocks ==
  ASSUME ImageTyped, NEW e, e.key \in Block
  PROVE  Footprint(e) \subseteq Block
<1> SUFFICES ASSUME NEW b \in Footprint(e) PROVE b \in Block
  OBVIOUS
<1>1. CASE b = e.key
  BY <1>1
<1>2. CASE b # e.key
  <2>1. PICK k \in DOMAIN Pointers(e) : b = Pointers(e)[k]
    BY <1>2 DEF Footprint
  <2>2. blk[e.key].tag = "index" /\ Pointers(e) = blk[e.key].ptrs
    BY <2>1 DEF Pointers
  <2>3. Pointers(e) \in Seq(Block)
    BY <2>2 DEF ImageTyped, Content
  <2> QED BY <2>1, <2>3
<1> QED BY <1>1, <1>2

(* What a file occupies is an index block and data blocks, no directory.   *)
LEMMA FileBlocks ==
  ASSUME ImageTyped, NEW e, e.key \in Block, e.st # "dir", Whole(e),
         NEW b \in Footprint(e)
  PROVE  blk[b].tag \in {"data", "index"}
<1>1. PICK p \in Payloads : Stores(e, p)
  BY DEF Whole
<1>2. CASE b = e.key
  BY <1>1, <1>2 DEF Stores
<1>3. CASE b # e.key
  <2>1. PICK j \in DOMAIN Pointers(e) : b = Pointers(e)[j]
    BY <1>3 DEF Footprint
  <2>2. e.st = "sapling" /\ blk[e.key].tag = "index" /\ Pointers(e) = blk[e.key].ptrs
    BY <2>1 DEF Pointers
  <2>3. e.key \in Block => DOMAIN Pointers(e) = 1 .. DataBlocks(p)
    BY <1>1, <2>2 DEF Stores, ImageTyped, Content
  <2>4. \A k \in 1 .. DataBlocks(p) :
          blk[blk[e.key].ptrs[k]] = [tag |-> "data", payload |-> p, chunk |-> k]
    BY <1>1, <2>2 DEF Stores
  <2>5. j \in 1 .. DataBlocks(p) /\ b = blk[e.key].ptrs[j]
    BY <2>1, <2>2, <2>3
  <2>6. blk[b] = [tag |-> "data", payload |-> p, chunk |-> j]
    BY <2>4, <2>5
  <2> QED BY <2>6
<1> QED BY <1>2, <1>3
------------------------------------------------------------------------------
(***************************************************************************)
(* What all commands have in common: an entry of one directory changes,    *)
(* the blocks W that were free, or that the entry occupied, are written,   *)
(* and the bitmap gains at most what the entry occupied.                   *)
(***************************************************************************)
Edit(W, d, i, gone) ==
  /\ gone # {} => Used(d, i) /\ gone \subseteq Footprint(At(d, i))
  /\ W \subseteq free \cup gone
  /\ free' \subseteq (free \cup gone) \ W
  /\ IsDirBlock(d) /\ d \notin W
  /\ IsDirBlock(d)' /\ \A j \in Slots(d) \ {i} : blk'[d].entries[j] = blk[d].entries[j]
  /\ \A b \in Block \ (W \cup {d}) : blk'[b] = blk[b]
  /\ \A b \in W : blk'[b].tag = "dir" => \A j \in Slots(b) : blk'[b].entries[j] = Never

\* The entry of slot i of directory d is about the same blocks as before.
SameFile(d, i) ==
  /\ Used(d, i)
  /\ At(d, i)'.st = At(d, i).st
  /\ At(d, i)'.key = At(d, i).key
  /\ At(d, i).st # "dir" => At(d, i)'.size = At(d, i).size

\* A file whose blocks are not written, except that a directory may change,
\* keeps its blocks and its contents.
LEMMA FileFrame ==
  ASSUME ImageTyped, NEW e, NEW f, e.key \in Block, Whole(e),
         f.st = e.st, f.key = e.key, e.st # "dir" => f.size = e.size,
         e.st \in {"dir", "seedling", "sapling"},
         \A b \in Footprint(e) : blk'[b] = blk[b] \/ (IsDirBlock(b) /\ IsDirBlock(b)')
  PROVE  /\ Footprint(f)' = Footprint(e) /\ Whole(f)'
         /\ e.st # "dir" => \A p \in Payloads : Stores(e, p) => Stores(f, p)'
<1>1. CASE e.st = "dir"
  <2>1. Footprint(e) = {e.key} /\ Footprint(f)' = {f.key}
    BY <1>1 DEF Footprint, Pointers
  <2>2. IsDirBlock(e.key)
    BY <1>1 DEF Whole
  <2>3. IsDirBlock(e.key)'
    BY <2>1, <2>2 DEF IsDirBlock
  <2> QED BY <1>1, <2>1, <2>3 DEF Whole
<1>2. CASE e.st # "dir"
  <2>1. \A b \in Footprint(e) : blk'[b] = blk[b]
    BY <1>2, FileBlocks DEF IsDirBlock
  <2>2. e.key \in Footprint(e)
    BY DEF Footprint
  <2>3. Pointers(f)' = Pointers(e)
    BY <2>1, <2>2 DEF Pointers
  <2>4. Footprint(f)' = Footprint(e)
    BY <2>3 DEF Footprint
  <2>5. ASSUME NEW p \in Payloads, Stores(e, p) PROVE Stores(f, p)'
    <3>1. CASE e.st = "seedling"
      BY <1>2, <2>1, <2>2, <2>5, <3>1 DEF Stores
    <3>2. CASE e.st = "sapling"
      <4> DEFINE q == blk[e.key].ptrs
      <4>1. /\ e.size = Size[p] /\ DataBlocks(p) <= IndexSize
            /\ blk[e.key].tag = "index" /\ Len(q) = DataBlocks(p)
            /\ \A j \in 1 .. DataBlocks(p) :
                 blk[q[j]] = [tag |-> "data", payload |-> p, chunk |-> j]
        BY <2>5, <3>2 DEF Stores
      <4>2. Pointers(e) = q
        BY <3>2, <4>1 DEF Pointers
      <4>3. DOMAIN q = 1 .. DataBlocks(p)
        BY <4>1 DEF ImageTyped, Content
      <4>4. \A j \in 1 .. DataBlocks(p) : q[j] \in Footprint(e)
        BY <4>2, <4>3 DEF Footprint
      <4>5. blk'[f.key] = blk[e.key]
        BY <2>1, <2>2
      <4> HIDE DEF q
      <4>6. \A j \in 1 .. DataBlocks(p) :
               blk'[q[j]] = [tag |-> "data", payload |-> p, chunk |-> j]
        BY <2>1, <4>1, <4>4
      <4>7. blk'[f.key].ptrs = q
        BY <4>5 DEF q
      <4> QED BY <1>2, <3>2, <4>1, <4>5, <4>6, <4>7 DEF Stores
    <3> QED BY <1>2, <3>1, <3>2
  <2>6. Whole(f)'
    <3>1. PICK p \in Payloads : Stores(e, p)
      BY <1>2 DEF Whole
    <3>2. Stores(f, p)'
      BY <2>5, <3>1
    <3> QED BY <1>2, <3>2 DEF Whole
  <2> QED BY <2>4, <2>5, <2>6
<1> QED BY <1>1, <1>2

\* The entries that a command does not change.
LEMMA OtherEntries ==
  ASSUME ImageTyped, EntriesWhole, EntriesMarked, EntriesApart,
         NEW W, NEW d, NEW i, NEW gone, Edit(W, d, i, gone),
         NEW c, NEW j, Used(c, j)', ~(c = d /\ j = i)
  PROVE  /\ Used(c, j) /\ At(c, j)' = At(c, j)
         /\ Footprint(At(c, j)) \cap (free \cup gone \cup {Root}) = {}
         /\ Footprint(At(c, j))' = Footprint(At(c, j))
         /\ Whole(At(c, j))'
         /\ ~IsDir(At(c, j)) => \A p \in Payloads : Stores(At(c, j), p) => Stores(At(c, j), p)'
<1>1. c \in Block /\ blk'[c].tag = "dir" /\ j \in Slots(c) /\ IsEntry(At(c, j)')
  BY DEF Used, IsDirBlock, InUse
<1>2. c \notin W
  BY <1>1 DEF Edit, IsEntry, At
<1>3. Used(c, j) /\ At(c, j)' = At(c, j)
  <2>1. CASE c = d
    BY <1>1, <2>1 DEF Edit, Used, InUse, At
  <2>2. CASE c # d
    <3>1. blk'[c] = blk[c]
      BY <1>1, <1>2, <2>2 DEF Edit
    <3> QED BY <1>1, <3>1 DEF Used, IsDirBlock, InUse, At
  <2> QED BY <2>1, <2>2
<1> PICK e : e = At(c, j)
  OBVIOUS
<1>4. e.key \in Block /\ e.st \in {"dir", "seedling", "sapling"}
  BY <1>3, EntryTyped
<1>5. Whole(e) /\ Footprint(e) \cap (free \cup {Root}) = {}
  BY <1>1, <1>3 DEF EntriesWhole, EntriesMarked
<1>6. Footprint(e) \cap gone = {}
  <2> SUFFICES ASSUME gone # {} PROVE Footprint(e) \cap gone = {}
    OBVIOUS
  <2>1. Used(d, i) /\ gone \subseteq Footprint(At(d, i))
    BY DEF Edit
  <2>2. d \in Block /\ i \in Slots(d)
    BY <2>1 DEF Used, IsDirBlock, InUse
  <2>3. Footprint(e) \cap Footprint(At(d, i)) = {}
    BY <1>1, <1>3, <2>1, <2>2 DEF EntriesApart
  <2> QED BY <2>1, <2>3
<1>7. \A b \in Footprint(e) : b \in Block
  BY <1>4, FootprintInBlocks
<1>8. \A b \in Footprint(e) : blk'[b] = blk[b] \/ (IsDirBlock(b) /\ IsDirBlock(b)')
  <2> TAKE b \in Footprint(e)
  <2>1. b \notin W
    BY <1>5, <1>6 DEF Edit
  <2> QED BY <1>7, <2>1 DEF Edit
<1>9. /\ Footprint(e)' = Footprint(e) /\ Whole(e)'
      /\ e.st # "dir" => \A p \in Payloads : Stores(e, p) => Stores(e, p)'
  BY <1>4, <1>5, <1>8, FileFrame
<1>10. Footprint(At(c, j))' = Footprint(e)' /\ (Whole(At(c, j))' <=> Whole(e)')
  BY <1>3 DEF Footprint, Pointers, Whole, Stores, IsDirBlock
<1>11. \A p : Stores(At(c, j), p)' <=> Stores(e, p)'
  BY <1>3 DEF Stores
<1>12. IsEntry(e)
  BY <1>3 DEF Used, InUse
<1>13. ~IsDir(At(c, j)) => e.st # "dir"
  BY <1>12 DEF IsDir
<1> QED BY <1>3, <1>5, <1>6, <1>9, <1>10, <1>11, <1>13

\* The entry that a command changes is in order when it is about blocks that
\* were written for it, or about the same blocks as before.
Fresh(W, d, i) == Footprint(At(d, i))' \subseteq W /\ Whole(At(d, i))'
Edited(W, d, i, gone) == Used(d, i)' => Fresh(W, d, i) \/ (SameFile(d, i) /\ gone = {})

LEMMA EditedEntry ==
  ASSUME ImageTyped, EntriesWhole, EntriesMarked, EntriesApart,
         NEW W, NEW d, NEW i, NEW gone, Edit(W, d, i, gone), Edited(W, d, i, gone),
         Used(d, i)'
  PROVE  /\ Whole(At(d, i))'
         /\ Footprint(At(d, i))' \cap (free' \cup {Root}) = {}
         /\ \A c, j : Used(c, j)' /\ ~(c = d /\ j = i) =>
              Footprint(At(c, j))' \cap Footprint(At(d, i))' = {}
<1>1. CASE Fresh(W, d, i)
  <2>1. W \cap (free' \cup {Root}) = {}
    <3>1. Root \notin free
      BY DEF ImageTyped
    <3>2. Root \notin gone
      <4> SUFFICES ASSUME gone # {} PROVE Root \notin gone
        OBVIOUS
      <4>1. Used(d, i) /\ gone \subseteq Footprint(At(d, i))
        BY DEF Edit
      <4>2. d \in Block /\ i \in Slots(d)
        BY <4>1 DEF Used, IsDirBlock, InUse
      <4> QED BY <4>1, <4>2 DEF EntriesMarked
    <3> QED BY <3>1, <3>2 DEF Edit
  <2>2. ASSUME NEW c, NEW j, Used(c, j)', ~(c = d /\ j = i)
        PROVE  Footprint(At(c, j))' \cap W = {}
    <3>1. /\ Footprint(At(c, j)) \cap (free \cup gone) = {}
          /\ Footprint(At(c, j))' = Footprint(At(c, j))
      BY <2>2, OtherEntries
    <3> QED BY <3>1 DEF Edit
  <2> QED BY <1>1, <2>1, <2>2 DEF Fresh
<1>2. CASE ~Fresh(W, d, i)
  <2>1. SameFile(d, i) /\ gone = {}
    BY <1>2 DEF Edited
  <2>2. PICK e, f : e = At(d, i) /\ f = At(d, i)'
    OBVIOUS
  <2>3. /\ d \in Block /\ i \in Slots(d) /\ Used(d, i)
        /\ e.key \in Block /\ e.st \in {"dir", "seedling", "sapling"}
    BY <2>1, <2>2, EntryTyped DEF SameFile
  <2>4. Whole(e) /\ Footprint(e) \cap (free \cup {Root}) = {}
    BY <2>2, <2>3 DEF EntriesWhole, EntriesMarked
  <2>5. W \subseteq free /\ free' \subseteq free
    BY <2>1 DEF Edit
  <2>6. \A b \in Footprint(e) : blk'[b] = blk[b] \/ (IsDirBlock(b) /\ IsDirBlock(b)')
    <3> TAKE b \in Footprint(e)
    <3>1. b \in Block /\ b \notin W
      BY <2>3, <2>4, <2>5, FootprintInBlocks
    <3> QED BY <3>1 DEF Edit
  <2>7. f.st = e.st /\ f.key = e.key /\ (e.st # "dir" => f.size = e.size)
    BY <2>1, <2>2 DEF SameFile
  <2>8. Footprint(f)' = Footprint(e) /\ Whole(f)'
    BY <2>3, <2>4, <2>6, <2>7, FileFrame
  <2>9. Footprint(At(d, i))' = Footprint(f)' /\ (Whole(At(d, i))' <=> Whole(f)')
    BY <2>2 DEF Footprint, Pointers, Whole, Stores, IsDirBlock
  <2>10. ASSUME NEW c, NEW j, Used(c, j)', ~(c = d /\ j = i)
         PROVE  Footprint(At(c, j))' \cap Footprint(e) = {}
    <3>1. Used(c, j) /\ Footprint(At(c, j))' = Footprint(At(c, j))
      BY <2>10, OtherEntries
    <3>2. c \in Block /\ j \in Slots(c)
      BY <3>1 DEF Used, IsDirBlock, InUse
    <3> QED BY <2>2, <2>3, <2>10, <3>1, <3>2 DEF EntriesApart
  <2> QED BY <2>4, <2>5, <2>8, <2>9, <2>10
<1> QED BY <1>1, <1>2

\* The entries stay whole, marked and apart.
LEMMA EditKeeps ==
  ASSUME ImageTyped, EntriesWhole, EntriesMarked, EntriesApart,
         NEW W, NEW d, NEW i, NEW gone, Edit(W, d, i, gone), Edited(W, d, i, gone)
  PROVE  EntriesWhole' /\ EntriesMarked' /\ EntriesApart'
<1>1. ASSUME NEW c, NEW j, Used(c, j)'
      PROVE  Whole(At(c, j))' /\ Footprint(At(c, j))' \cap (free' \cup {Root}) = {}
  <2>1. CASE c = d /\ j = i
    BY <1>1, <2>1, EditedEntry
  <2>2. CASE ~(c = d /\ j = i)
    <3>1. /\ Footprint(At(c, j)) \cap (free \cup gone \cup {Root}) = {}
          /\ Footprint(At(c, j))' = Footprint(At(c, j)) /\ Whole(At(c, j))'
      BY <1>1, <2>2, OtherEntries
    <3>2. free' \subseteq free \cup gone
      BY DEF Edit
    <3> QED BY <3>1, <3>2
  <2> QED BY <2>1, <2>2
<1>2. ASSUME NEW c, NEW j, Used(c, j)', NEW x, NEW y, Used(x, y)',
             ~(c = x /\ j = y)
      PROVE  Footprint(At(c, j))' \cap Footprint(At(x, y))' = {}
  <2>1. CASE c = d /\ j = i
    BY <1>2, <2>1, EditedEntry
  <2>2. CASE x = d /\ y = i
    BY <1>2, <2>2, EditedEntry
  <2>3. CASE ~(c = d /\ j = i) /\ ~(x = d /\ y = i)
    <3>1. Used(c, j) /\ Footprint(At(c, j))' = Footprint(At(c, j))
      BY <1>2, <2>3, OtherEntries
    <3>2. Used(x, y) /\ Footprint(At(x, y))' = Footprint(At(x, y))
      BY <1>2, <2>3, OtherEntries
    <3>3. c \in Block /\ j \in Slots(c) /\ x \in Block /\ y \in Slots(x)
      BY <3>1, <3>2 DEF Used, IsDirBlock, InUse
    <3> QED BY <1>2, <3>1, <3>2, <3>3 DEF EntriesApart
  <2> QED BY <2>1, <2>2, <2>3
<1>3. EntriesWhole' /\ EntriesMarked'
  BY <1>1 DEF EntriesWhole, EntriesMarked
<1>4. EntriesApart'
  BY <1>2 DEF EntriesApart
<1> QED BY <1>3, <1>4

\* No command but one puts a directory into another.
LEMMA EditNests ==
  ASSUME ImageTyped, EntriesWhole, EntriesMarked, EntriesApart,
         NEW W, NEW d, NEW i, NEW gone, Edit(W, d, i, gone),
         NEW depth, Nested(depth),
         Used(d, i)' /\ IsDir(At(d, i))' => SameFile(d, i)
  PROVE  Nested(depth)'
<1> SUFFICES ASSUME NEW c, NEW j, Used(c, j)', IsDir(At(c, j))'
             PROVE  depth[c] < depth[At(c, j)'.key]
  BY DEF Nested
<1>1. Used(c, j) /\ IsDir(At(c, j)) /\ At(c, j)'.key = At(c, j).key
  <2>1. CASE c = d /\ j = i
    <3>1. SameFile(d, i) /\ At(d, i)'.st = "dir"
      BY <2>1 DEF IsDir
    <3> QED BY <2>1, <3>1 DEF SameFile, IsDir, Used, InUse
  <2>2. CASE ~(c = d /\ j = i)
    <3>1. Used(c, j) /\ At(c, j)' = At(c, j)
      BY <2>2, OtherEntries
    <3> QED BY <3>1 DEF IsDir
  <2> QED BY <2>1, <2>2
<1>2. c \in Block /\ j \in Slots(c)
  BY <1>1 DEF Used, IsDirBlock, InUse
<1> QED BY <1>1, <1>2 DEF Nested
------------------------------------------------------------------------------
(* The blocks of a payload.                                                *)
LEMMA BlockCounts ==
  ASSUME NEW p \in Payloads
  PROVE  /\ DataBlocks(p) \in Nat \ {0}
         /\ TotalBlocks(p) \in Nat \ {0}
         /\ IsSapling(p) => TotalBlocks(p) = DataBlocks(p) + 1
         /\ ~IsSapling(p) => TotalBlocks(p) = 1 /\ DataBlocks(p) = 1
         /\ Chunks(p) <= DataBlocks(p)
<1>1. Size[p] \in Nat \ {0} /\ BlockBytes \in Nat \ {0}
  BY PayloadAssumption
<1>2. \A a \in Nat, b \in Nat \ {0} :
        a \div b \in Nat /\ (a + b - 1) \div b <= (a \div b) + 1
  OBVIOUS
<1>3. DataBlocks(p) \in Nat \ {0}
  BY <1>1, <1>2 DEF DataBlocks
<1>4. Chunks(p) <= DataBlocks(p)
  BY <1>1, <1>2 DEF DataBlocks, Chunks
<1> QED BY <1>3, <1>4 DEF TotalBlocks, IsSapling

\* What a new file takes from the free blocks f.
Taken(f, p) == {Found(f, p)[j] : j \in DOMAIN Found(f, p)}

(* The data blocks of a new file, in order, and its key block.             *)
LEMMA NewBlocks ==
  ASSUME NEW f \in SUBSET Block, NEW p \in Payloads, CanStore(f, p)
  PROVE  LET found == Found(f, p)
             data  == DataList(found, p) IN
         /\ Taken(f, p) \subseteq f
         /\ FreeWithout(f, found) = f \ Taken(f, p)
         /\ found[1] \in Taken(f, p)
         /\ data \in Seq(Block) /\ Len(data) = DataBlocks(p)
         /\ DOMAIN data = 1 .. DataBlocks(p)
         /\ \A j \in 1 .. DataBlocks(p) : data[j] \in Taken(f, p)
         /\ \A j, k \in 1 .. DataBlocks(p) : data[j] = data[k] => j = k
         /\ IsSapling(p) => \A j \in 1 .. DataBlocks(p) : data[j] # found[1]
         /\ ~IsSapling(p) => data[1] = found[1]
<1> DEFINE found == Found(f, p)
           data == DataList(found, p)
           n == TotalBlocks(p)
<1>1. n \in Nat \ {0} /\ DataBlocks(p) \in Nat \ {0}
  BY BlockCounts
<1>2. found \in [1 .. n -> f] /\ \A j, k \in 1 .. n : found[j] = found[k] => j = k
  <2>1. n <= Cardinality(f)
    <3>1. IsFiniteSet(Block)
      BY VolumeAssumption, FS_Interval DEF Block
    <3>2. Cardinality(f) \in Nat
      BY <3>1, FS_Subset, FS_CardinalityType
    <3> QED BY <1>1, <3>2 DEF CanStore
  <2> QED BY <1>1, <2>1, BlocksFound DEF Found
<1>3. /\ Taken(f, p) \subseteq f /\ \A j \in 1 .. n : found[j] \in Taken(f, p)
      /\ FreeWithout(f, found) = f \ Taken(f, p)
  BY <1>2 DEF Taken, FreeWithout
<1>4. found[1] \in Taken(f, p)
  BY <1>1, <1>3
<1>5. CASE IsSapling(p)
  <2>1. n = DataBlocks(p) + 1
    BY <1>5, BlockCounts
  <2>2. data = Tail(found)
    BY <1>5 DEF DataList
  <2> HIDE DEF n, found, data
  <2>3. found \in Seq(f) /\ Len(found) = n
    BY <1>1, <1>2
  <2>4. /\ data \in Seq(f) /\ Len(data) = DataBlocks(p)
        /\ \A j \in 1 .. DataBlocks(p) : data[j] = found[j + 1]
    BY <1>1, <2>1, <2>2, <2>3
  <2>5. \A j \in 1 .. DataBlocks(p) : j + 1 \in 1 .. n /\ j + 1 # 1
    BY <1>1, <2>1
  <2>6. 1 \in 1 .. n
    BY <1>1
  <2>7. \A j \in 1 .. DataBlocks(p) : data[j] \in Taken(f, p) /\ data[j] # found[1]
    BY <1>2, <1>3, <2>4, <2>5, <2>6
  <2>8. \A j, k \in 1 .. DataBlocks(p) : data[j] = data[k] => j = k
    <3> TAKE j, k \in 1 .. DataBlocks(p)
    <3> HAVE data[j] = data[k]
    <3>1. j + 1 = k + 1
      BY <1>2, <2>4, <2>5
    <3> QED BY <1>1, <3>1
  <2>9. data \in Seq(Block) /\ DOMAIN data = 1 .. DataBlocks(p)
    BY <2>4
  <2> QED BY <1>3, <1>4, <1>5, <2>4, <2>7, <2>8, <2>9 DEF found, data
<1>6. CASE ~IsSapling(p)
  <2>1. n = 1 /\ DataBlocks(p) = 1
    BY <1>6, BlockCounts
  <2>2. data = found
    BY <1>6 DEF DataList
  <2> HIDE DEF n, found, data
  <2>3. found \in Seq(Block) /\ Len(found) = 1 /\ DOMAIN found = 1 .. 1
    <3>1. found \in Seq(f) /\ Len(found) = n
      BY <1>1, <1>2
    <3> QED BY <2>1, <3>1
  <2>4. \A j \in 1 .. 1 : data[j] \in Taken(f, p)
    BY <1>3, <2>1, <2>2
  <2>5. \A j, k \in 1 .. 1 : j = k
    OBVIOUS
  <2> QED BY <1>3, <1>4, <1>6, <2>1, <2>2, <2>3, <2>4, <2>5 DEF found, data
<1> QED BY <1>5, <1>6

\* The blocks of a file are written; the directory d is not among them.
FileWritten(f, p, d) ==
  /\ CanStore(f, p) /\ d \notin f
  /\ \A b \in Block \ {d} : blk'[b] = BlocksWith(Found(f, p), p)[b]

\* A new file is whole, occupies what was taken for it, and nothing else of
\* the image has changed but the directory d.
FileStored(f, p, d, arg, k) ==
  LET e == NewEntry(Found(f, p), arg, k, p) IN
  /\ arg \in Typed /\ k \in Kinds => e \in Entry /\ IsEntry(e)
  /\ e.st # "dir" /\ e.name = Stored(arg)
  /\ Footprint(e)' = Taken(f, p)
  /\ Whole(e)' /\ Stores(e, p)'
  /\ \A b \in Taken(f, p) : blk'[b] \in Content(b) /\ blk'[b].tag # "dir"
  /\ \A b \in Block \ (Taken(f, p) \cup {d}) : blk'[b] = blk[b]

(* The file is whole when its blocks are written: it occupies what was     *)
(* taken for it, and reads back as the payload.                            *)
LEMMA NewFile ==
  ASSUME ImageTyped, NEW f \in SUBSET Block, NEW p \in Payloads, NEW d, FileWritten(f, p, d),
         NEW arg, NEW k
  PROVE  FileStored(f, p, d, arg, k)
<1> DEFINE found == Found(f, p)
           data == DataList(found, p)
           key == found[1]
           InData(b) == \E j \in DOMAIN data : data[j] = b
           place(b) == CHOOSE j \in DOMAIN data : data[j] = b
           Piece(j) == [tag |-> "data", payload |-> p, chunk |-> j]
           Index == [tag |-> "index", ptrs |-> data]
           e == NewEntry(found, arg, k, p)
<1>1. /\ Taken(f, p) \subseteq f
      /\ key \in Taken(f, p)
      /\ data \in Seq(Block) /\ Len(data) = DataBlocks(p)
      /\ DOMAIN data = 1 .. DataBlocks(p)
      /\ \A j \in 1 .. DataBlocks(p) : data[j] \in Taken(f, p)
      /\ \A j, l \in 1 .. DataBlocks(p) : data[j] = data[l] => j = l
      /\ IsSapling(p) => \A j \in 1 .. DataBlocks(p) : data[j] # key
      /\ ~IsSapling(p) => data[1] = key
  BY NewBlocks DEF FileWritten
<1>2. /\ DataBlocks(p) \in Nat \ {0} /\ (~IsSapling(p) <=> DataBlocks(p) = 1)
      /\ DataBlocks(p) <= IndexSize
  BY BlockCounts DEF IsSapling, FileWritten, CanStore
<1>3. \A b \in Block \ {d} :
        blk'[b] = IF InData(b) THEN Piece(place(b)) ELSE IF b = key THEN Index ELSE blk[b]
  BY DEF BlocksWith, FileWritten
<1>4. \A b : InData(b) => place(b) \in 1 .. DataBlocks(p) /\ data[place(b)] = b
  BY <1>1
<1>5. \A b \in Taken(f, p) : b \in Block \ {d}
  BY <1>1 DEF FileWritten
<1>6. e = [name |-> Stored(arg), st |-> IF IsSapling(p) THEN "sapling" ELSE "seedling",
           kind |-> k, key |-> key, size |-> Size[p], locked |-> FALSE]
  BY DEF NewEntry
<1>7. Size[p] \in Nat /\ key \in Block /\ (arg \in Typed => Stored(arg) \in Names)
  BY <1>1, PayloadAssumption, StoredName
<1> HIDE DEF found, data, key, e, place
<1>8. /\ arg \in Typed /\ k \in Kinds => e \in Entry /\ IsEntry(e)
      /\ e.st # "dir" /\ e.name = Stored(arg)
  <2>1. arg \in Typed /\ k \in Kinds => e \in Entry
    BY <1>6, <1>7 DEF Entry
  <2> QED BY <1>6, <2>1, EntryAssumption DEF IsEntry
<1>9. \A j \in 1 .. DataBlocks(p) : blk'[data[j]] = Piece(j)
  <2> TAKE j \in 1 .. DataBlocks(p)
  <2>1. data[j] \in Block \ {d} /\ InData(data[j])
    BY <1>1, <1>5
  <2>2. place(data[j]) = j
    BY <1>1, <1>4, <2>1
  <2> QED BY <1>3, <2>1, <2>2
<1>10. \A b \in Taken(f, p) : InData(b) \/ b = key
  <2> TAKE b \in Taken(f, p)
  <2>1. PICK j \in DOMAIN found : b = found[j]
    BY DEF Taken, found
  <2>2. CASE j = 1
    BY <2>1, <2>2 DEF key
  <2>3. CASE j # 1
    <3>1. /\ TotalBlocks(p) \in Nat /\ found \in [1 .. TotalBlocks(p) -> Block]
      <4>1. TotalBlocks(p) \in Nat \ {0} /\ TotalBlocks(p) <= Cardinality(f)
        <5>1. IsFiniteSet(Block)
          BY VolumeAssumption, FS_Interval DEF Block
        <5>2. Cardinality(f) \in Nat
          BY <5>1, FS_Subset, FS_CardinalityType
        <5> QED BY <5>2, BlockCounts DEF CanStore, FileWritten
      <4>2. FreeBlocks(f, TotalBlocks(p)) \in [1 .. TotalBlocks(p) -> f]
        BY <4>1, BlocksFound
      <4> QED BY <4>1, <4>2 DEF found, Found
    <3>2. IsSapling(p) /\ TotalBlocks(p) = DataBlocks(p) + 1
      BY <2>1, <2>3, <3>1, BlockCounts
    <3>3. data = Tail(found)
      BY <3>2 DEF data, DataList
    <3>4. data[j - 1] = b /\ j - 1 \in DOMAIN data
      BY <1>1, <1>2, <2>1, <2>3, <3>1, <3>2, <3>3
    <3> QED BY <3>4
  <2> QED BY <2>2, <2>3
<1>11. \A b \in Taken(f, p) : blk'[b] \in Content(b) /\ blk'[b].tag # "dir"
  <2> TAKE b \in Taken(f, p)
  <2>1. CASE InData(b)
    <3>1. blk'[b] = Piece(place(b)) /\ place(b) \in Nat \ {0}
      BY <1>2, <1>3, <1>4, <1>5, <2>1
    <3> QED BY <3>1 DEF Content
  <2>2. CASE ~InData(b)
    <3>1. blk'[b] = Index
      BY <1>3, <1>5, <1>10, <2>2
    <3> QED BY <1>1, <3>1 DEF Content
  <2> QED BY <2>1, <2>2
<1>12. \A b \in Block \ (Taken(f, p) \cup {d}) : blk'[b] = blk[b]
  <2>1. \A b : InData(b) => b \in Taken(f, p)
    BY <1>1
  <2> QED BY <1>1, <1>3, <2>1
<1>13. CASE IsSapling(p)
  <2>1. blk'[key] = Index
    <3>1. ~InData(key)
      BY <1>1, <1>13
    <3> QED BY <1>1, <1>3, <1>5, <3>1
  <2>2. e.st = "sapling" /\ e.key = key /\ e.size = Size[p]
    BY <1>6, <1>13
  <2>3. Stores(e, p)'
    BY <1>1, <1>2, <1>9, <2>1, <2>2 DEF Stores
  <2>4. Pointers(e)' = data
    BY <2>1, <2>2 DEF Pointers
  <2>5. Footprint(e)' = Taken(f, p)
    BY <1>1, <1>10, <2>2, <2>4 DEF Footprint
  <2>6. Whole(e)'
    BY <1>8, <2>3 DEF Whole
  <2> QED BY <1>8, <1>11, <1>12, <2>3, <2>5, <2>6 DEF FileStored, e, found
<1>14. CASE ~IsSapling(p)
  <2>1. blk'[key] = Piece(1) /\ DataBlocks(p) = 1
    BY <1>1, <1>2, <1>9, <1>14
  <2>2. e.st = "seedling" /\ e.key = key /\ e.size = Size[p]
    BY <1>6, <1>14
  <2>3. Stores(e, p)'
    BY <1>2, <2>1, <2>2 DEF Stores
  <2>4. Footprint(e)' = {key}
    BY <2>2 DEF Footprint, Pointers
  <2>5. Whole(e)' /\ Footprint(e)' = Taken(f, p)
    BY <1>1, <1>2, <1>8, <1>10, <1>14, <2>3, <2>4 DEF Whole
  <2> QED BY <1>8, <1>11, <1>12, <2>3, <2>5 DEF FileStored, e, found
<1> QED BY <1>13, <1>14
------------------------------------------------------------------------------
(* Looking up a directory by its path leads to one a write may go to.      *)
LinkedBlocks == {d \in Block : Linked(d)}

LEMMA LinkedFromLinked ==
  ASSUME ImageTyped, EntriesWhole, EntriesMarked, NEW d \in LinkedBlocks, NEW i \in InUse(d),
         IsDir(At(d, i))
  PROVE  At(d, i).key \in LinkedBlocks
<1>1. IsDirBlock(d)
  BY LinkedBlock DEF LinkedBlocks
<1>2. Used(d, i) /\ d \in Block /\ i \in Slots(d)
  BY <1>1 DEF Used, IsDirBlock, InUse
<1>3. At(d, i).key \in Block
  BY <1>2, EntryTyped
<1>4. Linked(At(d, i).key)
  BY <1>2 DEF Linked
<1> QED BY <1>3, <1>4 DEF LinkedBlocks

LEMMA SubdirectoryLinked ==
  ASSUME ImageTyped, EntriesWhole, EntriesMarked, NEW d \in LinkedBlocks \cup {Null}, NEW n
  PROVE  /\ Subdirectory(d, n) \in LinkedBlocks \cup {Null}
         /\ Subdirectory(d, n) # Null =>
              d # Null /\ \E i \in InUse(d) : IsDir(At(d, i)) /\ At(d, i).key = Subdirectory(d, n)
<1>1. CASE d = Null
  BY <1>1 DEF Subdirectory
<1>2. CASE d # Null
  <2> DEFINE S == {i \in Shown(d) : IsDir(At(d, i)) /\ At(d, i).name = n}
  <2>1. CASE S = {}
    BY <1>2, <2>1 DEF Subdirectory
  <2>2. CASE S # {}
    <3>1. S \in SUBSET InUse(d) /\ S \in SUBSET Nat
      BY VolumeAssumption DEF Shown, InUse, Slots
    <3>2. Min(S) \in S
      <4>1. \E i \in S : \A j \in S : i <= j
        BY <2>2, <3>1, LeastElement
      <4> QED BY <4>1 DEF Min
    <3>3. Min(S) \in InUse(d) /\ IsDir(At(d, Min(S)))
      BY <3>1, <3>2
    <3>4. Subdirectory(d, n) = At(d, Min(S)).key
      BY <1>2, <2>2 DEF Subdirectory
    <3>5. At(d, Min(S)).key \in LinkedBlocks
      <4> HIDE DEF S
      <4> QED BY <1>2, <3>3, LinkedFromLinked
    <3> QED BY <1>2, <3>3, <3>4, <3>5
  <2> QED BY <2>1, <2>2
<1> QED BY <1>1, <1>2

PathLevels(path) ==
  \E a : /\ a[0] = Root /\ a[Len(path)] = DirBlock(path)
         /\ \A k \in 0 .. Len(path) : a[k] \in LinkedBlocks \cup {Null}
         /\ \A k \in 1 .. Len(path) : a[k] = Subdirectory(a[k - 1], path[k])

LEMMA DirBlockByLevel ==
  ASSUME ImageTyped, EntriesWhole, EntriesMarked, NEW path \in Path
  PROVE  PathLevels(path)
<1>0. PICK S, n : S = LinkedBlocks \cup {Null} /\ n = Len(path)
  OBVIOUS
<1> DEFINE Body(g) == [k \in 0 .. n |-> IF k = 0 THEN Root ELSE Subdirectory(g[k - 1], path[k])]
           at == CHOOSE g : g = Body(g)
<1>1. n \in Nat
  BY <1>0, VolumeAssumption DEF Path
<1>2. Root \in S
  BY <1>0, VolumeAssumption DEF LinkedBlocks, Linked
<1>3. \A d \in S : \A x : Subdirectory(d, x) \in S
  BY <1>0, SubdirectoryLinked
<1>4. \E g : g = Body(g)
  <2>1. PICK next \in [1 .. n -> [S -> S]] : next = [k \in 1 .. n |-> [d \in S |-> Subdirectory(d, path[k])]]
    BY <1>3
  <2>2. PICK g : IsRecursion(g, S, n, Root, next)
    BY <1>1, <1>2, RecursionExists
  <2>3. \A k \in 0 .. n : k # 0 => k \in 1 .. n /\ k - 1 \in 0 .. n
    BY <1>1
  <2>4. \A k \in 0 .. n : k # 0 => g[k] = Subdirectory(g[k - 1], path[k])
    BY <1>3, <2>1, <2>2, <2>3 DEF IsRecursion
  <2>5. g = Body(g)
    BY <2>2, <2>4 DEF IsRecursion
  <2> QED BY <2>5
<1>5. at = Body(at)
  BY <1>4
<1>6. DirBlock(path) = at[n]
  BY <1>0 DEF DirBlock
<1> HIDE DEF at
<1>7. at[0] = Root /\ \A k \in 1 .. n : at[k] = Subdirectory(at[k - 1], path[k])
  <2>1. at[0] = Root
    BY <1>1, <1>5
  <2>2. ASSUME NEW k \in 1 .. n PROVE at[k] = Subdirectory(at[k - 1], path[k])
    <3>1. k \in 0 .. n /\ k # 0
      BY <1>1
    <3> QED BY <1>5, <3>1
  <2> QED BY <2>1, <2>2
<1>8. \A k \in 0 .. n : at[k] \in S
  <2>1. ASSUME NEW k \in 1 .. n, at[k - 1] \in S PROVE at[k] \in S
    BY <1>3, <1>7, <2>1
  <2> QED BY <1>1, <1>2, <1>7, <2>1, RecursionInside
<1> QED BY <1>0, <1>6, <1>7, <1>8 DEF PathLevels

LEMMA DirBlockLinked ==
  ASSUME ImageTyped, EntriesWhole, EntriesMarked, NEW path \in Path, DirBlock(path) # Null
  PROVE  /\ Linked(DirBlock(path)) /\ IsDirBlock(DirBlock(path))
         /\ DirBlock(path) \notin free
<1>1. Len(path) \in 0 .. Len(path)
  BY VolumeAssumption DEF Path
<1>2. DirBlock(path) \in LinkedBlocks
  BY <1>1, DirBlockByLevel DEF PathLevels
<1> QED BY <1>2, LinkedBlock DEF LinkedBlocks

(* The directories of the volume, and those that the catalogs show, are     *)
(* found level by level; every one is one a write may go to.               *)
MoreDirectories(D) ==
  D \cup UNION {{At(d, i).key : i \in {j \in InUse(d) : IsDir(At(d, j))}} : d \in D}

MoreShown(D) ==
  D \cup UNION {{At(d, i).key : i \in {j \in Shown(d) : IsDir(At(d, j))}} : d \in D}

DirectoryLevels ==
  \E g : /\ g[0] = {Root} /\ g[MaxDepth] = Directories
         /\ \A k \in 0 .. MaxDepth : g[k] \in SUBSET LinkedBlocks
         /\ \A k \in 1 .. MaxDepth : g[k] = MoreDirectories(g[k - 1])

ShownLevels ==
  \E g : /\ g[0] = {Root} /\ g[MaxDepth] = ShownDirectories
         /\ \A k \in 0 .. MaxDepth : g[k] \in SUBSET LinkedBlocks
         /\ \A k \in 1 .. MaxDepth : g[k] = MoreShown(g[k - 1])

LEMMA DirectoriesByLevel ==
  ASSUME ImageTyped, EntriesWhole, EntriesMarked
  PROVE  DirectoryLevels
<1>0. PICK S, n : S = SUBSET LinkedBlocks /\ n = MaxDepth
  OBVIOUS
<1> DEFINE Body(g) == [k \in 0 .. n |-> IF k = 0 THEN {Root} ELSE MoreDirectories(g[k - 1])]
           at == CHOOSE g : g = Body(g)
<1>1. n \in Nat
  BY <1>0, VolumeAssumption
<1>2. {Root} \in S
  BY <1>0, VolumeAssumption DEF LinkedBlocks, Linked
<1>3. \A D \in S : MoreDirectories(D) \in S
  BY <1>0, LinkedFromLinked DEF MoreDirectories
<1>4. \E g : g = Body(g)
  <2>1. PICK next \in [1 .. n -> [S -> S]] :
               next = [k \in 1 .. n |-> [D \in S |-> MoreDirectories(D)]]
    BY <1>3
  <2>2. PICK g : IsRecursion(g, S, n, {Root}, next)
    BY <1>1, <1>2, RecursionExists
  <2>3. \A k \in 0 .. n : k # 0 => k \in 1 .. n /\ k - 1 \in 0 .. n
    BY <1>1
  <2>4. \A k \in 0 .. n : k # 0 => g[k] = MoreDirectories(g[k - 1])
    BY <1>3, <2>1, <2>2, <2>3 DEF IsRecursion
  <2>5. g = Body(g)
    BY <2>2, <2>4 DEF IsRecursion
  <2> QED BY <2>5
<1>5. at = Body(at)
  BY <1>4
<1>6. Directories = at[n]
  BY <1>0 DEF Directories, MoreDirectories
<1> HIDE DEF at
<1>7. at[0] = {Root} /\ \A k \in 1 .. n : at[k] = MoreDirectories(at[k - 1])
  <2>1. at[0] = {Root}
    BY <1>1, <1>5
  <2>2. ASSUME NEW k \in 1 .. n PROVE at[k] = MoreDirectories(at[k - 1])
    <3>1. k \in 0 .. n /\ k # 0
      BY <1>1
    <3> QED BY <1>5, <3>1
  <2> QED BY <2>1, <2>2
<1>8. \A k \in 0 .. n : at[k] \in S
  BY <1>1, <1>2, <1>3, <1>7, RecursionInside
<1> QED BY <1>0, <1>6, <1>7, <1>8 DEF DirectoryLevels

LEMMA ShownByLevel ==
  ASSUME ImageTyped, EntriesWhole, EntriesMarked
  PROVE  ShownLevels
<1>0. PICK S, n : S = SUBSET LinkedBlocks /\ n = MaxDepth
  OBVIOUS
<1> DEFINE Body(g) == [k \in 0 .. n |-> IF k = 0 THEN {Root} ELSE MoreShown(g[k - 1])]
           at == CHOOSE g : g = Body(g)
<1>1. n \in Nat
  BY <1>0, VolumeAssumption
<1>2. {Root} \in S
  BY <1>0, VolumeAssumption DEF LinkedBlocks, Linked
<1>3. \A D \in S : MoreShown(D) \in S
  <2>1. \A d : Shown(d) \subseteq InUse(d)
    BY DEF Shown
  <2> QED BY <1>0, <2>1, LinkedFromLinked DEF MoreShown
<1>4. \E g : g = Body(g)
  <2>1. PICK next \in [1 .. n -> [S -> S]] :
               next = [k \in 1 .. n |-> [D \in S |-> MoreShown(D)]]
    BY <1>3
  <2>2. PICK g : IsRecursion(g, S, n, {Root}, next)
    BY <1>1, <1>2, RecursionExists
  <2>3. \A k \in 0 .. n : k # 0 => k \in 1 .. n /\ k - 1 \in 0 .. n
    BY <1>1
  <2>4. \A k \in 0 .. n : k # 0 => g[k] = MoreShown(g[k - 1])
    BY <1>3, <2>1, <2>2, <2>3 DEF IsRecursion
  <2>5. g = Body(g)
    BY <2>2, <2>4 DEF IsRecursion
  <2> QED BY <2>5
<1>5. at = Body(at)
  BY <1>4
<1>6. ShownDirectories = at[n]
  BY <1>0 DEF ShownDirectories, MoreShown
<1> HIDE DEF at
<1>7. at[0] = {Root} /\ \A k \in 1 .. n : at[k] = MoreShown(at[k - 1])
  <2>1. at[0] = {Root}
    BY <1>1, <1>5
  <2>2. ASSUME NEW k \in 1 .. n PROVE at[k] = MoreShown(at[k - 1])
    <3>1. k \in 0 .. n /\ k # 0
      BY <1>1
    <3> QED BY <1>5, <3>1
  <2> QED BY <2>1, <2>2
<1>8. \A k \in 0 .. n : at[k] \in S
  BY <1>1, <1>2, <1>3, <1>7, RecursionInside
<1> QED BY <1>0, <1>6, <1>7, <1>8 DEF ShownLevels

LEMMA DirectoriesLinked ==
  ASSUME ImageTyped, EntriesWhole, EntriesMarked
  PROVE  Directories \subseteq LinkedBlocks
<1>1. PICK g : /\ g[MaxDepth] = Directories
               /\ \A k \in 0 .. MaxDepth : g[k] \in SUBSET LinkedBlocks
  BY DirectoriesByLevel DEF DirectoryLevels
<1> QED BY <1>1, VolumeAssumption
\* A path that leads to a directory leads to one of the volume.
LEMMA DirBlockOnVolume ==
  ASSUME ImageTyped, EntriesWhole, EntriesMarked, NEW path \in Path, DirBlock(path) # Null
  PROVE  DirBlock(path) \in Directories
<1>1. PICK g : /\ g[0] = {Root} /\ g[MaxDepth] = Directories
               /\ \A k \in 0 .. MaxDepth : g[k] \in SUBSET LinkedBlocks
               /\ \A k \in 1 .. MaxDepth : g[k] = MoreDirectories(g[k - 1])
  BY DirectoriesByLevel DEF DirectoryLevels
<1>2. PICK a : /\ a[0] = Root /\ a[Len(path)] = DirBlock(path)
               /\ \A k \in 0 .. Len(path) : a[k] \in LinkedBlocks \cup {Null}
               /\ \A k \in 1 .. Len(path) : a[k] = Subdirectory(a[k - 1], path[k])
  BY DirBlockByLevel DEF PathLevels
<1>3. PICK m, n : m = MaxDepth /\ n = Len(path)
  OBVIOUS
<1>4. m \in Nat /\ n \in Nat /\ n <= m
  BY <1>3, VolumeAssumption DEF Path
<1>5. PICK off : off = [k \in 0 .. n |-> {a[k]} \ (g[k] \cup {Null})]
  OBVIOUS
<1>6. ASSUME NEW k \in 1 .. n, off[k - 1] \in {{}} PROVE off[k] \in {{}}
  <2>1. k - 1 \in 0 .. n /\ k \in 0 .. n /\ k \in 1 .. m
    BY <1>4
  <2>2. PICK c, G : c = a[k - 1] /\ G = g[k - 1]
    OBVIOUS
  <2>3. c \in G \cup {Null} /\ c \in LinkedBlocks \cup {Null}
    BY <1>2, <1>3, <1>5, <1>6, <2>1, <2>2
  <2>4. g[k] = MoreDirectories(G) /\ a[k] = Subdirectory(c, path[k])
    BY <1>1, <1>2, <1>3, <2>1, <2>2
  <2>5. a[k] # Null => a[k] \in MoreDirectories(G)
    <3> SUFFICES ASSUME a[k] # Null PROVE a[k] \in MoreDirectories(G)
      OBVIOUS
    <3>1. c # Null /\ \E i \in InUse(c) : IsDir(At(c, i)) /\ At(c, i).key = a[k]
      BY <2>3, <2>4, SubdirectoryLinked
    <3> QED BY <2>3, <3>1 DEF MoreDirectories
  <2> QED BY <1>5, <2>1, <2>4, <2>5
<1>7. DirBlock(path) \in g[n]
  <2>1. off[0] \in {{}}
    BY <1>1, <1>2, <1>4, <1>5
  <2>2. PICK S : S = {{}}
    OBVIOUS
  <2>5. off[0] \in S /\ \A k \in 1 .. n : off[k - 1] \in S => off[k] \in S
    BY <1>6, <2>1, <2>2
  <2>3. \A k \in 0 .. n : off[k] \in S
    BY <1>4, <2>5, RecursionInside
  <2>4. off[n] = {}
    BY <1>4, <2>2, <2>3
  <2> QED BY <1>2, <1>3, <1>4, <1>5, <2>4
<1>8. PICK less : less = [k \in 0 .. m |-> IF k < n THEN {} ELSE g[n] \ g[k]]
  OBVIOUS
<1>9. ASSUME NEW k \in 1 .. m, less[k - 1] \in {{}} PROVE less[k] \in {{}}
  <2>1. k - 1 \in 0 .. m /\ k \in 0 .. m
    BY <1>4
  <2>2. CASE k < n \/ k = n
    BY <1>8, <2>1, <2>2
  <2>3. CASE ~(k < n \/ k = n)
    <3>1. g[n] \ g[k - 1] = {}
      BY <1>4, <1>8, <1>9, <2>1, <2>3
    <3>2. g[k - 1] \subseteq g[k]
      BY <1>1, <1>3 DEF MoreDirectories
    <3> QED BY <1>8, <2>1, <3>1, <3>2
  <2> QED BY <2>2, <2>3
<1>10. less[m] = {}
  <2>1. less[0] \in {{}}
    BY <1>4, <1>8
  <2>2. PICK S : S = {{}}
    OBVIOUS
  <2>4. less[0] \in S /\ \A k \in 1 .. m : less[k - 1] \in S => less[k] \in S
    BY <1>9, <2>1, <2>2
  <2>3. \A k \in 0 .. m : less[k] \in S
    BY <1>4, <2>4, RecursionInside
  <2> QED BY <1>4, <2>2, <2>3
<1>11. g[n] \subseteq g[m]
  <2>1. m \in 0 .. m /\ ~(m < n)
    BY <1>4
  <2>2. less[m] = g[n] \ g[m]
    BY <1>8, <2>1
  <2> QED BY <1>10, <2>2
<1> QED BY <1>1, <1>3, <1>7, <1>11

\* The directories of N stay when the entries do by which they are reached.
EntriesLead(N) ==
  \A c \in LinkedBlocks : \A j :
    Used(c, j) /\ IsDir(At(c, j)) /\ At(c, j).key \in N =>
      c \in N /\ (j \in InUse(c))' /\ IsDir(At(c, j))' /\ At(c, j)'.key = At(c, j).key

SoundLevels ==
  ImageTyped /\ EntriesWhole /\ EntriesMarked => DirectoryLevels

LEMMA LevelsAlways == SoundLevels
BY DirectoriesByLevel DEF SoundLevels

LEMMA DirectoriesStay ==
  ASSUME ImageTyped, EntriesWhole, EntriesMarked,
         ImageTyped', EntriesWhole', EntriesMarked', NEW N, EntriesLead(N)
  PROVE  Directories \cap N \subseteq Directories'
<1>1. PICK g : /\ g[0] = {Root} /\ g[MaxDepth] = Directories
               /\ \A k \in 0 .. MaxDepth : g[k] \in SUBSET LinkedBlocks
               /\ \A k \in 1 .. MaxDepth : g[k] = MoreDirectories(g[k - 1])
  BY DirectoriesByLevel DEF DirectoryLevels
<1>2. PICK h : /\ h[0] = {Root} /\ h[MaxDepth] = Directories'
               /\ \A k \in 1 .. MaxDepth : h[k] = MoreDirectories(h[k - 1])'
  <2>1. SoundLevels'
    BY LevelsAlways, PTL
  <2> QED BY <2>1 DEF SoundLevels, DirectoryLevels
<1>3. PICK m : m = MaxDepth /\ m \in Nat
  BY VolumeAssumption
<1>4. PICK gap : gap = [k \in 0 .. m |-> (g[k] \cap N) \ h[k]]
  OBVIOUS
<1>5. ASSUME NEW k \in 1 .. m, gap[k - 1] \in {{}} PROVE gap[k] \in {{}}
  <2>1. k - 1 \in 0 .. m /\ k \in 0 .. m
    BY <1>3
  <2>2. PICK G, H : G = g[k - 1] /\ H = h[k - 1]
    OBVIOUS
  <2>3. /\ G \in SUBSET LinkedBlocks /\ \A c \in G : c \in N => c \in H
        /\ g[k] = MoreDirectories(G) /\ h[k] = MoreDirectories(H)'
    BY <1>1, <1>2, <1>3, <1>4, <1>5, <2>1, <2>2
  <2>4. ASSUME NEW c \in MoreDirectories(G), c \in N PROVE c \in MoreDirectories(H)'
    <3>1. CASE c \in G
      BY <2>3, <2>4, <3>1 DEF MoreDirectories
    <3>2. CASE c \notin G
      <4>1. PICK b \in G : c \in {At(b, j).key : j \in {l \in InUse(b) : IsDir(At(b, l))}}
        BY <3>2 DEF MoreDirectories
      <4>2. PICK j \in InUse(b) : IsDir(At(b, j)) /\ c = At(b, j).key
        BY <4>1
      <4>3. b \in LinkedBlocks /\ Used(b, j)
        <5>1. b \in LinkedBlocks
          BY <2>3
        <5>2. IsDirBlock(b)
          BY <5>1, LinkedBlock DEF LinkedBlocks
        <5> QED BY <4>2, <5>1, <5>2 DEF Used
      <4>4. b \in N /\ (j \in InUse(b))' /\ IsDir(At(b, j))' /\ At(b, j)'.key = c
        BY <2>4, <4>2, <4>3 DEF EntriesLead
      <4>5. b \in H
        BY <2>3, <4>4
      <4> QED BY <4>4, <4>5 DEF MoreDirectories
    <3> QED BY <3>1, <3>2
  <2> QED BY <1>4, <2>1, <2>3, <2>4
<1>6. gap[m] = {}
  <2>1. gap[0] \in {{}}
    BY <1>1, <1>2, <1>3, <1>4
  <2>2. PICK S : S = {{}}
    OBVIOUS
  <2>4. gap[0] \in S /\ \A k \in 1 .. m : gap[k - 1] \in S => gap[k] \in S
    BY <1>5, <2>1, <2>2
  <2>3. \A k \in 0 .. m : gap[k] \in S
    BY <1>3, <2>4, RecursionInside
  <2> QED BY <1>3, <2>2, <2>3
<1> QED BY <1>1, <1>2, <1>3, <1>4, <1>6
------------------------------------------------------------------------------
(* The shapes of the commands: each is an edit of a directory that the     *)
(* image allows.                                                           *)
Sound == ImageTyped /\ EntriesWhole /\ EntriesMarked /\ EntriesApart

SlotContent == Entry \cup {Never, Deleted}

DirContent(d) == [tag : {"dir"}, count : Nat, entries : [Slots(d) -> SlotContent]]

LEMMA DirBlockContent ==
  ASSUME ImageTyped, NEW d, IsDirBlock(d)
  PROVE  blk[d] \in DirContent(d)
BY DEF ImageTyped, IsDirBlock, Content, DirContent, SlotContent

\* The image is B, of which one directory changed in one entry and its count.
OneEntry(B, d, i, x, c) ==
  \/ blk' = [B EXCEPT ![d].entries[i] = x, ![d].count = c]
  \/ i \notin Slots(d) /\ blk' = [B EXCEPT ![d].count = c]

LEMMA ImageAfter ==
  ASSUME ImageTyped, NEW d, IsDirBlock(d), NEW i, NEW x \in SlotContent,
         NEW c \in Nat, NEW B, B = [b \in Block |-> B[b]], B[d] = blk[d],
         \A b \in Block \ {d} : B[b] \in Content(b),
         B[Root].tag = "dir",
         OneEntry(B, d, i, x, c),
         free' \subseteq Block \ {Root}
  PROVE  /\ ImageTyped' /\ IsDirBlock(d)'
         /\ \A b \in Block \ {d} : blk'[b] = B[b]
         /\ i \in Slots(d) => blk'[d].entries[i] = x
         /\ \A j \in Slots(d) \ {i} : blk'[d].entries[j] = blk[d].entries[j]
<1>1. d \in Block /\ blk[d] \in DirContent(d)
  BY DirBlockContent DEF IsDirBlock
<1>2. /\ DOMAIN blk' = Block /\ blk' = [b \in Block |-> blk'[b]]
      /\ \A b \in Block \ {d} : blk'[b] = B[b]
  BY <1>1 DEF OneEntry
<1>3. /\ blk'[d] \in DirContent(d)
      /\ i \in Slots(d) => blk'[d].entries[i] = x
      /\ \A j \in Slots(d) \ {i} : blk'[d].entries[j] = blk[d].entries[j]
  <2>1. CASE blk' = [B EXCEPT ![d].entries[i] = x, ![d].count = c]
    <3>1. blk'[d] = [blk[d] EXCEPT !.entries[i] = x, !.count = c]
      BY <1>1, <2>1
    <3>2. blk[d].entries \in [Slots(d) -> SlotContent]
      BY <1>1 DEF DirContent
    <3>3. blk'[d] = [tag |-> "dir", count |-> c, entries |-> [blk[d].entries EXCEPT ![i] = x]]
      BY <1>1, <3>1 DEF DirContent
    <3>4. [blk[d].entries EXCEPT ![i] = x] \in [Slots(d) -> SlotContent]
      BY <3>2
    <3> QED BY <3>2, <3>3, <3>4 DEF DirContent
  <2>2. CASE i \notin Slots(d) /\ blk' = [B EXCEPT ![d].count = c]
    <3>1. blk'[d] = [blk[d] EXCEPT !.count = c]
      BY <1>1, <2>2
    <3> QED BY <1>1, <2>2, <3>1 DEF DirContent
  <2> QED BY <2>1, <2>2 DEF OneEntry
<1>4. blk'[d].tag = "dir" /\ blk'[d] \in Content(d)
  BY <1>3 DEF DirContent, Content, SlotContent
<1>5. \A b \in Block : blk'[b] \in Content(b)
  BY <1>2, <1>4
<1>6. IsDirBlock(Root)'
  BY <1>2, <1>4, VolumeAssumption DEF IsDirBlock
<1> QED BY <1>1, <1>2, <1>3, <1>4, <1>5, <1>6 DEF ImageTyped, IsDirBlock

\* An edit that is sound, and that makes no directory.
LEMMA EditSound ==
  ASSUME Sound, ImageTyped', NEW W, NEW d, NEW i, NEW gone,
         Edit(W, d, i, gone), Edited(W, d, i, gone),
         Used(d, i)' /\ IsDir(At(d, i))' => SameFile(d, i)
  PROVE  Sound' /\ \A depth : Nested(depth) => Nested(depth)'
<1>1. EntriesWhole' /\ EntriesMarked' /\ EntriesApart'
  BY EditKeeps DEF Sound
<1>2. \A depth : Nested(depth) => Nested(depth)'
  BY EditNests DEF Sound
<1> QED BY <1>1, <1>2 DEF Sound

\* A file is written: over the entry of one that is gone, or a free one.
Publishes(f, gone, d, i, arg, k, p, c) ==
  /\ arg \in Typed /\ k \in Kinds /\ p \in Payloads /\ c \in Nat
  /\ IsDirBlock(d) /\ i \in Slots(d)
  /\ f = free \cup gone /\ d \notin f
  /\ gone # {} => Used(d, i) /\ gone \subseteq Footprint(At(d, i))
  /\ CanStore(f, p) /\ Publish(f, d, i, arg, k, p, c)

Published(f, gone, d, i, arg, k, p) ==
  /\ Sound' /\ \A depth : Nested(depth) => Nested(depth)'
  /\ Edit(Taken(f, p), d, i, gone)
  /\ At(d, i)' = NewEntry(Found(f, p), arg, k, p)
  /\ Stores(At(d, i), p)' /\ Used(d, i)'
  /\ Footprint(At(d, i))' = Taken(f, p) /\ free' = (free \cup gone) \ Taken(f, p)

LEMMA PublishSound ==
  ASSUME Sound, NEW gone, NEW f, NEW d, NEW i, NEW arg, NEW k, NEW p, NEW c,
         Publishes(f, gone, d, i, arg, k, p, c)
  PROVE  Published(f, gone, d, i, arg, k, p)
<1>0. /\ arg \in Typed /\ k \in Kinds /\ p \in Payloads /\ c \in Nat
      /\ IsDirBlock(d) /\ i \in Slots(d)
      /\ f = free \cup gone /\ d \notin f
      /\ gone # {} => Used(d, i) /\ gone \subseteq Footprint(At(d, i))
      /\ CanStore(f, p) /\ Publish(f, d, i, arg, k, p, c)
  BY DEF Publishes
<1>1. f \subseteq Block \ {Root}
  <2> SUFFICES ASSUME gone # {} PROVE gone \subseteq Block \ {Root}
    BY <1>0 DEF Sound, ImageTyped
  <2>1. d \in Block /\ At(d, i).key \in Block
    BY <1>0, EntryTyped DEF Sound
  <2>2. Footprint(At(d, i)) \subseteq Block
    BY <2>1, FootprintInBlocks DEF Sound
  <2>3. Root \notin Footprint(At(d, i))
    BY <1>0, <2>1 DEF Sound, EntriesMarked
  <2> QED BY <1>0, <2>2, <2>3
<1> DEFINE found == Found(f, p)
           B == BlocksWith(found, p)
           e == NewEntry(found, arg, k, p)
           W == Taken(f, p)
<1>2. OneEntry(B, d, i, e, c) /\ free' = FreeWithout(f, found)
  BY <1>0 DEF Publish, OneEntry
<1>3. CanStore(f, p) /\ f \in SUBSET Block /\ d \notin f
  BY <1>0, <1>1
<1>4. W \subseteq f /\ free' = f \ W
  BY <1>0, <1>2, <1>3, NewBlocks
<1>5. d \in Block
  BY <1>0 DEF IsDirBlock
<1>6. B = [b \in Block |-> B[b]] /\ \A b \in Block \ W : B[b] = blk[b]
  <2>1. \A j \in DOMAIN DataList(found, p) : DataList(found, p)[j] \in W
    <3>1. DOMAIN DataList(found, p) = 1 .. DataBlocks(p)
      BY <1>0, <1>3, NewBlocks
    <3>2. \A j \in 1 .. DataBlocks(p) : DataList(found, p)[j] \in W
      BY <1>0, <1>3, NewBlocks
    <3> QED BY <3>1, <3>2
  <2>2. found[1] \in W
    BY <1>0, <1>3, NewBlocks
  <2> QED BY <2>1, <2>2 DEF BlocksWith
<1>7. \A b \in Block \ {d} : blk'[b] = B[b]
  <2> HIDE DEF B
  <2> QED BY <1>2, <1>5, <1>6 DEF OneEntry
<1>8. /\ e \in Entry /\ e.st # "dir" /\ e.name = Stored(arg) /\ IsEntry(e)
      /\ Footprint(e)' = W
      /\ Whole(e)' /\ Stores(e, p)'
      /\ \A b \in W : blk'[b] \in Content(b) /\ blk'[b].tag # "dir"
      /\ \A b \in Block \ (W \cup {d}) : blk'[b] = blk[b]
  <2>1. FileWritten(f, p, d)
    BY <1>3, <1>7 DEF FileWritten
  <2>2. FileStored(f, p, d, arg, k)
    <3> HIDE DEF B, e, W
    <3> QED BY <1>0, <1>3, <2>1, NewFile DEF Sound
  <2> HIDE DEF B
  <2> QED BY <1>0, <2>2 DEF FileStored
<1> HIDE DEF B, e, W
<1>9. e \in SlotContent /\ \A b \in Block \ {d} : B[b] \in Content(b)
  BY <1>7, <1>8 DEF Sound, ImageTyped, SlotContent
<1>10. B[d] = blk[d] /\ B[Root].tag = "dir"
  BY <1>0, <1>1, <1>3, <1>4, <1>5, <1>6 DEF Sound, ImageTyped, IsDirBlock
<1>11. free' \subseteq Block \ {Root}
  BY <1>1, <1>4
<1>12. /\ ImageTyped' /\ IsDirBlock(d)' /\ blk'[d].entries[i] = e
       /\ \A j \in Slots(d) \ {i} : blk'[d].entries[j] = blk[d].entries[j]
  BY <1>0, <1>2, <1>6, <1>8, <1>9, <1>10, <1>11, ImageAfter DEF Sound
<1>13. Edit(W, d, i, gone)
  BY <1>0, <1>3, <1>4, <1>8, <1>12 DEF Edit
<1>14. At(d, i)' = e
  BY <1>12 DEF At
<1>15. Footprint(At(d, i))' = Footprint(e)' /\ (Whole(At(d, i))' <=> Whole(e)')
  BY <1>14 DEF Footprint, Pointers, Whole, Stores, IsDirBlock
<1>16. Edited(W, d, i, gone)
  BY <1>8, <1>15 DEF Edited, Fresh
<1>17. ~IsDir(At(d, i))'
  BY <1>8, <1>14 DEF IsDir
<1>18. Sound' /\ \A depth : Nested(depth) => Nested(depth)'
  BY <1>12, <1>13, <1>16, <1>17, EditSound
<1>19. Stores(At(d, i), p)'
  BY <1>8, <1>14 DEF Stores
<1>20. Used(d, i)'
  BY <1>0, <1>8, <1>12, <1>14 DEF Used, InUse
<1> QED BY <1>0, <1>4, <1>8, <1>13, <1>14, <1>15, <1>18, <1>19, <1>20 DEF W, e, Published

\* An entry is removed, and what it gives back is some of what it occupied.
LEMMA RemoveSound ==
  ASSUME Sound, NEW d, NEW i, Used(d, i), NEW freed, freed \subseteq Footprint(At(d, i)),
         RemoveEntry(d, i, freed)
  PROVE  /\ Sound' /\ \A depth : Nested(depth) => Nested(depth)'
         /\ IsDirBlock(d)' /\ \A b \in Block \ {d} : blk'[b] = blk[b]
         /\ Edit({}, d, i, freed)
         /\ At(d, i)' = Deleted /\ ~Used(d, i)'
         /\ \A j \in Slots(d) \ {i} : At(d, j)' = At(d, j)
<1>1. /\ IsDirBlock(d) /\ d \in Block /\ i \in Slots(d) /\ At(d, i).key \in Block
  BY EntryTyped DEF Sound, Used
<1>2. blk[d] \in DirContent(d)
  BY <1>1, DirBlockContent DEF Sound
<1> DEFINE c == Less(blk[d].count)
<1>3. c \in Nat
  BY <1>2, CountAfter DEF DirContent
<1>4. blk' = [blk EXCEPT ![d].entries[i] = Deleted, ![d].count = c] /\ free' = free \cup freed
  BY <1>1, <1>2 DEF RemoveEntry, Sound, ImageTyped, DirContent
<1>5. free' \subseteq Block \ {Root}
  <2>1. freed \subseteq Block
    BY <1>1, FootprintInBlocks DEF Sound
  <2>2. Root \notin freed
    BY <1>1 DEF Sound, EntriesMarked
  <2> QED BY <1>4, <2>1, <2>2 DEF Sound, ImageTyped
<1> HIDE DEF c
<1>6. PICK B : B = blk
  OBVIOUS
<1>13. /\ B = [b \in Block |-> B[b]] /\ B[Root].tag = "dir" /\ B[d] = blk[d]
       /\ \A b \in Block \ {d} : B[b] \in Content(b)
  BY <1>6 DEF Sound, ImageTyped, IsDirBlock
<1>14. OneEntry(B, d, i, Deleted, c) /\ Deleted \in SlotContent
  BY <1>4, <1>6 DEF OneEntry, SlotContent
<1>7. /\ ImageTyped' /\ IsDirBlock(d)' /\ blk'[d].entries[i] = Deleted
      /\ \A j \in Slots(d) \ {i} : blk'[d].entries[j] = blk[d].entries[j]
      /\ \A b \in Block \ {d} : blk'[b] = blk[b]
  BY <1>1, <1>3, <1>5, <1>6, <1>13, <1>14, ImageAfter DEF Sound
<1>8. Edit({}, d, i, freed)
  BY <1>1, <1>4, <1>7 DEF Edit
<1>9. At(d, i)' = Deleted /\ ~Used(d, i)'
  BY <1>7 DEF Used, InUse, IsEntry, At
<1>10. Edited({}, d, i, freed)
  BY <1>9 DEF Edited
<1>11. \A j \in Slots(d) \ {i} : At(d, j)' = At(d, j)
  BY <1>7 DEF At
<1>12. Sound' /\ \A depth : Nested(depth) => Nested(depth)'
  BY <1>7, <1>8, <1>9, <1>10, EditSound
<1> QED BY <1>7, <1>8, <1>9, <1>11, <1>12

\* What is given back is some of what the entry occupied.
LEMMA GivenBackOccupied ==
  ASSUME NEW e
  PROVE  GivenBack(e) \subseteq Footprint(e)
BY DEF GivenBack, GivenBackWithoutIndex, Footprint

\* The name or the lock of an entry changes.
LEMMA ChangeSound ==
  ASSUME Sound, NEW d, NEW i, Used(d, i), NEW e \in Entry,
         e.st = At(d, i).st, e.key = At(d, i).key, e.st # "dir" => e.size = At(d, i).size,
         blk' = [blk EXCEPT ![d].entries[i] = e], free' = free
  PROVE  /\ Sound' /\ \A depth : Nested(depth) => Nested(depth)'
         /\ Edit({}, d, i, {})
         /\ At(d, i)' = e /\ Used(d, i)'
         /\ \A j \in Slots(d) \ {i} : At(d, j)' = At(d, j)
         /\ \A b \in Block \ {d} : blk'[b] = blk[b]
<1>1. IsDirBlock(d) /\ d \in Block /\ i \in Slots(d)
  BY EntryTyped DEF Sound, Used
<1>2. blk[d] \in DirContent(d)
  BY <1>1, DirBlockContent DEF Sound
<1>3. blk[d].count \in Nat
  BY <1>2 DEF DirContent
<1>4. blk = [b \in Block |-> blk[b]] /\ blk[Root].tag = "dir" /\ \A b \in Block : blk[b] \in Content(b)
  BY DEF Sound, ImageTyped, IsDirBlock
<1>5. blk' = [blk EXCEPT ![d].entries[i] = e, ![d].count = blk[d].count]
  BY <1>1, <1>2, <1>4 DEF DirContent
<1>6. free' \subseteq Block \ {Root}
  BY DEF Sound, ImageTyped
<1>14. PICK B : B = blk
  OBVIOUS
<1>15. /\ B = [b \in Block |-> B[b]] /\ B[Root].tag = "dir" /\ B[d] = blk[d]
       /\ \A b \in Block \ {d} : B[b] \in Content(b)
  BY <1>4, <1>14
<1>16. OneEntry(B, d, i, e, blk[d].count) /\ e \in SlotContent
  BY <1>5, <1>14 DEF OneEntry, SlotContent
<1>7. /\ ImageTyped' /\ IsDirBlock(d)' /\ blk'[d].entries[i] = e
      /\ \A j \in Slots(d) \ {i} : blk'[d].entries[j] = blk[d].entries[j]
      /\ \A b \in Block \ {d} : blk'[b] = blk[b]
  BY <1>1, <1>3, <1>6, <1>14, <1>15, <1>16, ImageAfter, ZenonT(60) DEF Sound
<1>8. Edit({}, d, i, {})
  BY <1>1, <1>7 DEF Edit
<1>9. At(d, i)' = e /\ \A j \in Slots(d) \ {i} : At(d, j)' = At(d, j)
  BY <1>7 DEF At
<1>10. SameFile(d, i)
  BY <1>9 DEF SameFile
<1>11. Edited({}, d, i, {})
  BY <1>10 DEF Edited
<1>12. Sound' /\ \A depth : Nested(depth) => Nested(depth)'
  BY <1>7, <1>8, <1>10, <1>11, EditSound
<1>13. Used(d, i)'
  BY <1>1, <1>7, <1>9, EntryAssumption DEF Used, InUse, IsEntry
<1> QED BY <1>7, <1>8, <1>9, <1>12, <1>13

\* A free block becomes an empty directory, and one directory changes in an
\* entry, or in its count only.
LEMMA NewDirBlockEmpty ==
  ASSUME NEW b \in Block \ {Root}
  PROVE  /\ NewDirBlock \in Content(b) /\ NewDirBlock.tag = "dir"
         /\ \A j \in Slots(b) : NewDirBlock.entries[j] = Never
<1>1. Slots(b) = 1 .. SubSlots
  BY DEF Slots
<1> QED BY <1>1 DEF NewDirBlock, Content

LEMMA DirectoryMade ==
  ASSUME Sound, NEW d, IsDirBlock(d), d \notin free, NEW b \in free, NEW i,
         NEW x \in SlotContent, NEW c \in Nat,
         OneEntry([blk EXCEPT ![b] = NewDirBlock], d, i, x, c),
         free' \subseteq free \ {b}
  PROVE  /\ ImageTyped' /\ Edit({b}, d, i, {})
         /\ i \in Slots(d) => At(d, i)' = x
         /\ blk'[b] = NewDirBlock
<1>0. PICK B : B = [blk EXCEPT ![b] = NewDirBlock]
  OBVIOUS
<1>1. b \in Block \ {Root} /\ b # d /\ d \in Block
  BY DEF Sound, ImageTyped, IsDirBlock
<1>2. /\ B = [y \in Block |-> B[y]] /\ B[d] = blk[d] /\ B[b] = NewDirBlock
      /\ \A y \in Block \ {b} : B[y] = blk[y]
  BY <1>0, <1>1 DEF Sound, ImageTyped
<1>3. B[Root].tag = "dir"
  BY <1>1, <1>2, VolumeAssumption DEF Sound, ImageTyped, IsDirBlock
<1>4. \A y \in Block \ {d} : B[y] \in Content(y)
  BY <1>1, <1>2, NewDirBlockEmpty DEF Sound, ImageTyped
<1>5. OneEntry(B, d, i, x, c) /\ free' \subseteq Block \ {Root}
  BY <1>0 DEF Sound, ImageTyped
<1>6. /\ ImageTyped' /\ IsDirBlock(d)'
      /\ \A y \in Block \ {d} : blk'[y] = B[y]
      /\ i \in Slots(d) => blk'[d].entries[i] = x
      /\ \A j \in Slots(d) \ {i} : blk'[d].entries[j] = blk[d].entries[j]
  BY <1>2, <1>3, <1>4, <1>5, ImageAfter DEF Sound
<1>7. blk'[b] = NewDirBlock /\ \A y \in Block \ {b, d} : blk'[y] = blk[y]
  BY <1>1, <1>2, <1>6
<1>8. \A j \in Slots(b) : blk'[b].entries[j] = Never
  BY <1>1, <1>7, NewDirBlockEmpty
<1>9. Edit({b}, d, i, {})
  BY <1>1, <1>6, <1>7, <1>8 DEF Edit
<1> QED BY <1>6, <1>7, <1>9 DEF At

LEMMA CreateSound ==
  ASSUME Sound, NEW d, IsDirBlock(d), d \notin free, NEW i \in Slots(d), NEW b \in free,
         NEW n \in Names, NEW c \in Nat,
         free' = free \ {b},
         blk' = [blk EXCEPT ![b] = NewDirBlock,
                            ![d].entries[i] =
                               [name |-> n, st |-> "dir", key |-> b, locked |-> FALSE],
                            ![d].count = c],
         NEW depth \in [Block -> Nat], Nested(depth)
  PROVE  /\ Sound' /\ \E deeper \in [Block -> Nat] : Nested(deeper)'
         /\ Edit({b}, d, i, {})
         /\ At(d, i)' = [name |-> n, st |-> "dir", key |-> b, locked |-> FALSE]
<1>0. PICK e : e = [name |-> n, st |-> "dir", key |-> b, locked |-> FALSE]
  OBVIOUS
<1>1. b \in Block \ {Root} /\ b # d /\ d \in Block
  BY DEF Sound, ImageTyped, IsDirBlock
<1>2. e \in SlotContent
  BY <1>0, <1>1 DEF SlotContent, Entry
<1>3. OneEntry([blk EXCEPT ![b] = NewDirBlock], d, i, e, c)
  BY <1>0, <1>1 DEF OneEntry
<1>4. /\ ImageTyped' /\ Edit({b}, d, i, {}) /\ At(d, i)' = e /\ blk'[b] = NewDirBlock
  BY <1>2, <1>3, DirectoryMade
<1>5. Footprint(At(d, i))' = {b}
  BY <1>0, <1>4 DEF Footprint, Pointers
<1>6. Whole(At(d, i))'
  BY <1>0, <1>1, <1>4, NewDirBlockEmpty DEF Whole, IsDirBlock
<1>7. Edited({b}, d, i, {})
  BY <1>5, <1>6 DEF Edited, Fresh
<1>8. EntriesWhole' /\ EntriesMarked' /\ EntriesApart'
  BY <1>4, <1>7, EditKeeps DEF Sound
<1> DEFINE deeper == [depth EXCEPT ![b] = depth[d] + 1]
<1>9. deeper \in [Block -> Nat] /\ deeper[b] = depth[d] + 1 /\ \A y \in Block \ {b} : deeper[y] = depth[y]
  BY <1>1
<1> HIDE DEF deeper
<1>10. Nested(deeper)'
  <2> SUFFICES ASSUME NEW y, NEW j, Used(y, j)', IsDir(At(y, j))'
               PROVE  deeper[y] < deeper[At(y, j)'.key]
    BY DEF Nested
  <2>1. CASE y = d /\ j = i
    BY <1>0, <1>1, <1>4, <1>9, <2>1
  <2>2. CASE ~(y = d /\ j = i)
    <3>1. /\ Used(y, j) /\ At(y, j)' = At(y, j)
          /\ Footprint(At(y, j)) \cap free = {}
      BY <1>4, <2>2, OtherEntries DEF Sound
    <3>2. y \in Block /\ j \in Slots(y) /\ At(y, j).key \in Block
      BY <3>1, EntryTyped DEF Sound
    <3>3. At(y, j).key # b
      BY <3>1 DEF Footprint
    <3>4. y # b
      <4>1. b \in Block \ {Root} /\ blk'[b] = NewDirBlock
        BY <1>1, <1>4
      <4>2. \A k \in Slots(b) : At(b, k)' = Never
        BY <4>1, NewDirBlockEmpty DEF At
      <4> QED BY <4>2 DEF Used, InUse, IsEntry
    <3>5. IsDir(At(y, j))
      BY <3>1 DEF IsDir
    <3>6. depth[y] < depth[At(y, j).key]
      BY <3>1, <3>2, <3>5 DEF Nested
    <3> QED BY <1>9, <3>1, <3>2, <3>3, <3>4, <3>6
  <2> QED BY <2>1, <2>2
<1> QED BY <1>0, <1>4, <1>8, <1>9, <1>10 DEF Sound

(* A directory that is full takes a block: whatever goes into it, no entry *)
(* of the volume changes.                                                  *)
LEMMA NoSlotUsed ==
  ASSUME NEW d
  PROVE  NoSlot \notin Slots(d) /\ ~Used(d, NoSlot)
BY VolumeAssumption DEF Slots, NoSlot, Used, InUse

LEMMA GrownWriteSound ==
  ASSUME Sound, NEW d, IsDirBlock(d), d \notin free, NEW f \in SUBSET free,
         NEW p \in Payloads, CanStore(f, p),
         free' = FreeWithout(f, Found(f, p)),
         blk' = [BlocksWith(Found(f, p), p) EXCEPT ![d].count = @ + 1]
  PROVE  /\ Sound' /\ \A depth : Nested(depth) => Nested(depth)'
         /\ Edit(Taken(f, p), d, NoSlot, {})
<1> DEFINE found == Found(f, p)
           B == BlocksWith(found, p)
           W == Taken(f, p)
           c == blk[d].count + 1
<1>1. f \subseteq Block \ {Root} /\ d \in Block /\ d \notin f /\ f \in SUBSET Block
  BY DEF Sound, ImageTyped, IsDirBlock
<1>2. c \in Nat
  <2>1. blk[d] \in DirContent(d)
    BY DirBlockContent DEF Sound
  <2> QED BY <2>1 DEF DirContent
<1>3. W \subseteq f /\ free' = f \ W
  BY <1>1, NewBlocks
<1>4. B = [b \in Block |-> B[b]] /\ \A b \in Block \ W : B[b] = blk[b]
  <2>1. \A j \in DOMAIN DataList(found, p) : DataList(found, p)[j] \in W
    <3>1. DOMAIN DataList(found, p) = 1 .. DataBlocks(p)
      BY <1>1, NewBlocks
    <3>2. \A j \in 1 .. DataBlocks(p) : DataList(found, p)[j] \in W
      BY <1>1, NewBlocks
    <3> QED BY <3>1, <3>2
  <2>2. found[1] \in W
    BY <1>1, NewBlocks
  <2> QED BY <2>1, <2>2 DEF BlocksWith
<1>5. B[d] = blk[d] /\ B[Root].tag = "dir"
  BY <1>1, <1>3, <1>4 DEF Sound, ImageTyped, IsDirBlock
<1>6. OneEntry(B, d, NoSlot, Deleted, c) /\ Deleted \in SlotContent
  <2> HIDE DEF B
  <2>1. blk' = [B EXCEPT ![d].count = c]
    BY <1>1, <1>4, <1>5 DEF B
  <2> QED BY <2>1, NoSlotUsed DEF OneEntry, SlotContent
<1>7. \A b \in Block \ {d} : blk'[b] = B[b]
  <2> HIDE DEF B, c
  <2> QED BY <1>4, <1>6 DEF OneEntry
<1>8. /\ \A b \in W : blk'[b] \in Content(b) /\ blk'[b].tag # "dir"
      /\ \A b \in Block \ (W \cup {d}) : blk'[b] = blk[b]
  <2> HIDE DEF B
  <2>1. FileWritten(f, p, d)
    BY <1>1, <1>7 DEF B, FileWritten
  <2>2. FileStored(f, p, d, 0, 0)
    BY <1>1, <2>1, NewFile DEF Sound
  <2> QED BY <2>2 DEF FileStored
<1> HIDE DEF B, W, c
<1>9. \A b \in Block \ {d} : B[b] \in Content(b)
  BY <1>7, <1>8 DEF Sound, ImageTyped
<1>10. free' \subseteq Block \ {Root}
  BY <1>1, <1>3
<1>11. /\ ImageTyped' /\ IsDirBlock(d)'
       /\ \A j \in Slots(d) \ {NoSlot} : blk'[d].entries[j] = blk[d].entries[j]
  BY <1>2, <1>4, <1>5, <1>6, <1>9, <1>10, ImageAfter DEF Sound
<1>12. Edit(W, d, NoSlot, {})
  BY <1>1, <1>3, <1>8, <1>11 DEF Edit
<1>13. ~Used(d, NoSlot)'
  BY NoSlotUsed DEF Used, InUse
<1>14. Edited(W, d, NoSlot, {})
  BY <1>13 DEF Edited
<1>15. Sound' /\ \A depth : Nested(depth) => Nested(depth)'
  BY <1>11, <1>12, <1>13, <1>14, EditSound
<1> QED BY <1>12, <1>15 DEF W

LEMMA GrownCreateSound ==
  ASSUME Sound, NEW d, IsDirBlock(d), d \notin free, NEW b \in free,
         free' \subseteq free \ {b}, NEW c \in Nat,
         blk' = [blk EXCEPT ![b] = NewDirBlock, ![d].count = c]
  PROVE  /\ Sound' /\ \A depth : Nested(depth) => Nested(depth)'
         /\ Edit({b}, d, NoSlot, {})
<1>1. Deleted \in SlotContent
  BY DEF SlotContent
<1>2. b \in Block \ {Root} /\ b # d /\ d \in Block
  BY DEF Sound, ImageTyped, IsDirBlock
<1>3. OneEntry([blk EXCEPT ![b] = NewDirBlock], d, NoSlot, Deleted, c)
  BY <1>2, NoSlotUsed DEF OneEntry
<1>4. ImageTyped' /\ Edit({b}, d, NoSlot, {}) /\ blk'[b] = NewDirBlock
  BY <1>1, <1>3, DirectoryMade
<1>5. ~Used(d, NoSlot)'
  BY NoSlotUsed DEF Used, InUse
<1>6. Edited({b}, d, NoSlot, {})
  BY <1>5 DEF Edited
<1>7. Sound' /\ \A depth : Nested(depth) => Nested(depth)'
  BY <1>4, <1>5, <1>6, EditSound
<1> QED BY <1>4, <1>7

LEMMA GrownSound ==
  ASSUME Sound, free' \subseteq free, UNCHANGED blk
  PROVE  /\ Sound' /\ \A depth : Nested(depth) => Nested(depth)'
         /\ Edit({}, Root, NoSlot, {})
<1>1. ImageTyped'
  BY DEF Sound, ImageTyped, IsDirBlock
<1>2. Edit({}, Root, NoSlot, {})
  BY VolumeAssumption DEF Edit, Sound, ImageTyped, IsDirBlock
<1>3. ~Used(Root, NoSlot)'
  BY NoSlotUsed DEF Used, InUse
<1>4. Edited({}, Root, NoSlot, {})
  BY <1>3 DEF Edited
<1> QED BY <1>1, <1>2, <1>3, <1>4, EditSound
------------------------------------------------------------------------------
(* The inductive invariant holds at the start, and every command keeps it. *)
DirNamesApart ==
  \A d \in Block : IsDirBlock(d) =>
    \A i, j \in InUse(d) : At(d, i).name = At(d, j).name => i = j

\* What a command does to the entry that it edits: nothing is seen of it, a file
\* is written in it, over one that may go, the entry is removed, a directory is
\* made in it, or its name or its lock changes.
Untouched(d, i) == ~Used(d, i) /\ ~Used(d, i)'

Written(d, i) ==
  /\ Used(d, i)' /\ ~IsDir(At(d, i))' /\ ~At(d, i)'.locked
  /\ \E p \in Payloads : Stores(At(d, i), p)'
  /\ Used(d, i) => /\ ~IsDir(At(d, i)) /\ ~At(d, i).locked
                    /\ At(d, i)'.name = At(d, i).name

MayGo(d, i) ==
  IF IsDir(At(d, i)) THEN Shown(At(d, i).key) = {} ELSE ~At(d, i).locked

Removed(d, i) == Used(d, i) /\ ~Used(d, i)' /\ MayGo(d, i)

Made(d, i) == ~Used(d, i) /\ IsDir(At(d, i))'

Changed(d, i) ==
  /\ SameFile(d, i) /\ Used(d, i)'
  /\ ~IsDir(At(d, i)) => At(d, i)'.kind = At(d, i).kind
  /\ At(d, i)'.name = At(d, i).name \/ At(d, i)'.locked = At(d, i).locked

\* Where the blocks go: what is written is in the entry, what the entry had is
\* given back but for the last pointer of a full index; or a directory is full,
\* and blocks are lost.
FullDirectory == \E d \in Directories : FreeEntry(d) = NoSlot

LastPointer(e) == {Pointers(e)[j] : j \in {n \in DOMAIN Pointers(e) : n = IndexSize}}

Balanced(W, d, i, gone) ==
  \/ FullDirectory /\ ~Used(d, i)
  \/ /\ (free \cup gone) \ W \subseteq free'
     /\ W # {} => d \in Directories /\ Used(d, i)' /\ W \subseteq Footprint(At(d, i))'
     /\ Used(d, i) => \/ Changed(d, i) /\ W = {} /\ gone = {}
                      \/ Footprint(At(d, i)) \ gone \subseteq LastPointer(At(d, i))

EffectOn(W, d, i, gone) ==
  /\ Edit(W, d, i, gone) /\ Balanced(W, d, i, gone)
  /\ \/ Untouched(d, i) \/ Written(d, i) \/ Made(d, i)
     \/ Removed(d, i) /\ W = {}
     \/ Changed(d, i) /\ gone = {}

Effect == \E W, d, i, gone : EffectOn(W, d, i, gone)

Kept ==
  /\ Inv' /\ (LongNames = {} /\ NamesApart => NamesApart')
  /\ Effect

LEMMA EditNames ==
  ASSUME Sound, NEW W, NEW d, NEW i, NEW gone, Edit(W, d, i, gone), DirNamesApart,
         Used(d, i)' => \A j \in InUse(d) \ {i} : At(d, j).name # At(d, i)'.name
  PROVE  DirNamesApart'
<1> SUFFICES ASSUME NEW c \in Block, IsDirBlock(c)', NEW j, NEW k,
                    (j \in InUse(c))', (k \in InUse(c))', At(c, j)'.name = At(c, k)'.name
             PROVE  j = k
  BY DEF DirNamesApart
<1>1. Used(c, j)' /\ Used(c, k)'
  BY DEF Used
<1>2. ASSUME NEW x, Used(c, x)', ~(c = d /\ x = i)
      PROVE  IsDirBlock(c) /\ x \in InUse(c) /\ At(c, x)' = At(c, x)
  BY <1>2, OtherEntries DEF Sound, Used
<1>3. CASE ~(c = d /\ j = i) /\ ~(c = d /\ k = i)
  BY <1>1, <1>2, <1>3 DEF DirNamesApart
<1>4. CASE (c = d /\ j = i) /\ ~(c = d /\ k = i)
  <2>1. k \in InUse(d) \ {i} /\ At(c, k)' = At(c, k) /\ Used(d, i)'
    BY <1>1, <1>2, <1>4
  <2>2. At(d, k).name # At(d, i)'.name
    BY <2>1
  <2> QED BY <1>4, <2>1, <2>2
<1>5. CASE ~(c = d /\ j = i) /\ (c = d /\ k = i)
  <2>1. j \in InUse(d) \ {i} /\ At(c, j)' = At(c, j) /\ Used(d, i)'
    BY <1>1, <1>2, <1>5
  <2>2. At(d, j).name # At(d, i)'.name
    BY <2>1
  <2> QED BY <1>5, <2>1, <2>2
<1> QED BY <1>3, <1>4, <1>5

LEMMA InvInit == Init => Inv /\ NamesApart
<1> SUFFICES ASSUME Init PROVE Inv /\ NamesApart
  OBVIOUS
<1>1. /\ free = InitialFree /\ job = <<>> /\ after = NoWrite
      /\ blk = [b \in Block |->
                  IF b = Root
                  THEN [tag |-> "dir", count |-> 0, entries |-> [i \in Slots(Root) |-> Never]]
                  ELSE [tag |-> "blank"]]
  BY DEF Init
<1>2. /\ \A b \in Block \ {Root} : blk[b] = [tag |-> "blank"]
      /\ blk[Root] = [tag |-> "dir", count |-> 0, entries |-> [i \in Slots(Root) |-> Never]]
      /\ Root \in Block
  BY <1>1, VolumeAssumption
<1>3. ImageTyped
  <2>1. \A b \in Block \ {Root} : blk[b] \in Content(b)
    BY <1>2 DEF Content
  <2>2. blk[Root] \in Content(Root)
    BY <1>2 DEF Content
  <2>3. blk = [b \in Block |-> blk[b]] /\ free \in SUBSET (Block \ {Root})
    BY <1>1, VolumeAssumption
  <2> QED BY <1>2, <2>1, <2>2, <2>3 DEF ImageTyped, IsDirBlock
<1>4. CallsTyped
  BY <1>1 DEF CallsTyped
<1>5. \A d, i : ~Used(d, i)
  BY <1>2 DEF Used, IsDirBlock, InUse, IsEntry, At
<1>6. EntriesWhole /\ EntriesMarked /\ EntriesApart
  BY <1>5 DEF EntriesWhole, EntriesMarked, EntriesApart
<1>7. \E depth \in [Block -> Nat] : Nested(depth) /\ CallsNest(depth)
  <2>1. [b \in Block |-> 0] \in [Block -> Nat]
    OBVIOUS
  <2>2. \A depth : Nested(depth) /\ CallsNest(depth)
    BY <1>1, <1>5 DEF Nested, CallsNest
  <2> QED BY <2>1, <2>2
<1>8. WriteReady
  BY <1>1 DEF WriteReady
<1>9. NamesApart
  BY <1>1, <1>5 DEF NamesApart, Used
<1> QED BY <1>3, <1>4, <1>6, <1>7, <1>8, <1>9 DEF Inv

LEMMA InvSound == Inv => Sound
BY DEF Inv, Sound

\* Between the commands no call and no write waits.
LEMMA IdleKeeps ==
  ASSUME Inv, Idle, UNCHANGED <<job, after>>, Sound',
         \E depth \in [Block -> Nat] : Nested(depth)',
         LongNames = {} /\ DirNamesApart => DirNamesApart', Effect
  PROVE  Kept
<1>1. job' = <<>> /\ after' = NoWrite
  BY DEF Idle
<1>2. CallsTyped' /\ WriteReady' /\ \A depth : CallsNest(depth)'
  BY <1>1 DEF CallsTyped, WriteReady, CallsNest
<1>3. NoWrite' = NoWrite
  BY DEF NoWrite
<1>4. NamesApart <=> DirNamesApart
  BY DEF NamesApart, DirNamesApart, Idle
<1>5. NamesApart' <=> DirNamesApart'
  BY <1>1, <1>3 DEF NamesApart, DirNamesApart
<1> QED BY <1>2, <1>4, <1>5 DEF Kept, Inv, Sound

LEMMA InvNested == Inv => \E depth \in [Block -> Nat] : Nested(depth)
BY DEF Inv

\* The directory of a command.
LEMMA DirOfCommand ==
  ASSUME Inv, NEW path \in Path, NEW d, d = DirBlock(path), d # Null
  PROVE  /\ Linked(d) /\ IsDirBlock(d) /\ d \notin free /\ d \in Block
         /\ \A i \in InUse(d) : Used(d, i) /\ i \in Slots(d)
         /\ blk[d].count \in Nat /\ d \in Directories
<1>1. ImageTyped /\ EntriesWhole /\ EntriesMarked
  BY DEF Inv
<1>2. Linked(d) /\ IsDirBlock(d) /\ d \notin free
  BY <1>1, DirBlockLinked
<1>4. d \in Directories
  BY <1>1, DirBlockOnVolume
<1>3. blk[d] \in DirContent(d)
  BY <1>1, <1>2, DirBlockContent
<1> QED BY <1>2, <1>3, <1>4 DEF IsDirBlock, Used, InUse, DirContent

\* All of a file is given back but the last block of a full index.
LEMMA GivenBackButLast ==
  ASSUME Sound, NEW d, NEW i, Used(d, i), ~IsDir(At(d, i))
  PROVE  Footprint(At(d, i)) \ GivenBack(At(d, i)) \subseteq LastPointer(At(d, i))
<1>1. PICK e : e = At(d, i)
  OBVIOUS
<1>2. e.key \in Block /\ e.st # "dir" /\ Whole(e)
  <2>1. d \in Block /\ i \in Slots(d) /\ IsEntry(At(d, i)) /\ At(d, i).key \in Block
    BY EntryTyped DEF Sound, Used, InUse
  <2> QED BY <1>1, <2>1 DEF IsDir, Sound, EntriesWhole
<1>3. PICK p \in Payloads : Stores(e, p)
  BY <1>2 DEF Whole
<1>4. ASSUME NEW j \in DOMAIN Pointers(e) PROVE j < IndexSize \/ j = IndexSize
  <2>1. blk[e.key].tag = "index" /\ Pointers(e) = blk[e.key].ptrs /\ e.st = "sapling"
    BY <1>4 DEF Pointers
  <2>2. Pointers(e) \in Seq(Block)
    BY <1>2, <2>1 DEF Sound, ImageTyped, Content
  <2>3. Len(Pointers(e)) = DataBlocks(p) /\ DataBlocks(p) <= IndexSize
    BY <1>3, <2>1 DEF Stores
  <2>4. j \in 1 .. Len(Pointers(e)) /\ Len(Pointers(e)) \in Nat
    BY <1>4, <2>2
  <2> QED BY <2>3, <2>4, PayloadAssumption
<1>5. Footprint(e) \ GivenBack(e) \subseteq LastPointer(e)
  BY <1>4 DEF Footprint, GivenBack, GivenBackWithoutIndex, LastPointer
<1> QED BY <1>1, <1>5

\* A write puts a file where none was, or one of that name that may go.
LEMMA PublishedEffect ==
  ASSUME Sound, NEW f, NEW gone, NEW d, NEW i, NEW arg \in Typed, NEW k \in Kinds,
         NEW p \in Payloads, Published(f, gone, d, i, arg, k, p),
         Used(d, i) => /\ ~IsDir(At(d, i)) /\ ~At(d, i).locked /\ At(d, i).name = arg
                       /\ gone = GivenBack(At(d, i)),
         d \in Directories
  PROVE  Effect
<1>1. /\ Edit(Taken(f, p), d, i, gone) /\ Stores(At(d, i), p)' /\ Used(d, i)'
      /\ At(d, i)' = NewEntry(Found(f, p), arg, k, p)
  BY DEF Published
<1>2. At(d, i)'.st # "dir" /\ ~At(d, i)'.locked /\ At(d, i)'.name = Stored(arg)
  BY <1>1 DEF NewEntry
<1>3. ~IsDir(At(d, i))'
  BY <1>2 DEF IsDir
<1>4. Used(d, i) => Stored(arg) = arg
  <2> SUFFICES ASSUME Used(d, i) PROVE Stored(arg) = arg
    OBVIOUS
  <2>1. arg \in Names
    BY EntryTyped DEF Sound, Entry
  <2> QED BY <2>1, NameAssumption DEF Stored
<1>5. Written(d, i)
  BY <1>1, <1>2, <1>3, <1>4 DEF Written
<1>7. Balanced(Taken(f, p), d, i, gone)
  <2>1. Footprint(At(d, i))' = Taken(f, p) /\ free' = (free \cup gone) \ Taken(f, p)
    BY DEF Published
  <2>2. Used(d, i) => Footprint(At(d, i)) \ gone \subseteq LastPointer(At(d, i))
    BY GivenBackButLast
  <2> QED BY <1>1, <2>1, <2>2 DEF Balanced
<1>6. EffectOn(Taken(f, p), d, i, gone)
  BY <1>1, <1>5, <1>7 DEF EffectOn
<1> QED BY <1>6 DEF Effect

LEMMA WriteNewFileKeeps ==
  ASSUME Inv, NEW path \in Path, NEW arg \in Typed, NEW k \in Kinds, NEW p \in Payloads,
         WriteNewFile(path, arg, k, p)
  PROVE  Kept
<1>1. PICK d, i, c : d = DirBlock(path) /\ i = FreeEntry(d) /\ c = blk[d].count + 1
  OBVIOUS
<1>2. /\ Idle /\ d # Null /\ NamedEntry(d, arg) = NoSlot /\ i # NoSlot
      /\ CanStore(free, p) /\ Publish(free, d, i, arg, k, p, c)
      /\ UNCHANGED <<job, after>>
  BY <1>1 DEF WriteNewFile
<1>3. /\ IsDirBlock(d) /\ d \notin free /\ c \in Nat /\ d \in Directories
  BY <1>1, <1>2, DirOfCommand
<1>4. i \in Slots(d) /\ i \notin InUse(d)
  BY <1>1, <1>2, FreeEntryOf
<1>5. PICK gone, f : gone = {} /\ f = free
  OBVIOUS
<1>6. /\ f = free \cup gone /\ d \notin f /\ CanStore(f, p)
      /\ Publish(f, d, i, arg, k, p, c)
  BY <1>2, <1>3, <1>5
<1>7. /\ Sound' /\ \A depth : Nested(depth) => Nested(depth)'
      /\ Edit(Taken(f, p), d, i, gone)
      /\ At(d, i)' = NewEntry(Found(f, p), arg, k, p)
      /\ Published(f, gone, d, i, arg, k, p)
  <2>1. Publishes(f, gone, d, i, arg, k, p, c)
    BY <1>3, <1>4, <1>5, <1>6 DEF Publishes
  <2>2. Published(f, gone, d, i, arg, k, p)
    BY <2>1, InvSound, PublishSound
  <2> QED BY <2>2 DEF Published
<1>8. ASSUME LongNames = {}, DirNamesApart PROVE DirNamesApart'
  <2>1. At(d, i)'.name = arg
    BY <1>7, <1>8, StoredName DEF NewEntry
  <2>2. \A j \in InUse(d) : At(d, j).name # arg
    BY <1>2, NamedEntryOf
  <2> QED BY <1>7, <1>8, <2>1, <2>2, InvSound, EditNames
<1>9. Effect
  <2>1. Published(f, gone, d, i, arg, k, p) /\ ~Used(d, i)
    BY <1>4, <1>7 DEF Used
  <2> QED BY <1>3, <2>1, InvSound, PublishedEffect
<1> QED BY <1>2, <1>7, <1>8, <1>9, InvNested, IdleKeeps

\* No directory is part of a file.
LEMMA NotInFile ==
  ASSUME Sound, NEW c, IsDirBlock(c), NEW d, NEW i, Used(d, i), ~IsDir(At(d, i))
  PROVE  c \notin Footprint(At(d, i))
<1>1. PICK e : e = At(d, i)
  OBVIOUS
<1>2. /\ e.key \in Block /\ e.st # "dir" /\ Whole(e)
  <2>1. d \in Block /\ i \in Slots(d) /\ IsEntry(At(d, i)) /\ At(d, i).key \in Block
    BY EntryTyped DEF Sound, Used, InUse
  <2> QED BY <1>1, <2>1 DEF IsDir, Sound, EntriesWhole
<1>3. \A b \in Footprint(e) : blk[b].tag \in {"data", "index"}
  BY <1>2, FileBlocks DEF Sound
<1> QED BY <1>1, <1>3 DEF IsDirBlock

\* The entry that a name finds is in use, and the only one of that name.
LEMMA FoundByName ==
  ASSUME Inv, NEW path \in Path, NEW arg, NEW d, d = DirBlock(path), d # Null,
         NEW i, i = NamedEntry(d, arg), i # NoSlot
  PROVE  /\ Used(d, i) /\ i \in Slots(d) /\ i \in InUse(d) /\ At(d, i).name = arg
         /\ DirNamesApart => \A j \in InUse(d) \ {i} : At(d, j).name # arg
<1>1. i \in InUse(d) /\ At(d, i).name = arg
  BY NamedEntryOf
<1>2. d \in Block /\ IsDirBlock(d) /\ Used(d, i) /\ i \in Slots(d)
  BY <1>1, DirOfCommand
<1> QED BY <1>1, <1>2 DEF DirNamesApart

LEMMA ReplaceFileKeeps ==
  ASSUME Inv, NEW path \in Path, NEW arg \in Typed, NEW k \in Kinds, NEW p \in Payloads,
         ReplaceFile(path, arg, k, p)
  PROVE  Kept
<1>1. PICK d, i : d = DirBlock(path) /\ i = NamedEntry(d, arg)
  OBVIOUS
<1>2. PICK gone, c, f : /\ gone = GivenBack(At(d, i)) /\ c = Less(blk[d].count) + 1
                        /\ f = free \cup gone
  OBVIOUS
<1>3. /\ Idle /\ d # Null /\ i # NoSlot /\ ~IsDir(At(d, i)) /\ ~At(d, i).locked
      /\ CanStore(f, p) /\ Publish(f, d, i, arg, k, p, c)
      /\ UNCHANGED <<job, after>>
  BY <1>1, <1>2 DEF ReplaceFile, Removable
<1>4. /\ IsDirBlock(d) /\ d \notin free /\ blk[d].count \in Nat /\ d \in Directories
  BY <1>1, <1>3, DirOfCommand
<1>5. /\ Used(d, i) /\ i \in Slots(d) /\ At(d, i).name = arg
      /\ DirNamesApart => \A j \in InUse(d) \ {i} : At(d, j).name # arg
  BY <1>1, <1>3, FoundByName
<1>6. gone \subseteq Footprint(At(d, i)) /\ c \in Nat
  BY <1>2, <1>4, GivenBackOccupied, CountAfter
<1>7. d \notin f
  BY <1>2, <1>3, <1>4, <1>5, <1>6, NotInFile, InvSound
<1>8. Publishes(f, gone, d, i, arg, k, p, c)
  BY <1>2, <1>3, <1>4, <1>5, <1>6, <1>7 DEF Publishes
<1>9. Published(f, gone, d, i, arg, k, p)
  BY <1>8, InvSound, PublishSound
<1>10. /\ Sound' /\ \A depth : Nested(depth) => Nested(depth)'
       /\ Edit(Taken(f, p), d, i, gone)
       /\ At(d, i)' = NewEntry(Found(f, p), arg, k, p)
  BY <1>9 DEF Published
<1>11. ASSUME LongNames = {}, DirNamesApart PROVE DirNamesApart'
  <2>1. At(d, i)'.name = arg
    BY <1>10, <1>11, StoredName DEF NewEntry
  <2>2. \A j \in InUse(d) \ {i} : At(d, j).name # arg
    BY <1>5, <1>11
  <2> QED BY <1>10, <1>11, <2>1, <2>2, InvSound, EditNames
<1>12. Effect
  BY <1>2, <1>3, <1>4, <1>5, <1>9, InvSound, PublishedEffect
<1> QED BY <1>3, <1>10, <1>11, <1>12, InvNested, IdleKeeps

LEMMA RemovedEffect ==
  ASSUME NEW d, NEW i, NEW gone, Edit({}, d, i, gone), Used(d, i), ~Used(d, i)',
         MayGo(d, i), free' = free \cup gone,
         Footprint(At(d, i)) \ gone \subseteq LastPointer(At(d, i))
  PROVE  Effect
<1>1. Removed(d, i)
  BY DEF Removed
<1>3. Balanced({}, d, i, gone)
  BY DEF Balanced
<1>2. EffectOn({}, d, i, gone)
  BY <1>1, <1>3 DEF EffectOn
<1> QED BY <1>2 DEF Effect

\* A file is removed, for good or because the new one does not fit.
LEMMA RemoveKeeps ==
  ASSUME Inv, NEW path \in Path, NEW arg \in Typed, NEW d, d = DirBlock(path),
         NEW i, i = NamedEntry(d, arg), Idle, d # Null, i # NoSlot,
         MayGo(d, i), ~IsDir(At(d, i)),
         NEW gone, gone = GivenBack(At(d, i)), RemoveEntry(d, i, gone), UNCHANGED <<job, after>>
  PROVE  Kept
<1>1. Used(d, i)
  BY FoundByName
<1>2. gone \subseteq Footprint(At(d, i))
  BY GivenBackOccupied
<1>3. /\ Sound' /\ \A depth : Nested(depth) => Nested(depth)'
      /\ Edit({}, d, i, gone) /\ ~Used(d, i)'
  BY <1>1, <1>2, InvSound, RemoveSound
<1>4. DirNamesApart => DirNamesApart'
  BY <1>3, InvSound, EditNames
<1>5. Effect
  <2>1. Footprint(At(d, i)) \ gone \subseteq LastPointer(At(d, i))
    BY <1>1, InvSound, GivenBackButLast
  <2>2. free' = free \cup gone
    BY DEF RemoveEntry
  <2> QED BY <1>1, <1>3, <2>1, <2>2, RemovedEffect
<1> QED BY <1>3, <1>4, <1>5, InvNested, IdleKeeps

LEMMA ReplaceNoRoomKeeps ==
  ASSUME Inv, NEW path \in Path, NEW arg \in Typed, NEW p \in Payloads,
         ReplaceNoRoom(path, arg, p)
  PROVE  Kept
<1>1. PICK d, i : d = DirBlock(path) /\ i = NamedEntry(d, arg)
  OBVIOUS
<1>2. PICK gone : gone = GivenBack(At(d, i))
  OBVIOUS
<1>3. /\ Idle /\ d # Null /\ i # NoSlot /\ RemoveEntry(d, i, gone) /\ UNCHANGED <<job, after>>
      /\ MayGo(d, i) /\ ~IsDir(At(d, i))
  BY <1>1, <1>2 DEF ReplaceNoRoom, Removable, MayGo
<1> QED BY <1>1, <1>2, <1>3, RemoveKeeps

LEMMA DeleteFileKeeps ==
  ASSUME Inv, NEW path \in Path, NEW arg \in Typed, DeleteFile(path, arg)
  PROVE  Kept
<1>1. PICK d, i : d = DirBlock(path) /\ i = NamedEntry(d, arg)
  OBVIOUS
<1>2. PICK gone : gone = GivenBack(At(d, i))
  OBVIOUS
<1>3. /\ Idle /\ d # Null /\ i # NoSlot /\ RemoveEntry(d, i, gone) /\ UNCHANGED <<job, after>>
      /\ MayGo(d, i) /\ ~IsDir(At(d, i))
  BY <1>1, <1>2 DEF DeleteFile, Removable, MayGo
<1> QED BY <1>1, <1>2, <1>3, RemoveKeeps

LEMMA UntouchedEffect ==
  ASSUME NEW W, NEW d, NEW i, NEW gone, Edit(W, d, i, gone), ~Used(d, i), ~Used(d, i)',
         FullDirectory \/ (W = {} /\ free \cup gone \subseteq free')
  PROVE  Effect
<1>2. Balanced(W, d, i, gone)
  BY DEF Balanced
<1>1. EffectOn(W, d, i, gone)
  BY <1>2 DEF EffectOn, Untouched
<1> QED BY <1>1 DEF Effect

\* What goes into a block that no directory links is not in the volume.
LEMMA WriteToGrownBlockKeeps ==
  ASSUME Inv, NEW path \in Path, NEW arg \in Typed, NEW p \in Payloads,
         WriteToGrownBlock(path, arg, p)
  PROVE  Kept
<1>1. PICK d, f : d = DirBlock(path) /\ f = free \ {Grown}
  OBVIOUS
<1>2. /\ Idle /\ d # Null /\ CanStore(f, p) /\ free' = FreeWithout(f, Found(f, p))
      /\ blk' = [BlocksWith(Found(f, p), p) EXCEPT ![d].count = @ + 1]
      /\ UNCHANGED <<job, after>> /\ FreeEntry(d) = NoSlot
  BY <1>1 DEF WriteToGrownBlock, MustGrow
<1>3. IsDirBlock(d) /\ d \notin free /\ f \in SUBSET free /\ FullDirectory
  BY <1>1, <1>2, DirOfCommand DEF FullDirectory
<1>4. /\ Sound' /\ \A depth : Nested(depth) => Nested(depth)'
      /\ Edit(Taken(f, p), d, NoSlot, {})
  BY <1>2, <1>3, InvSound, GrownWriteSound
<1>5. ~Used(d, NoSlot) /\ ~Used(d, NoSlot)'
  BY NoSlotUsed DEF Used, InUse
<1>6. DirNamesApart => DirNamesApart'
  BY <1>4, <1>5, InvSound, EditNames
<1>7. Effect
  BY <1>3, <1>4, <1>5, UntouchedEffect
<1> QED BY <1>2, <1>4, <1>6, <1>7, InvNested, IdleKeeps

LEMMA GrowForNothingKeeps ==
  ASSUME Inv, NEW path \in Path, NEW arg \in Typed, GrowForNothing(path, arg)
  PROVE  Kept
<1>1. Idle /\ free' \subseteq free /\ UNCHANGED blk /\ UNCHANGED <<job, after>>
  BY DEF GrowForNothing
<1>2. /\ Sound' /\ \A depth : Nested(depth) => Nested(depth)'
      /\ Edit({}, Root, NoSlot, {})
  BY <1>1, InvSound, GrownSound
<1>3. DirNamesApart => DirNamesApart'
  BY <1>1 DEF DirNamesApart, IsDirBlock, InUse, IsEntry, At
<1>4. ~Used(Root, NoSlot) /\ ~Used(Root, NoSlot)'
  BY NoSlotUsed DEF Used, InUse
<1>6. FullDirectory
  <2>1. PICK d : d = DirBlock(path)
    OBVIOUS
  <2>2. d # Null /\ FreeEntry(d) = NoSlot
    BY <2>1 DEF GrowForNothing, MustGrow
  <2>3. d \in Directories
    BY <2>1, <2>2, DirOfCommand
  <2> QED BY <2>2, <2>3 DEF FullDirectory
<1>5. Effect
  BY <1>2, <1>4, <1>6, UntouchedEffect
<1> QED BY <1>1, <1>2, <1>3, <1>5, InvNested, IdleKeeps

LEMMA CreateDirectoryKeeps ==
  ASSUME Inv, NEW path \in Path, NEW arg \in Typed, CreateDirectory(path, arg)
  PROVE  Kept
<1>1. PICK d, i, b, n : /\ d = DirBlock(path) /\ i = FreeEntry(d) /\ b = Min(free)
                        /\ n = Stored(arg)
  OBVIOUS
<1>2. PICK c : c = blk[Root].count + 1
  OBVIOUS
<1>3. /\ Idle /\ d # Null /\ NamedEntry(d, arg) = NoSlot /\ i # NoSlot /\ free # {}
      /\ free' = free \ {b}
      /\ blk' = [blk EXCEPT ![b] = NewDirBlock,
                            ![d].entries[i] =
                               [name |-> n, st |-> "dir", key |-> b, locked |-> FALSE],
                            ![d].count = c]
      /\ UNCHANGED <<job, after>>
  BY <1>1, <1>2 DEF CreateDirectory
<1>4. IsDirBlock(d) /\ d \notin free /\ d \in Directories
  BY <1>1, <1>3, DirOfCommand
<1>5. i \in Slots(d) /\ i \notin InUse(d)
  BY <1>1, <1>3, FreeEntryOf
<1>6. b \in free
  <2>1. free \in SUBSET Block
    BY DEF Inv, ImageTyped
  <2> QED BY <1>1, <1>3, <2>1, LowestBlock
<1>7. n \in Names /\ c \in Nat
  <2>1. blk[Root] \in DirContent(Root)
    BY DirBlockContent DEF Inv, ImageTyped
  <2> QED BY <1>1, <1>2, <2>1, StoredName DEF DirContent
<1>8. PICK depth \in [Block -> Nat] : Nested(depth)
  BY InvNested
<1>9. /\ Sound' /\ \E deeper \in [Block -> Nat] : Nested(deeper)'
      /\ Edit({b}, d, i, {})
      /\ At(d, i)' = [name |-> n, st |-> "dir", key |-> b, locked |-> FALSE]
  BY <1>3, <1>4, <1>5, <1>6, <1>7, <1>8, InvSound, CreateSound, ZenonT(60)
<1>10. ASSUME LongNames = {}, DirNamesApart PROVE DirNamesApart'
  <2>1. At(d, i)'.name = arg
    BY <1>1, <1>9, <1>10, StoredName
  <2>2. \A j \in InUse(d) : At(d, j).name # arg
    BY <1>3, NamedEntryOf
  <2> QED BY <1>9, <1>10, <2>1, <2>2, InvSound, EditNames
<1>11. Effect
  <2>1. Made(d, i)
    <3>1. ~Used(d, i)
      BY <1>5 DEF Used
    <3>2. At(d, i)' \in Entry /\ At(d, i)'.st = "dir"
      <4>1. b \in Block
        BY <1>6 DEF Inv, ImageTyped
      <4> QED BY <1>7, <1>9, <4>1 DEF Entry
    <3>3. IsDir(At(d, i))'
      BY <3>2, EntryAssumption DEF IsDir, IsEntry
    <3> QED BY <3>1, <3>3 DEF Made
  <2>3. Balanced({b}, d, i, {})
    <3>1. Footprint(At(d, i))' = {b}
      BY <1>9 DEF Footprint, Pointers
    <3>2. Used(d, i)'
      BY <1>5, <1>9, <2>1 DEF Made, Used, InUse, IsDir, Edit, IsDirBlock
    <3>3. ~Used(d, i)
      BY <2>1 DEF Made
    <3> QED BY <1>3, <1>4, <3>1, <3>2, <3>3 DEF Balanced
  <2>2. EffectOn({b}, d, i, {})
    BY <1>9, <2>1, <2>3 DEF EffectOn
  <2> QED BY <2>2 DEF Effect
<1> QED BY <1>3, <1>9, <1>10, <1>11, IdleKeeps

LEMMA CreateInGrownBlockKeeps ==
  ASSUME Inv, NEW path \in Path, NEW arg \in Typed, CreateInGrownBlock(path, arg)
  PROVE  Kept
<1>1. PICK d, f : d = DirBlock(path) /\ f = free \ {Grown}
  OBVIOUS
<1>2. PICK b, c : b = Min(f) /\ c = blk[Root].count + 1
  OBVIOUS
<1>3. /\ Idle /\ d # Null /\ f # {} /\ free' = f \ {b}
      /\ blk' = [blk EXCEPT ![b] = NewDirBlock, ![d].count = c]
      /\ UNCHANGED <<job, after>> /\ FreeEntry(d) = NoSlot
  BY <1>1, <1>2 DEF CreateInGrownBlock, MustGrow
<1>4. IsDirBlock(d) /\ d \notin free /\ FullDirectory
  BY <1>1, <1>3, DirOfCommand DEF FullDirectory
<1>5. b \in free /\ free' \subseteq free \ {b}
  <2>1. f \in SUBSET Block
    BY <1>1 DEF Inv, ImageTyped
  <2> QED BY <1>1, <1>2, <1>3, <2>1, LowestBlock
<1>6. c \in Nat
  <2>1. blk[Root] \in DirContent(Root)
    BY DirBlockContent DEF Inv, ImageTyped
  <2> QED BY <1>2, <2>1 DEF DirContent
<1>7. /\ Sound' /\ \A depth : Nested(depth) => Nested(depth)'
      /\ Edit({b}, d, NoSlot, {})
  BY <1>3, <1>4, <1>5, <1>6, InvSound, GrownCreateSound
<1>8. ~Used(d, NoSlot) /\ ~Used(d, NoSlot)'
  BY NoSlotUsed DEF Used, InUse
<1>9. DirNamesApart => DirNamesApart'
  BY <1>7, <1>8, InvSound, EditNames
<1>10. Effect
  BY <1>4, <1>7, <1>8, UntouchedEffect
<1> QED BY <1>3, <1>7, <1>9, <1>10, InvNested, IdleKeeps

\* The name or the lock of the entry that the user named changes.
Changes(d, i, e) ==
  /\ Idle /\ UNCHANGED <<free, job, after>>
  /\ Used(d, i) /\ e \in Entry
  /\ e.st = At(d, i).st /\ e.key = At(d, i).key
  /\ e.st # "dir" => e.size = At(d, i).size /\ e.kind = At(d, i).kind
  /\ e.name = At(d, i).name \/ e.locked = At(d, i).locked
  /\ blk' = [blk EXCEPT ![d].entries[i] = e]
  /\ LongNames = {} /\ DirNamesApart => \A j \in InUse(d) \ {i} : At(d, j).name # e.name

LEMMA ChangeKeeps ==
  ASSUME Inv, NEW d, NEW i, NEW e, Changes(d, i, e)
  PROVE  Kept
<1>1. /\ Sound' /\ \A depth : Nested(depth) => Nested(depth)'
      /\ Edit({}, d, i, {}) /\ At(d, i)' = e /\ Used(d, i)'
  BY InvSound, ChangeSound DEF Changes
<1>2. LongNames = {} /\ DirNamesApart => DirNamesApart'
  BY <1>1, InvSound, EditNames DEF Changes
<1>3. Effect
  <2>1. Changed(d, i)
    <3>1. SameFile(d, i)
      BY <1>1 DEF Changes, SameFile
    <3>2. ~IsDir(At(d, i)) => e.st # "dir"
      BY DEF Changes, IsDir, Used, InUse
    <3> QED BY <1>1, <3>1, <3>2 DEF Changes, Changed
  <2>3. Balanced({}, d, i, {})
    BY <2>1 DEF Balanced, Changes
  <2>2. EffectOn({}, d, i, {})
    BY <1>1, <2>1, <2>3 DEF EffectOn
  <2> QED BY <2>2 DEF Effect
<1> QED BY <1>1, <1>2, <1>3, InvNested, IdleKeeps DEF Changes

LEMMA SetLockedKeeps ==
  ASSUME Inv, NEW path \in Path, NEW arg \in Typed, NEW lock \in BOOLEAN,
         SetLocked(path, arg, lock)
  PROVE  Kept
<1>1. PICK d, i : d = DirBlock(path) /\ i = NamedEntry(d, arg)
  OBVIOUS
<1>2. /\ Idle /\ d # Null /\ i # NoSlot /\ UNCHANGED <<free, job, after>>
      /\ blk' = [blk EXCEPT ![d].entries[i].locked = lock]
  BY <1>1 DEF SetLocked
<1>3. /\ Used(d, i) /\ At(d, i).name = arg
      /\ DirNamesApart => \A j \in InUse(d) \ {i} : At(d, j).name # arg
  BY <1>1, <1>2, FoundByName
<1>4. PICK a : a = At(d, i)
  OBVIOUS
<1>5. a \in Entry
  BY <1>3, <1>4, EntryTyped DEF Inv
<1>6. PICK e : e = [a EXCEPT !.locked = lock]
  OBVIOUS
<1>7. /\ e \in Entry /\ e.st = a.st /\ e.key = a.key /\ e.name = a.name
      /\ e.st # "dir" => e.size = a.size /\ e.kind = a.kind
  BY <1>5, <1>6 DEF Entry
<1>8. blk' = [blk EXCEPT ![d].entries[i] = e]
  BY <1>2, <1>4, <1>6 DEF At
<1>9. Changes(d, i, e)
  BY <1>2, <1>3, <1>4, <1>7, <1>8 DEF Changes
<1> QED BY <1>9, ChangeKeeps

LEMMA RenameFileKeeps ==
  ASSUME Inv, NEW path \in Path, NEW arg \in Typed, NEW newarg \in Typed,
         RenameFile(path, arg, newarg)
  PROVE  Kept
<1>1. PICK d, i : d = DirBlock(path) /\ i = NamedEntry(d, arg)
  OBVIOUS
<1>2. /\ Idle /\ d # Null /\ i # NoSlot /\ UNCHANGED <<free, job, after>>
      /\ NamedEntry(d, newarg) = NoSlot
      /\ blk' = [blk EXCEPT ![d].entries[i].name = Stored(newarg)]
  BY <1>1 DEF RenameFile
<1>3. Used(d, i)
  BY <1>1, <1>2, FoundByName
<1>4. PICK a : a = At(d, i)
  OBVIOUS
<1>5. a \in Entry
  BY <1>3, <1>4, EntryTyped DEF Inv
<1>6. PICK e : e = [a EXCEPT !.name = Stored(newarg)]
  OBVIOUS
<1>7. Stored(newarg) \in Names /\ (LongNames = {} => Stored(newarg) = newarg)
  BY StoredName
<1>8. /\ e \in Entry /\ e.st = a.st /\ e.key = a.key /\ e.name = Stored(newarg)
      /\ e.locked = a.locked
      /\ e.st # "dir" => e.size = a.size /\ e.kind = a.kind
  BY <1>5, <1>6, <1>7 DEF Entry
<1>9. blk' = [blk EXCEPT ![d].entries[i] = e]
  BY <1>2, <1>4, <1>6 DEF At
<1>10. \A j \in InUse(d) : At(d, j).name # newarg
  BY <1>2, NamedEntryOf
<1>11. Changes(d, i, e)
  BY <1>2, <1>3, <1>4, <1>7, <1>8, <1>9, <1>10 DEF Changes
<1> QED BY <1>11, ChangeKeeps
------------------------------------------------------------------------------
(* The removal of a directory: the calls that have not returned.           *)
LEMMA FrameTyped ==
  ASSUME Sound, NEW d, NEW i, Used(d, i), IsDir(At(d, i))
  PROVE  /\ Frame(d, i) \in Frames
         /\ Frame(d, i).dir = d /\ Frame(d, i).slot = i
         /\ Frame(d, i).left \subseteq InUse(At(d, i).key)
         /\ IsDirBlock(At(d, i).key) /\ At(d, i).key \notin free \cup {Root}
<1>1. d \in Block /\ i \in Slots(d) /\ i \in Nat /\ At(d, i).key \in Block
  BY EntryTyped, VolumeAssumption DEF Sound, Slots
<1>2. PICK key : key = At(d, i).key
  OBVIOUS
<1>3. IsDirBlock(key)
  BY <1>1, <1>2 DEF Sound, EntriesWhole, Whole, IsDir
<1>4. key \notin free \cup {Root}
  BY <1>1, <1>2 DEF Sound, EntriesMarked, Footprint
<1>5. Shown(key) \subseteq InUse(key)
  BY DEF Shown
<1>6. InUse(key) \subseteq Slots(Null)
  BY <1>4, VolumeAssumption DEF InUse, Slots, Null, Block
<1>7. Frame(d, i) = [dir |-> d, slot |-> i, left |-> Shown(key)]
  BY <1>2 DEF Frame
<1> QED BY <1>1, <1>2, <1>3, <1>4, <1>5, <1>6, <1>7 DEF Frames

LEMMA TopOfCalls ==
  ASSUME Inv, job # <<>>
  PROVE  /\ Len(job) \in Nat \ {0} /\ DOMAIN job = 1 .. Len(job) /\ Top = job[Len(job)]
         /\ \A n \in 1 .. Len(job) : job[n] \in Frames
         /\ Callers \in Seq(Frames) /\ Len(Callers) = Len(job) - 1
         /\ \A n \in 1 .. Len(job) - 1 : Callers[n] = job[n]
         /\ Used(Top.dir, Top.slot) /\ IsDir(At(Top.dir, Top.slot))
         /\ Top.left \subseteq InUse(TopDir) /\ IsDirBlock(TopDir) /\ TopDir \in Block
<1>1. job \in Seq(Frames)
  BY DEF Inv, CallsTyped
<1>2. /\ Len(job) \in Nat \ {0} /\ DOMAIN job = 1 .. Len(job) /\ Top = job[Len(job)]
      /\ \A n \in 1 .. Len(job) : job[n] \in Frames
  BY <1>1 DEF Top
<1>3. /\ Callers \in Seq(Frames) /\ Len(Callers) = Len(job) - 1
      /\ \A n \in 1 .. Len(job) - 1 : Callers[n] = job[n]
  BY <1>1, <1>2 DEF Callers
<1>4. /\ Used(Top.dir, Top.slot) /\ IsDir(At(Top.dir, Top.slot))
      /\ Top.left \subseteq InUse(TopDir)
  BY <1>2 DEF Inv, CallsNest, KeyOf, TopDir
<1>5. IsDirBlock(TopDir)
  BY <1>4, InvSound, FrameTyped DEF TopDir
<1> QED BY <1>2, <1>3, <1>4, <1>5 DEF IsDirBlock

LEMMA WithTop ==
  ASSUME Inv, job # <<>>, NEW fr \in Frames, NEW calls, calls = Append(Callers, fr)
  PROVE  /\ calls \in Seq(Frames) /\ Len(calls) = Len(job) /\ DOMAIN calls = 1 .. Len(job)
         /\ \A n \in 1 .. Len(job) - 1 : calls[n] = job[n]
         /\ calls[Len(job)] = fr
<1>1. PICK up, n : up = Callers /\ n = Len(job)
  OBVIOUS
<1>2. /\ up \in Seq(Frames) /\ Len(up) = n - 1 /\ n \in Nat \ {0}
      /\ \A k \in 1 .. n - 1 : up[k] = job[k]
  BY <1>1, TopOfCalls
<1>3. /\ calls \in Seq(Frames) /\ Len(calls) = n /\ calls[n] = fr
      /\ \A k \in 1 .. n - 1 : calls[k] = up[k]
  BY <1>1, <1>2
<1> QED BY <1>1, <1>2, <1>3

\* No directory on the way to the one that is removed is inside it.
LEMMA DepthOfCalls ==
  ASSUME Inv, job # <<>>, NEW depth \in [Block -> Nat], Nested(depth), CallsNest(depth)
  PROVE  \A n \in 1 .. Len(job) :
           /\ job[n].dir # TopDir
           /\ n < Len(job) => KeyOf(n) # TopDir /\ job[n].dir # Top.dir
           /\ n < Len(job) - 1 => KeyOf(n) # Top.dir
<1>1. PICK L : L = Len(job)
  OBVIOUS
<1>2. /\ L \in Nat \ {0} /\ DOMAIN job = 1 .. L /\ Top = job[L] /\ TopDir \in Block
      /\ \A n \in 1 .. L : job[n] \in Frames
      /\ Used(Top.dir, Top.slot) /\ IsDir(At(Top.dir, Top.slot))
  BY <1>1, TopOfCalls
<1>3. \A n \in 1 .. L : job[n].dir \in Block /\ depth[job[n].dir] \in Nat
  BY <1>2 DEF Frames
<1>4. depth[Top.dir] < depth[TopDir]
  <2>1. Top.dir \in Block /\ Top.slot \in Slots(Top.dir)
    BY <1>2, InvSound, EntryTyped DEF Sound
  <2> QED BY <1>2, <2>1 DEF Nested, TopDir
<1>5. \A n \in 1 .. L : n < L => depth[job[n].dir] < depth[Top.dir]
  <2>1. L \in DOMAIN job /\ \A m, n \in DOMAIN job : m < n => depth[job[m].dir] < depth[job[n].dir]
    BY <1>2 DEF CallsNest
  <2> QED BY <1>2, <2>1
<1>6. \A n \in 1 .. L : n < L => KeyOf(n) = job[n + 1].dir /\ n + 1 \in 1 .. L
  <2>1. \A n \in 1 .. L : n < L => n + 1 \in 1 .. L
    BY <1>2
  <2> QED BY <1>2, <2>1 DEF CallsNest
<1>7. depth[TopDir] \in Nat
  BY <1>2
<1>8. ASSUME NEW n \in 1 .. L
      PROVE  /\ job[n].dir # TopDir
             /\ n < L => job[n].dir # Top.dir
  <2>1. n < L \/ n = L
    BY <1>2
  <2> QED BY <1>2, <1>3, <1>4, <1>5, <1>7, <2>1
<1>9. ASSUME NEW n \in 1 .. L, n < L
      PROVE  KeyOf(n) # TopDir /\ (n < L - 1 => KeyOf(n) # Top.dir)
  <2>1. KeyOf(n) = job[n + 1].dir /\ n + 1 \in 1 .. L
    BY <1>6, <1>9
  <2>2. n < L - 1 => n + 1 < L
    BY <1>2
  <2> QED BY <1>8, <2>1, <2>2
<1> QED BY <1>1, <1>8, <1>9

\* All entries but one stay as they are.
Removes(d, i) ==
  \A c, j : Used(c, j) /\ ~(c = d /\ j = i) => Used(c, j)' /\ At(c, j)' = At(c, j)

LEMMA RemovesOne ==
  ASSUME Sound, NEW d, NEW i, Used(d, i), NEW freed, freed \subseteq Footprint(At(d, i)),
         RemoveEntry(d, i, freed)
  PROVE  Removes(d, i)
<1>1. /\ IsDirBlock(d)' /\ \A b \in Block \ {d} : blk'[b] = blk[b]
      /\ \A j \in Slots(d) \ {i} : At(d, j)' = At(d, j)
  BY RemoveSound
<1> SUFFICES ASSUME NEW c, NEW j, Used(c, j), ~(c = d /\ j = i)
             PROVE  Used(c, j)' /\ At(c, j)' = At(c, j)
  BY DEF Removes
<1>2. c \in Block /\ j \in Slots(c) /\ IsEntry(At(c, j))
  BY DEF Used, IsDirBlock, InUse
<1>3. At(c, j)' = At(c, j)
  BY <1>1, <1>2 DEF At
<1>4. IsDirBlock(c)'
  BY <1>1 DEF Used, IsDirBlock
<1> QED BY <1>2, <1>3, <1>4 DEF Used, InUse, IsEntry

\* The calls still nest when an entry that none of them is about is removed.
CallsKeep(d, i) ==
  /\ job' \in Seq(Frames) /\ DOMAIN job' \subseteq DOMAIN job
  /\ \A n \in DOMAIN job' :
       /\ job'[n].dir = job[n].dir /\ job'[n].slot = job[n].slot
       /\ job'[n].left \subseteq job[n].left
       /\ ~(job[n].dir = d /\ job[n].slot = i)
       /\ KeyOf(n) = d => i \notin job'[n].left

LEMMA RemoveNests ==
  ASSUME Inv, NEW d, NEW i, Removes(d, i), CallsKeep(d, i), NEW depth, CallsNest(depth)
  PROVE  CallsNest(depth)'
<1>1. ASSUME NEW n \in DOMAIN job'
      PROVE  /\ n \in DOMAIN job /\ KeyOf(n)' = KeyOf(n)
             /\ (Used(job[n].dir, job[n].slot) /\ IsDir(At(job[n].dir, job[n].slot)))'
             /\ job'[n].left \subseteq InUse(KeyOf(n))'
  <2>1. n \in DOMAIN job /\ job'[n].dir = job[n].dir /\ job'[n].slot = job[n].slot
    BY DEF CallsKeep
  <2>2. Used(job[n].dir, job[n].slot) /\ IsDir(At(job[n].dir, job[n].slot))
    BY <2>1 DEF CallsNest
  <2>3. PICK x, y : x = job[n].dir /\ y = job[n].slot
    OBVIOUS
  <2>4. Used(x, y)' /\ At(x, y)' = At(x, y)
    BY <2>2, <2>3 DEF Removes, CallsKeep
  <2>5. PICK key : key = KeyOf(n)
    OBVIOUS
  <2>6. KeyOf(n)' = key
    BY <2>1, <2>3, <2>4, <2>5 DEF KeyOf
  <2>7. IsDirBlock(key)
    BY <2>2, <2>5, InvSound, FrameTyped DEF KeyOf
  <2>8. ASSUME NEW z \in job'[n].left PROVE (z \in InUse(key))'
    <3>1. z \in InUse(key)
      BY <2>1, <2>5 DEF CallsKeep, CallsNest
    <3>2. Used(key, z)
      BY <2>7, <3>1 DEF Used
    <3>3. ~(key = d /\ z = i)
      BY <2>5 DEF CallsKeep
    <3> QED BY <3>2, <3>3 DEF Removes, Used
  <2>9. (InUse(key))' = InUse(KeyOf(n))'
    BY <2>5, <2>6 DEF InUse, At
  <2>10. job'[n].dir = x /\ job'[n].slot = y
    BY <2>1, <2>3
  <2>11. Used(job[n].dir, job[n].slot)'
    BY <2>4, <2>10 DEF Used, InUse, IsDirBlock, At
  <2>12. At(job[n].dir, job[n].slot)' = At(x, y)
    BY <2>4, <2>10 DEF At
  <2>13. IsDir(At(job[n].dir, job[n].slot))'
    BY <2>2, <2>3, <2>12 DEF IsDir, IsEntry
  <2> QED BY <2>1, <2>5, <2>6, <2>8, <2>9, <2>11, <2>13
<1>2. \A n \in DOMAIN job' : n + 1 \in DOMAIN job' =>
         job'[n + 1].dir = KeyOf(n)' /\ job'[n + 1].slot \notin job'[n].left
  BY <1>1 DEF CallsKeep, CallsNest
<1>3. \A m, n \in DOMAIN job' : m < n => depth[job'[m].dir] < depth[job'[n].dir]
  BY DEF CallsKeep, CallsNest
<1> QED BY <1>1, <1>2, <1>3 DEF CallsNest

\* What goes is not on the way to the directory that a write waits for.
Aside(d, i) ==
  IsDir(At(d, i)) =>
    \A depth \in [Block -> Nat] : Nested(depth) /\ CallsNest(depth) =>
      depth[job[1].dir] < depth[At(d, i).key]

\* The directories above one of the volume stay on the volume with it.
LEMMA UpperDirectoriesStay ==
  ASSUME Sound, Sound', NEW d, NEW i, Used(d, i), Removes(d, i),
         NEW depth \in [Block -> Nat], Nested(depth), NEW x \in Directories,
         IsDir(At(d, i)) => depth[x] < depth[At(d, i).key]
  PROVE  x \in Directories'
<1>1. x \in Block
  BY DirectoriesLinked DEF Sound, LinkedBlocks
<1>2. PICK N : N = {c \in Block : depth[c] <= depth[x]}
  OBVIOUS
<1>3. EntriesLead(N)
  <2> SUFFICES ASSUME NEW c \in LinkedBlocks, NEW j, Used(c, j), IsDir(At(c, j)),
                      At(c, j).key \in N
               PROVE  c \in N /\ (j \in InUse(c))' /\ IsDir(At(c, j))'
                      /\ At(c, j)'.key = At(c, j).key
    BY DEF EntriesLead
  <2>1. c \in Block /\ j \in Slots(c)
    BY DEF Used, IsDirBlock, InUse
  <2>2. PICK key : key = At(c, j).key
    OBVIOUS
  <2>3. depth[c] < depth[key] /\ depth[key] <= depth[x] /\ key \in Block
    BY <1>2, <2>1, <2>2 DEF Nested
  <2>4. depth[c] \in Nat /\ depth[key] \in Nat /\ depth[x] \in Nat
    BY <1>1, <2>1, <2>3
  <2>5. c \in N
    BY <1>2, <2>1, <2>3, <2>4
  <2>6. ~(c = d /\ j = i)
    BY <2>2, <2>3, <2>4
  <2>7. Used(c, j)' /\ At(c, j)' = At(c, j)
    BY <2>6 DEF Removes
  <2> QED BY <2>5, <2>7 DEF Used, IsDir, IsEntry
<1>4. Directories \cap N \subseteq Directories'
  BY <1>3, DirectoriesStay DEF Sound
<1>5. depth[x] <= depth[x]
  BY <1>1
<1> QED BY <1>1, <1>2, <1>4, <1>5

\* A step of a removal: an entry goes, and the write that waits still can go on.
LEMMA RemovalKeeps ==
  ASSUME Inv, job # <<>>, NEW d, NEW i, Used(d, i), NEW freed,
         freed \subseteq Footprint(At(d, i)), RemoveEntry(d, i, freed), UNCHANGED after,
         CallsKeep(d, i), Aside(d, i),
         job' = <<>> => d = job[1].dir /\ i = job[1].slot,
         MayGo(d, i), Footprint(At(d, i)) \ freed \subseteq LastPointer(At(d, i))
  PROVE  Kept
<1>1. /\ Sound' /\ \A depth : Nested(depth) => Nested(depth)'
      /\ IsDirBlock(d)' /\ \A b \in Block \ {d} : blk'[b] = blk[b]
      /\ Edit({}, d, i, freed) /\ ~Used(d, i)'
      /\ \A j \in Slots(d) \ {i} : At(d, j)' = At(d, j)
  BY InvSound, RemoveSound
<1>2. Removes(d, i)
  BY InvSound, RemovesOne
<1>3. \E depth \in [Block -> Nat] : Nested(depth)' /\ CallsNest(depth)'
  <2>1. PICK depth \in [Block -> Nat] : Nested(depth) /\ CallsNest(depth)
    BY DEF Inv
  <2> QED BY <1>1, <1>2, <2>1, RemoveNests
<1>4. CallsTyped'
  BY DEF Inv, CallsTyped, CallsKeep, Pending
<1>5. PICK x : x = after.dir
  OBVIOUS
<1>6. after # NoWrite =>
        /\ Linked(x) /\ x \in Directories /\ after.slot \in Slots(x)
        /\ x = job[1].dir /\ after.slot = job[1].slot
  BY <1>5 DEF Inv, WriteReady
<1>12. PICK depth \in [Block -> Nat] : Nested(depth) /\ CallsNest(depth)
  BY DEF Inv
<1>13. after # NoWrite => (IsDir(At(d, i)) => depth[x] < depth[At(d, i).key])
  BY <1>6, <1>12 DEF Aside
<1>14. after # NoWrite => x \in Directories'
  BY <1>1, <1>2, <1>6, <1>12, <1>13, InvSound, UpperDirectoriesStay
<1>7. after # NoWrite => IsDirBlock(x) /\ IsDirBlock(x)'
  <2>1. after # NoWrite => IsDirBlock(x)
    BY <1>6, LinkedBlock DEF Inv
  <2> QED BY <1>1, <2>1 DEF IsDirBlock
<1>8. after # NoWrite => Linked(x)'
  <2> SUFFICES ASSUME after # NoWrite, x # Root PROVE Linked(x)'
    BY DEF Linked
  <2>1. PICK c \in Block :
          \E j \in Slots(c) : Used(c, j) /\ IsDir(At(c, j)) /\ At(c, j).key = x
    BY <1>6 DEF Linked
  <2>2. PICK j \in Slots(c) : Used(c, j) /\ IsDir(At(c, j)) /\ At(c, j).key = x
    BY <2>1
  <2>3. ~(c = d /\ j = i)
    <3>1. depth[x] \in Nat
      BY <1>7 DEF IsDirBlock
    <3> QED BY <1>13, <2>2, <3>1
  <2>4. Used(c, j)' /\ At(c, j)' = At(c, j)
    BY <1>2, <2>2, <2>3 DEF Removes
  <2> QED BY <2>2, <2>4 DEF Linked, IsDir, IsEntry
<1>9. WriteReady'
  <2> SUFFICES ASSUME after # NoWrite PROVE WriteReady'
    BY DEF WriteReady, NoWrite
  <2>1. job' # <<>> => x = job'[1].dir /\ after'.slot = job'[1].slot
    <3>1. job' # <<>> => 1 \in DOMAIN job'
      BY DEF CallsKeep
    <3> QED BY <1>6, <3>1 DEF CallsKeep
  <2>4. job' = <<>> => after'.slot \notin InUse(after.dir)'
    <3> SUFFICES ASSUME job' = <<>> PROVE after'.slot \notin InUse(after.dir)'
      OBVIOUS
    <3>1. x = d /\ after'.slot = i
      BY <1>6
    <3>2. (InUse(after.dir))' = (InUse(x))'
      BY <1>5 DEF InUse, At
    <3>3. i \notin (InUse(d))'
      BY <1>1 DEF Used
    <3>4. (InUse(x))' = (InUse(d))'
      BY <3>1 DEF InUse, At
    <3> QED BY <3>1, <3>2, <3>3, <3>4
  <2>2. after'.dir = x /\ after'.slot \in Slots(x) /\ Linked(x)'
    BY <1>5, <1>6, <1>8
  <2>3. Linked(after.dir)'
    BY <2>2 DEF Linked
  <2>5. after'.dir \in Directories'
    BY <1>14, <2>2
  <2> QED BY <2>1, <2>2, <2>3, <2>4, <2>5 DEF WriteReady
<1>10. ASSUME NamesApart PROVE NamesApart'
  <2>1. DirNamesApart /\ DirNamesApart'
    BY <1>1, <1>10, InvSound, EditNames DEF NamesApart, DirNamesApart
  <2>2. ASSUME after # NoWrite, NEW j, (j \in InUse(x))', At(x, j)'.name = after.name
        PROVE  j = after.slot
    <3>1. Used(x, j)'
      BY <1>7, <2>2 DEF Used
    <3>2. ~(x = d /\ j = i)
      BY <1>1, <3>1
    <3>3. Used(x, j) /\ At(x, j)' = At(x, j)
      BY <1>1, <3>1, <3>2, InvSound, OtherEntries DEF Sound
    <3> QED BY <1>5, <1>10, <2>2, <3>3 DEF NamesApart, Used
  <2>3. NoWrite' = NoWrite
    BY DEF NoWrite
  <2>4. after # NoWrite =>
          /\ IsDirBlock(after.dir)'
          /\ \A j \in InUse(after.dir)' : At(after.dir, j)'.name = after.name => j = after.slot
    <3> SUFFICES ASSUME after # NoWrite PROVE
          /\ IsDirBlock(after.dir)'
          /\ \A j \in InUse(after.dir)' : At(after.dir, j)'.name = after.name => j = after.slot
      OBVIOUS
    <3>1. after'.dir = x
      BY <1>5
    <3>2. IsDirBlock(after.dir)' /\ (InUse(after.dir)' = (InUse(x))')
          /\ \A j : At(after.dir, j)' = At(x, j)'
      BY <1>7, <3>1 DEF IsDirBlock, InUse, At
    <3> QED BY <2>2, <3>2
  <2> QED BY <2>1, <2>3, <2>4 DEF NamesApart, DirNamesApart
<1>11. Effect
  <2>1. free' = free \cup freed
    BY DEF RemoveEntry
  <2> QED BY <1>1, <2>1, RemovedEffect
<1> QED BY <1>1, <1>3, <1>4, <1>9, <1>10, <1>11 DEF Kept, Inv, Sound

LEMMA RemoveFileInsideKeeps == Inv /\ RemoveFileInside => Kept
<1> SUFFICES ASSUME Inv, RemoveFileInside PROVE Kept
  OBVIOUS
<1>1. PICK d, i, L, fr : d = TopDir /\ i = Min(Top.left) /\ L = Len(job) /\ fr = TopDone
  OBVIOUS
<1>2. PICK gone : gone = GivenBack(At(d, i))
  OBVIOUS
<1>3. /\ job # <<>> /\ Top.left # {} /\ ~IsDir(At(d, i)) /\ ~At(d, i).locked
      /\ RemoveEntry(d, i, gone) /\ job' = Append(Callers, fr) /\ UNCHANGED after
  BY <1>1, <1>2 DEF RemoveFileInside, Child
<1>4. /\ L \in Nat \ {0} /\ DOMAIN job = 1 .. L /\ Top = job[L]
      /\ \A n \in 1 .. L : job[n] \in Frames
      /\ Used(Top.dir, Top.slot) /\ IsDir(At(Top.dir, Top.slot))
      /\ Top.left \subseteq InUse(d) /\ IsDirBlock(d)
  BY <1>1, <1>3, TopOfCalls
<1>5. i \in Top.left
  <2>1. Top.left \in SUBSET Nat
    BY <1>4, VolumeAssumption DEF InUse, Slots
  <2>2. \E j \in Top.left : \A k \in Top.left : j <= k
    BY <1>3, <2>1, LeastElement
  <2> QED BY <1>1, <2>2 DEF Min
<1>6. Used(d, i)
  BY <1>4, <1>5 DEF Used
<1>7. gone \subseteq Footprint(At(d, i))
  BY <1>2, GivenBackOccupied
<1>8. /\ fr \in Frames /\ fr.dir = Top.dir /\ fr.slot = Top.slot /\ fr.left = Top.left \ {i}
  BY <1>1, <1>4 DEF TopDone, Frames
<1>9. /\ job' \in Seq(Frames) /\ DOMAIN job' = 1 .. L
      /\ \A n \in 1 .. L - 1 : job'[n] = job[n]
      /\ job'[L] = fr
  <2>1. PICK calls : calls = job'
    OBVIOUS
  <2>2. calls = Append(Callers, fr)
    BY <1>3, <2>1
  <2>3. /\ calls \in Seq(Frames) /\ Len(calls) = Len(job) /\ DOMAIN calls = 1 .. Len(job)
        /\ \A n \in 1 .. Len(job) - 1 : calls[n] = job[n]
        /\ calls[Len(job)] = fr
    <3>1. fr \in Frames /\ job # <<>>
      BY <1>3, <1>8
    <3> QED BY <2>2, <3>1, WithTop, ZenonT(60)
  <2> QED BY <1>1, <2>1, <2>3
<1>10. PICK depth \in [Block -> Nat] : Nested(depth) /\ CallsNest(depth)
  BY DEF Inv
<1>11. \A n \in 1 .. L : job[n].dir # d /\ (n < L => KeyOf(n) # d)
  BY <1>1, <1>3, <1>10, DepthOfCalls
<1>12. CallsKeep(d, i)
  <2>1. ASSUME NEW n \in 1 .. L
        PROVE  /\ job'[n].dir = job[n].dir /\ job'[n].slot = job[n].slot
               /\ job'[n].left \subseteq job[n].left
               /\ ~(job[n].dir = d /\ job[n].slot = i)
               /\ KeyOf(n) = d => i \notin job'[n].left
    <3>1. CASE n < L
      <4>1. n \in 1 .. L - 1
        BY <1>4, <3>1
      <4> QED BY <1>9, <1>11, <3>1, <4>1
    <3>2. CASE n = L
      BY <1>4, <1>8, <1>9, <1>11, <3>2
    <3> QED BY <1>4, <3>1, <3>2
  <2> QED BY <1>4, <1>9, <2>1 DEF CallsKeep
<1>13. job' # <<>>
  BY <1>4, <1>9
<1>14. MayGo(d, i) /\ Aside(d, i)
  BY <1>3 DEF MayGo, Aside
<1>15. Footprint(At(d, i)) \ gone \subseteq LastPointer(At(d, i))
  BY <1>2, <1>3, <1>6, InvSound, GivenBackButLast
<1> QED BY <1>3, <1>6, <1>7, <1>12, <1>13, <1>14, <1>15, RemovalKeeps

LEMMA FinishRemovalKeeps == Inv /\ FinishRemoval => Kept
<1> SUFFICES ASSUME Inv, FinishRemoval PROVE Kept
  OBVIOUS
<1>1. PICK d, i, L : d = Top.dir /\ i = Top.slot /\ L = Len(job)
  OBVIOUS
<1>2. PICK gone : gone = {TopDir}
  OBVIOUS
<1>3. job # <<>> /\ RemoveEntry(d, i, gone) /\ job' = Callers /\ UNCHANGED after
  BY <1>1, <1>2 DEF FinishRemoval
<1>4. /\ L \in Nat \ {0} /\ DOMAIN job = 1 .. L /\ Top = job[L]
      /\ \A n \in 1 .. L : job[n] \in Frames
      /\ Callers \in Seq(Frames) /\ Len(Callers) = L - 1
      /\ \A n \in 1 .. L - 1 : Callers[n] = job[n]
      /\ Used(d, i) /\ IsDir(At(d, i))
  BY <1>1, <1>3, TopOfCalls
<1>5. gone \subseteq Footprint(At(d, i))
  BY <1>1, <1>2 DEF Footprint, TopDir
<1>6. PICK depth \in [Block -> Nat] : Nested(depth) /\ CallsNest(depth)
  BY DEF Inv
<1>7. \A n \in 1 .. L :
        /\ job[n].dir # TopDir
        /\ n < L => job[n].dir # d
        /\ n < L - 1 => KeyOf(n) # d
  BY <1>1, <1>3, <1>6, DepthOfCalls
<1>8. \A n \in 1 .. L : n + 1 = L => i \notin job[n].left
  <2>1. \A n \in 1 .. L : n + 1 \in 1 .. L => job[n + 1].slot \notin job[n].left
    BY <1>4, <1>6 DEF CallsNest
  <2> QED BY <1>1, <1>4, <2>1
<1>9. CallsKeep(d, i)
  <2>1. job' \in Seq(Frames) /\ DOMAIN job' = 1 .. L - 1
    BY <1>3, <1>4
  <2>2. ASSUME NEW n \in 1 .. L - 1
        PROVE  /\ n \in 1 .. L /\ job'[n] = job[n]
               /\ ~(job[n].dir = d /\ job[n].slot = i)
               /\ KeyOf(n) = d => i \notin job[n].left
    <3>1. n \in 1 .. L /\ n < L /\ (n < L - 1 \/ n + 1 = L)
      BY <1>4
    <3> QED BY <1>3, <1>4, <1>7, <1>8, <3>1
  <2> QED BY <1>4, <2>1, <2>2 DEF CallsKeep
<1>10. Aside(d, i)
  <2> SUFFICES ASSUME NEW deeper \in [Block -> Nat], Nested(deeper), CallsNest(deeper)
               PROVE  deeper[job[1].dir] < deeper[At(d, i).key]
    BY DEF Aside
  <2>1. d \in Block /\ i \in Slots(d) /\ At(d, i).key \in Block
    BY <1>4, InvSound, EntryTyped DEF Sound
  <2>2. deeper[d] < deeper[At(d, i).key]
    BY <1>4, <2>1 DEF Nested
  <2>3. 1 \in 1 .. L /\ job[1].dir \in Block
    BY <1>4 DEF Frames
  <2>6. L \in DOMAIN job /\ 1 \in DOMAIN job /\ (L = 1 \/ 1 < L) /\ job[L].dir = d
    BY <1>1, <1>4
  <2>4. L = 1 \/ deeper[job[1].dir] < deeper[d]
    BY <2>6 DEF CallsNest
  <2>5. L = 1 => job[1].dir = d
    BY <1>1, <1>4
  <2> QED BY <2>1, <2>2, <2>3, <2>4, <2>5
<1>11. job' = <<>> => d = job[1].dir /\ i = job[1].slot
  <2> SUFFICES ASSUME job' = <<>> PROVE d = job[1].dir /\ i = job[1].slot
    OBVIOUS
  <2>1. Len(Callers) = 0
    BY <1>3
  <2>2. L = 1
    BY <1>4, <2>1
  <2>3. Top = job[1]
    BY <1>4, <2>2
  <2> QED BY <1>1, <2>3
<1>12. MayGo(d, i)
  BY <1>1, <1>4 DEF MayGo, FinishRemoval, TopDir
<1>13. Footprint(At(d, i)) \ gone \subseteq LastPointer(At(d, i))
  <2>1. At(d, i).st = "dir" /\ gone = {At(d, i).key}
    BY <1>1, <1>2, <1>4 DEF IsDir, TopDir
  <2>2. Footprint(At(d, i)) = gone
    BY <2>1 DEF Footprint, Pointers
  <2> QED BY <2>2
<1> QED BY <1>3, <1>4, <1>5, <1>9, <1>10, <1>11, <1>12, <1>13, RemovalKeeps

\* Calls that start or end leave the image as it is.
LEMMA SameImage ==
  ASSUME Sound, UNCHANGED <<free, blk>>
  PROVE  /\ Sound' /\ \A depth : Nested(depth) => Nested(depth)'
         /\ \A d : IsDirBlock(d)' <=> IsDirBlock(d)
         /\ \A d, i : (Used(d, i)' <=> Used(d, i)) /\ At(d, i)' = At(d, i)
         /\ \A d : (InUse(d))' = InUse(d)
         /\ \A d : Linked(d) => Linked(d)'
         /\ \A d \in Directories : d \in Directories'
         /\ DirNamesApart => DirNamesApart'
         /\ Effect
<1>1. /\ Sound' /\ \A depth : Nested(depth) => Nested(depth)'
      /\ Edit({}, Root, NoSlot, {})
  BY GrownSound
<1>2. \A d : IsDirBlock(d)' <=> IsDirBlock(d)
  BY DEF IsDirBlock
<1>3. \A d, i : At(d, i)' = At(d, i)
  BY DEF At
<1>4. \A d : (InUse(d))' = InUse(d)
  BY DEF InUse, At
<1>5. \A d, i : Used(d, i)' <=> Used(d, i)
  BY DEF Used, IsDirBlock, InUse, At
<1>6. \A d : Linked(d) => Linked(d)'
  BY DEF Linked, Used, IsDirBlock, InUse, At, IsDir
<1>7. DirNamesApart => DirNamesApart'
  BY DEF DirNamesApart, IsDirBlock, InUse, At
<1>8. ~Used(Root, NoSlot) /\ ~Used(Root, NoSlot)'
  BY NoSlotUsed DEF Used, InUse
<1>9. Effect
  <2>1. free \cup {} \subseteq free'
    OBVIOUS
  <2> QED BY <1>1, <1>8, <2>1, UntouchedEffect
<1>10. \A d \in Directories : d \in Directories'
  <2>1. PICK N : N = Block
    OBVIOUS
  <2>2. EntriesLead(N)
    <3>1. \A c \in LinkedBlocks : c \in N
      BY <2>1 DEF LinkedBlocks
    <3>2. \A c, j : Used(c, j) /\ IsDir(At(c, j)) =>
                     (j \in InUse(c))' /\ IsDir(At(c, j))' /\ At(c, j)'.key = At(c, j).key
      BY <1>3, <1>4 DEF Used, IsDir, IsEntry
    <3> QED BY <3>1, <3>2 DEF EntriesLead
  <2>3. Directories \cap N \subseteq Directories'
    BY <1>1, <2>2, DirectoriesStay DEF Sound
  <2>4. \A d \in Directories : d \in N
    BY <2>1, DirectoriesLinked DEF Sound, LinkedBlocks
  <2> QED BY <2>3, <2>4
<1> QED BY <1>1, <1>2, <1>3, <1>4, <1>5, <1>6, <1>7, <1>9, <1>10

LEMMA StartRemovalKeeps ==
  ASSUME Inv, NEW path \in Path, NEW arg \in Typed, StartRemoval(path, arg)
  PROVE  Kept
<1>1. PICK d, i : d = DirBlock(path) /\ i = NamedEntry(d, arg)
  OBVIOUS
<1>2. /\ Idle /\ d # Null /\ i # NoSlot /\ IsDir(At(d, i))
      /\ job' = <<Frame(d, i)>> /\ UNCHANGED <<free, blk>>
      /\ after' # NoWrite => after' \in Pending /\ after'.dir = d /\ after'.slot = i
                             /\ after'.name = arg
  <2>1. /\ Idle /\ d # Null /\ i # NoSlot /\ IsDir(At(d, i))
        /\ job' = <<Frame(d, i)>> /\ UNCHANGED <<free, blk>>
        /\ \/ after' = NoWrite
           \/ \E k \in Kinds, p \in Payloads :
                after' = [write |-> TRUE, dir |-> d, slot |-> i, name |-> arg, kind |-> k,
                          payload |-> p]
    BY <1>1 DEF StartRemoval
  <2>2. d \in Block /\ i \in Nat
    <3>1. i \in Slots(d) /\ Used(d, i)
      BY <1>1, <2>1, FoundByName
    <3> QED BY <3>1, VolumeAssumption DEF Slots, Used, IsDirBlock
  <2>3. ASSUME NEW k \in Kinds, NEW p \in Payloads,
               after' = [write |-> TRUE, dir |-> d, slot |-> i, name |-> arg, kind |-> k,
                         payload |-> p]
        PROVE  after' \in Pending /\ after'.dir = d /\ after'.slot = i /\ after'.name = arg
    BY <2>2, <2>3 DEF Pending
  <2> QED BY <2>1, <2>3
<1>3. /\ Used(d, i) /\ i \in Slots(d)
      /\ DirNamesApart => \A j \in InUse(d) \ {i} : At(d, j).name # arg
  BY <1>1, <1>2, FoundByName
<1>4. Linked(d) /\ IsDirBlock(d) /\ d \in Directories
  BY <1>1, <1>2, DirOfCommand
<1>5. PICK fr : fr = Frame(d, i)
  OBVIOUS
<1>6. /\ fr \in Frames /\ fr.dir = d /\ fr.slot = i
      /\ fr.left \subseteq InUse(At(d, i).key)
  BY <1>2, <1>3, <1>5, InvSound, FrameTyped
<1>7. job' = <<fr>> /\ job' \in Seq(Frames) /\ DOMAIN job' = {1} /\ job'[1] = fr
  BY <1>2, <1>5, <1>6
<1>8. /\ Sound' /\ \A depth : Nested(depth) => Nested(depth)'
      /\ \A x : IsDirBlock(x)' <=> IsDirBlock(x)
      /\ \A x, j : (Used(x, j)' <=> Used(x, j)) /\ At(x, j)' = At(x, j)
      /\ \A x : (InUse(x))' = InUse(x)
      /\ Linked(d)' /\ d \in Directories' /\ (DirNamesApart => DirNamesApart') /\ Effect
  BY <1>2, <1>4, InvSound, SameImage
<1>9. CallsTyped'
  BY <1>2, <1>7 DEF CallsTyped, NoWrite
<1>10. \E depth \in [Block -> Nat] : Nested(depth)' /\ CallsNest(depth)'
  <2>1. PICK depth \in [Block -> Nat] : Nested(depth)
    BY InvNested
  <2>2. KeyOf(1)' = At(d, i).key
    BY <1>6, <1>7, <1>2 DEF KeyOf, At
  <2>3. (Used(job[1].dir, job[1].slot) /\ IsDir(At(job[1].dir, job[1].slot)))'
    BY <1>2, <1>3, <1>6, <1>7 DEF Used, InUse, IsDirBlock, IsDir, IsEntry, At
  <2>4. job'[1].left \subseteq InUse(KeyOf(1))'
    BY <1>2, <1>6, <1>7, <2>2 DEF InUse, At
  <2>5. CallsNest(depth)'
    BY <1>7, <2>3, <2>4 DEF CallsNest
  <2> QED BY <1>8, <2>1, <2>5
<1>11. WriteReady'
  <2> SUFFICES ASSUME after' # NoWrite PROVE WriteReady'
    BY DEF WriteReady, NoWrite
  <2>1. after'.dir = d /\ after'.slot = i
    BY <1>2
  <2>2. Linked(after.dir)'
    BY <1>8, <2>1 DEF Linked
  <2>3. after'.dir \in Directories'
    BY <1>8, <2>1
  <2> QED BY <1>3, <1>6, <1>7, <2>1, <2>2, <2>3 DEF WriteReady
<1>12. ASSUME NamesApart PROVE NamesApart'
  <2>1. DirNamesApart /\ DirNamesApart'
    BY <1>8, <1>12 DEF NamesApart, DirNamesApart
  <2>2. after' # NoWrite =>
          /\ IsDirBlock(after.dir)'
          /\ \A j \in InUse(after.dir)' : At(after.dir, j)'.name = after'.name => j = after'.slot
    <3> SUFFICES ASSUME after' # NoWrite PROVE
          /\ IsDirBlock(after.dir)'
          /\ \A j \in InUse(after.dir)' : At(after.dir, j)'.name = after'.name => j = after'.slot
      OBVIOUS
    <3>1. after'.dir = d /\ after'.slot = i /\ after'.name = arg
      BY <1>2
    <3>2. IsDirBlock(after.dir)' /\ (InUse(after.dir)' = InUse(d))
          /\ \A j : At(after.dir, j)' = At(d, j)
      BY <1>2, <1>4, <3>1 DEF IsDirBlock, InUse, At
    <3> QED BY <1>3, <2>1, <3>1, <3>2
  <2>3. NoWrite' = NoWrite
    BY DEF NoWrite
  <2> QED BY <2>1, <2>2, <2>3 DEF NamesApart, DirNamesApart
<1> QED BY <1>8, <1>9, <1>10, <1>11, <1>12 DEF Kept, Inv, Sound

LEMMA RemovalFailsKeeps == Inv /\ RemovalFails => Kept
<1> SUFFICES ASSUME Inv, RemovalFails PROVE Kept
  OBVIOUS
<1>1. job' = <<>> /\ after' = NoWrite /\ UNCHANGED <<free, blk>>
  BY DEF RemovalFails
<1>2. /\ Sound' /\ \A depth : Nested(depth) => Nested(depth)'
      /\ (DirNamesApart => DirNamesApart') /\ Effect
  BY <1>1, InvSound, SameImage
<1>3. CallsTyped' /\ WriteReady' /\ \A depth : CallsNest(depth)'
  BY <1>1 DEF CallsTyped, WriteReady, CallsNest, NoWrite
<1>4. NamesApart => NamesApart'
  <2>1. NamesApart => DirNamesApart
    BY DEF NamesApart, DirNamesApart
  <2>2. DirNamesApart' => NamesApart'
    BY <1>1 DEF NamesApart, DirNamesApart, NoWrite
  <2> QED BY <1>2, <2>1, <2>2
<1> QED BY <1>2, <1>3, <1>4, InvNested DEF Kept, Inv, Sound

LEMMA WriteAfterRemovalKeeps == Inv /\ WriteAfterRemoval => Kept
<1> SUFFICES ASSUME Inv, WriteAfterRemoval PROVE Kept
  OBVIOUS
<1>1. PICK d, i, arg, k, p : /\ d = after.dir /\ i = after.slot /\ arg = after.name
                             /\ k = after.kind /\ p = after.payload
  OBVIOUS
<1>2. PICK c, gone, f : c = blk[d].count + 1 /\ gone = {} /\ f = free
  OBVIOUS
<1>3. /\ job = <<>> /\ job' = <<>> /\ after # NoWrite /\ after' = NoWrite
      /\ IF CanStore(f, p) THEN Publish(f, d, i, arg, k, p, c) ELSE UNCHANGED <<free, blk>>
  BY <1>1, <1>2 DEF WriteAfterRemoval
<1>4. arg \in Typed /\ k \in Kinds /\ p \in Payloads
  BY <1>1, <1>3 DEF Inv, CallsTyped, Pending
<1>5. Linked(d) /\ d \in Directories /\ i \in Slots(d) /\ ~Used(d, i)
  BY <1>1, <1>3 DEF Inv, WriteReady, Used
<1>6. IsDirBlock(d) /\ d \notin free
  BY <1>5, LinkedBlock DEF Inv
<1>7. c \in Nat
  <2>1. blk[d] \in DirContent(d)
    BY <1>6, DirBlockContent DEF Inv
  <2> QED BY <1>2, <2>1 DEF DirContent
<1>8. /\ Sound' /\ (\A depth : Nested(depth) => Nested(depth)') /\ Effect
      /\ LongNames = {} /\ NamesApart => DirNamesApart'
  <2>1. CASE CanStore(f, p)
    <3>1. f = free \cup gone /\ d \notin f /\ Publish(f, d, i, arg, k, p, c)
      BY <1>2, <1>3, <1>6, <2>1
    <3>2. Publishes(f, gone, d, i, arg, k, p, c)
      BY <1>2, <1>4, <1>5, <1>6, <1>7, <2>1, <3>1 DEF Publishes
    <3>3. Published(f, gone, d, i, arg, k, p)
      BY <3>2, InvSound, PublishSound
    <3>4. /\ Sound' /\ (\A depth : Nested(depth) => Nested(depth)')
          /\ Edit(Taken(f, p), d, i, gone)
          /\ At(d, i)' = NewEntry(Found(f, p), arg, k, p)
      BY <3>3 DEF Published
    <3>5. ASSUME LongNames = {}, NamesApart PROVE DirNamesApart'
      <4>1. At(d, i)'.name = arg
        BY <1>4, <3>4, <3>5, StoredName DEF NewEntry
      <4>2. DirNamesApart /\ \A j \in InUse(d) \ {i} : At(d, j).name # arg
        BY <1>1, <1>3, <3>5 DEF NamesApart, DirNamesApart
      <4> QED BY <3>4, <4>1, <4>2, InvSound, EditNames
    <3>6. Effect
      BY <1>4, <1>5, <3>3, InvSound, PublishedEffect
    <3> QED BY <3>4, <3>5, <3>6
  <2>2. CASE ~CanStore(f, p)
    <3>1. UNCHANGED <<free, blk>>
      BY <1>3, <2>2
    <3>2. NamesApart => DirNamesApart
      BY DEF NamesApart, DirNamesApart
    <3> QED BY <3>1, <3>2, InvSound, SameImage
  <2> QED BY <2>1, <2>2
<1>9. CallsTyped' /\ WriteReady' /\ \A depth : CallsNest(depth)'
  BY <1>3 DEF CallsTyped, WriteReady, CallsNest, NoWrite
<1>10. DirNamesApart' => NamesApart'
  BY <1>3 DEF NamesApart, DirNamesApart, NoWrite
<1> QED BY <1>8, <1>9, <1>10, InvNested DEF Kept, Inv, Sound

LEMMA RemoveDirectoryInsideKeeps == Inv /\ RemoveDirectoryInside => Kept
<1> SUFFICES ASSUME Inv, RemoveDirectoryInside PROVE Kept
  OBVIOUS
<1>1. PICK d, i, L, fr : d = TopDir /\ i = Min(Top.left) /\ L = Len(job) /\ fr = TopDone
  OBVIOUS
<1>2. PICK calls, inner : calls = Append(Callers, fr) /\ inner = Frame(d, i)
  OBVIOUS
<1>3. /\ job # <<>> /\ Top.left # {} /\ IsDir(At(d, i))
      /\ job' = Append(calls, inner) /\ UNCHANGED <<free, blk, after>>
  BY <1>1, <1>2 DEF RemoveDirectoryInside, Child
<1>4. /\ L \in Nat \ {0} /\ DOMAIN job = 1 .. L /\ Top = job[L]
      /\ \A n \in 1 .. L : job[n] \in Frames
      /\ Used(Top.dir, Top.slot) /\ IsDir(At(Top.dir, Top.slot))
      /\ Top.left \subseteq InUse(d) /\ IsDirBlock(d) /\ d \in Block
  BY <1>1, <1>3, TopOfCalls
<1>5. i \in Top.left
  <2>1. Top.left \in SUBSET Nat
    BY <1>4, VolumeAssumption DEF InUse, Slots
  <2>2. \E j \in Top.left : \A k \in Top.left : j <= k
    BY <1>3, <2>1, LeastElement
  <2> QED BY <1>1, <2>2 DEF Min
<1>6. Used(d, i)
  BY <1>4, <1>5 DEF Used
<1>7. /\ fr \in Frames /\ fr.dir = Top.dir /\ fr.slot = Top.slot /\ fr.left = Top.left \ {i}
  BY <1>1, <1>4 DEF TopDone, Frames
<1>8. /\ inner \in Frames /\ inner.dir = d /\ inner.slot = i
      /\ inner.left \subseteq InUse(At(d, i).key)
  BY <1>2, <1>3, <1>6, InvSound, FrameTyped
<1>9. /\ calls \in Seq(Frames) /\ Len(calls) = L
      /\ \A n \in 1 .. L - 1 : calls[n] = job[n]
      /\ calls[L] = fr
  <2>1. fr \in Frames /\ job # <<>>
    BY <1>3, <1>7
  <2>2. calls = Append(Callers, fr)
    BY <1>2
  <2>3. /\ calls \in Seq(Frames) /\ Len(calls) = Len(job)
        /\ \A n \in 1 .. Len(job) - 1 : calls[n] = job[n]
        /\ calls[Len(job)] = fr
    BY <2>1, <2>2, WithTop, ZenonT(60)
  <2> QED BY <1>1, <2>3
<1>10. /\ job' \in Seq(Frames) /\ DOMAIN job' = 1 .. L + 1 /\ job'[L + 1] = inner
       /\ \A n \in 1 .. L : job'[n] = calls[n]
  BY <1>3, <1>4, <1>8, <1>9
<1>11. \A n \in 1 .. L : /\ job'[n].dir = job[n].dir /\ job'[n].slot = job[n].slot
                         /\ job'[n].left \subseteq job[n].left
  <2> TAKE n \in 1 .. L
  <2>1. n \in 1 .. L - 1 \/ n = L
    BY <1>4
  <2> QED BY <1>4, <1>7, <1>9, <1>10, <2>1
<1>12. /\ Sound' /\ \A depth : Nested(depth) => Nested(depth)'
       /\ \A x, j : (Used(x, j)' <=> Used(x, j)) /\ At(x, j)' = At(x, j)
       /\ \A x : (InUse(x))' = InUse(x)
       /\ \A x : Linked(x) => Linked(x)'
       /\ \A x \in Directories : x \in Directories'
       /\ (DirNamesApart => DirNamesApart') /\ Effect
  BY <1>3, InvSound, SameImage
<1>13. CallsTyped'
  BY <1>3, <1>10 DEF Inv, CallsTyped, Pending, NoWrite
<1>14. PICK depth \in [Block -> Nat] : Nested(depth) /\ CallsNest(depth)
  BY DEF Inv
<1>15. CallsNest(depth)'
  <2>1. ASSUME NEW n \in 1 .. L + 1
        PROVE  /\ (Used(job[n].dir, job[n].slot) /\ IsDir(At(job[n].dir, job[n].slot)))'
               /\ job'[n].left \subseteq InUse(KeyOf(n))'
               /\ KeyOf(n)' = IF n = L + 1 THEN At(d, i).key ELSE KeyOf(n)
    <3>0. PICK x, y : x = job'[n].dir /\ y = job'[n].slot
      OBVIOUS
    <3>1. CASE n \in 1 .. L
      <4>1. x = job[n].dir /\ y = job[n].slot /\ job'[n].left \subseteq job[n].left /\ n # L + 1
        BY <1>4, <1>11, <3>0, <3>1
      <4>2. Used(x, y) /\ IsDir(At(x, y)) /\ job[n].left \subseteq InUse(KeyOf(n))
        BY <1>4, <1>14, <3>1, <4>1 DEF CallsNest
      <4>3. KeyOf(n)' = KeyOf(n)
        BY <1>3, <3>0, <4>1 DEF KeyOf, At
      <4>4. (Used(job[n].dir, job[n].slot) /\ IsDir(At(job[n].dir, job[n].slot)))'
        BY <1>3, <3>0, <4>2 DEF Used, InUse, IsDirBlock, IsDir, IsEntry, At
      <4>5. InUse(KeyOf(n))' = InUse(KeyOf(n))
        BY <1>3, <4>3 DEF InUse, At
      <4> QED BY <4>1, <4>2, <4>3, <4>4, <4>5
    <3>2. CASE n = L + 1
      <4>1. x = d /\ y = i /\ job'[n].left \subseteq InUse(At(d, i).key)
        BY <1>8, <1>10, <3>0, <3>2
      <4>2. KeyOf(n)' = At(d, i).key
        BY <1>3, <3>0, <4>1 DEF KeyOf, At
      <4>3. (Used(job[n].dir, job[n].slot) /\ IsDir(At(job[n].dir, job[n].slot)))'
        BY <1>3, <1>6, <3>0, <4>1 DEF Used, InUse, IsDirBlock, IsDir, IsEntry, At
      <4>4. InUse(KeyOf(n))' = InUse(At(d, i).key)
        BY <1>3, <4>2 DEF InUse, At
      <4> QED BY <3>2, <4>1, <4>2, <4>3, <4>4
    <3> QED BY <1>4, <3>1, <3>2
  <2>2. ASSUME NEW n \in 1 .. L + 1, n + 1 \in 1 .. L + 1
        PROVE  job'[n + 1].dir = KeyOf(n)' /\ job'[n + 1].slot \notin job'[n].left
    <3>1. n \in 1 .. L /\ n # L + 1 /\ KeyOf(n)' = KeyOf(n)
      BY <1>4, <2>1, <2>2
    <3>2. CASE n = L
      <4>1. KeyOf(n) = d /\ job'[n + 1] = inner /\ job'[n] = fr
        BY <1>1, <1>4, <1>9, <1>10, <3>1, <3>2 DEF KeyOf, TopDir
      <4> QED BY <1>7, <1>8, <3>1, <4>1
    <3>3. CASE n # L
      <4>1. n + 1 \in 1 .. L
        BY <1>4, <3>1, <3>3
      <4>2. job[n + 1].dir = KeyOf(n) /\ job[n + 1].slot \notin job[n].left
        BY <1>4, <1>14, <3>1, <4>1 DEF CallsNest
      <4> QED BY <1>11, <3>1, <4>1, <4>2
    <3> QED BY <3>2, <3>3
  <2>3. ASSUME NEW m \in 1 .. L + 1, NEW n \in 1 .. L + 1, m < n
        PROVE  depth[job'[m].dir] < depth[job'[n].dir]
    <3>0. m \in 1 .. L /\ job'[m].dir = job[m].dir
      BY <1>4, <1>11, <2>3
    <3>1. CASE n \in 1 .. L
      BY <1>4, <1>11, <1>14, <2>3, <3>0, <3>1 DEF CallsNest
    <3>2. CASE n = L + 1
      <4>1. job'[n].dir = d
        BY <1>8, <1>10, <3>2
      <4>2. depth[Top.dir] < depth[d]
        <5>1. Top.dir \in Block /\ Top.slot \in Slots(Top.dir)
          BY <1>4, InvSound, EntryTyped DEF Sound
        <5> QED BY <1>1, <1>4, <1>14, <5>1 DEF Nested, TopDir
      <4>3. m = L \/ depth[job[m].dir] < depth[Top.dir]
        <5>1. L \in DOMAIN job /\ \A k, l \in DOMAIN job : k < l => depth[job[k].dir] < depth[job[l].dir]
          BY <1>4, <1>14 DEF CallsNest
        <5>2. m \in DOMAIN job /\ (m = L \/ m < L)
          BY <1>4, <3>0
        <5> QED BY <1>4, <5>1, <5>2
      <4>4. /\ depth[job[m].dir] \in Nat /\ depth[d] \in Nat /\ depth[Top.dir] \in Nat
        BY <1>4, <3>0 DEF Frames
      <4> QED BY <1>4, <3>0, <4>1, <4>2, <4>3, <4>4
    <3> QED BY <1>4, <3>1, <3>2
  <2> QED BY <1>10, <2>1, <2>2, <2>3 DEF CallsNest
<1>16. WriteReady'
  <2> SUFFICES ASSUME after # NoWrite PROVE WriteReady'
    BY <1>3 DEF WriteReady, NoWrite
  <2>1. /\ Linked(after.dir) /\ after.dir \in Directories /\ after.slot \in Slots(after.dir)
        /\ after.dir = job[1].dir /\ after.slot = job[1].slot
    BY <1>3 DEF Inv, WriteReady
  <2>2. PICK x : x = after.dir
    OBVIOUS
  <2>3. /\ after'.dir = x /\ after'.slot \in Slots(x) /\ Linked(x)' /\ x = job'[1].dir
        /\ x \in Directories' /\ after'.slot = job'[1].slot
    BY <1>3, <1>4, <1>11, <1>12, <2>1, <2>2
  <2>4. Linked(after.dir)'
    BY <2>3 DEF Linked
  <2>5. job' # <<>>
    BY <1>4, <1>10
  <2> QED BY <2>3, <2>4, <2>5 DEF WriteReady
<1>17. NamesApart => NamesApart'
  BY <1>3 DEF NamesApart, IsDirBlock, InUse, At, NoWrite
<1> QED BY <1>12, <1>13, <1>14, <1>15, <1>16, <1>17 DEF Kept, Inv, Sound

LEMMA InvNext == Inv /\ [Next]_vars => Kept
<1> SUFFICES ASSUME Inv, [Next]_vars PROVE Kept
  OBVIOUS
<1>1. ASSUME NEW path \in Path, NEW arg \in Typed, NEW k \in Kinds, NEW p \in Payloads,
             WriteNewFile(path, arg, k, p) \/ ReplaceFile(path, arg, k, p)
      PROVE  Kept
  BY <1>1, WriteNewFileKeeps, ReplaceFileKeeps
<1>2. ASSUME NEW path \in Path, NEW arg \in Typed, NEW p \in Payloads,
             ReplaceNoRoom(path, arg, p) \/ WriteToGrownBlock(path, arg, p)
      PROVE  Kept
  BY <1>2, ReplaceNoRoomKeeps, WriteToGrownBlockKeeps
<1>3. ASSUME NEW path \in Path, NEW arg \in Typed,
             \/ GrowForNothing(path, arg) \/ CreateDirectory(path, arg)
             \/ CreateInGrownBlock(path, arg) \/ DeleteFile(path, arg)
             \/ StartRemoval(path, arg)
      PROVE  Kept
  BY <1>3, GrowForNothingKeeps, CreateDirectoryKeeps, CreateInGrownBlockKeeps,
     DeleteFileKeeps, StartRemovalKeeps
<1>4. ASSUME NEW path \in Path, NEW arg \in Typed, NEW lock \in BOOLEAN,
             SetLocked(path, arg, lock)
      PROVE  Kept
  BY <1>4, SetLockedKeeps
<1>5. ASSUME NEW path \in Path, NEW arg \in Typed, NEW newarg \in Typed,
             RenameFile(path, arg, newarg)
      PROVE  Kept
  BY <1>5, RenameFileKeeps
<1>6. CASE RemoveFileInside \/ RemoveDirectoryInside \/ FinishRemoval \/ RemovalFails
           \/ WriteAfterRemoval
  BY <1>6, RemoveFileInsideKeeps, RemoveDirectoryInsideKeeps, FinishRemovalKeeps,
     RemovalFailsKeeps, WriteAfterRemovalKeeps
<1>7. CASE UNCHANGED vars
  <2>1. UNCHANGED <<free, blk>> /\ UNCHANGED job /\ UNCHANGED after
    BY <1>7 DEF vars
  <2>2. /\ Sound' /\ (\A x : Linked(x) => Linked(x)') /\ Effect
        /\ \A x \in Directories : x \in Directories'
        /\ \A x : (InUse(x))' = InUse(x)
        /\ \A depth : Nested(depth) => Nested(depth)'
    BY <2>1, InvSound, SameImage
  <2>3. ASSUME NEW depth, CallsNest(depth) PROVE CallsNest(depth)'
    <3>1. \A n : KeyOf(n)' = KeyOf(n) /\ InUse(KeyOf(n))' = InUse(KeyOf(n))
      BY <2>1 DEF KeyOf, InUse, At
    <3>2. \A n \in DOMAIN job : (Used(job[n].dir, job[n].slot) /\ IsDir(At(job[n].dir, job[n].slot)))'
      BY <2>1, <2>3 DEF CallsNest, Used, InUse, IsDirBlock, IsDir, IsEntry, At
    <3> QED BY <2>1, <2>3, <3>1, <3>2 DEF CallsNest
  <2>4. CallsTyped'
    BY <2>1 DEF Inv, CallsTyped, Pending, NoWrite
  <2>6. WriteReady'
    <3> SUFFICES ASSUME after # NoWrite PROVE WriteReady'
      BY <2>1 DEF WriteReady, NoWrite
    <3>1. PICK x : x = after.dir
      OBVIOUS
    <3>2. /\ Linked(x) /\ x \in Directories /\ after.slot \in Slots(x)
          /\ IF job = <<>> THEN after.slot \notin InUse(x)
                           ELSE x = job[1].dir /\ after.slot = job[1].slot
      BY <3>1 DEF Inv, WriteReady
    <3>3. /\ Linked(x)' /\ x \in Directories' /\ (InUse(x))' = InUse(x) /\ after'.dir = x
      BY <2>1, <2>2, <3>1, <3>2
    <3>4. Linked(after.dir)' /\ InUse(after.dir)' = (InUse(x))'
      BY <3>3 DEF Linked, InUse, At
    <3> QED BY <2>1, <3>2, <3>3, <3>4 DEF WriteReady
  <2>5. NamesApart => NamesApart'
    BY <2>1 DEF NamesApart, IsDirBlock, InUse, At, NoWrite
  <2> QED BY <2>2, <2>3, <2>4, <2>5, <2>6 DEF Kept, Inv, Sound
<1> QED BY <1>1, <1>2, <1>3, <1>4, <1>5, <1>6, <1>7 DEF Next

LEMMA InvAlways == Spec => []Inv
<1>1. Init => Inv
  BY InvInit
<1>2. Inv /\ [Next]_vars => Inv'
  BY InvNext DEF Kept
<1> QED BY <1>1, <1>2, PTL DEF Spec
------------------------------------------------------------------------------
(* What the invariant says of the volume.                                  *)
LEMMA InvTypeOK == Inv => TypeOK
<1> SUFFICES ASSUME Inv PROVE TypeOK
  OBVIOUS
<1>1. ImageTyped /\ CallsTyped /\ WriteReady
  BY DEF Inv
<1>2. ASSUME NEW b \in Block
      PROVE  \/ blk[b] = [tag |-> "blank"]
             \/ blk[b] \in [tag : {"data"}, payload : Payloads, chunk : Nat \ {0}]
             \/ blk[b].tag = "index" /\ Range(blk[b].ptrs) \subseteq Block
             \/ /\ blk[b].tag = "dir"
                /\ blk[b].count \in Nat
                /\ blk[b].entries \in [Slots(b) -> Entry \cup {Never, Deleted}]
  <2>1. blk[b] \in Content(b)
    BY <1>1 DEF ImageTyped
  <2>2. CASE blk[b] \in [tag : {"index"}, ptrs : Seq(Block)]
    <3>1. blk[b].tag = "index" /\ blk[b].ptrs \in Seq(Block)
      BY <2>2
    <3>2. Range(blk[b].ptrs) \subseteq Block
      BY <3>1 DEF Range
    <3> QED BY <3>1, <3>2
  <2>3. CASE blk[b] \in [tag : {"dir"}, count : Nat, entries : [Slots(b) -> Entry \cup {Never, Deleted}]]
    BY <2>3
  <2>4. CASE blk[b] \in [tag : {"blank"}]
    BY <2>4
  <2> QED BY <2>1, <2>2, <2>3, <2>4 DEF Content
<1>3. \A n \in DOMAIN job : job[n].dir \in Block /\ job[n].left \subseteq Slots(Null)
  <2> TAKE n \in DOMAIN job
  <2>1. job[n] \in Frames
    BY <1>1 DEF CallsTyped
  <2> QED BY <2>1 DEF Frames
<1>4. after = NoWrite \/ (after.dir \in Block /\ after.slot \in Slots(after.dir))
  BY <1>1 DEF CallsTyped, Pending, WriteReady
<1>5. free \subseteq Block \ {Root}
  BY <1>1 DEF ImageTyped
<1> QED BY <1>2, <1>3, <1>4, <1>5 DEF TypeOK

LEMMA EntriesUsed ==
  ASSUME Sound, NEW x \in Entries
  PROVE  /\ Used(x[1], x[2]) /\ x[1] \in Block /\ x[2] \in Slots(x[1])
         /\ x = <<x[1], x[2]>>
<1>1. PICK d \in Directories : x \in {<<d, i>> : i \in InUse(d)}
  BY DEF Entries
<1>2. PICK i \in InUse(d) : x = <<d, i>>
  BY <1>1
<1>3. d \in LinkedBlocks
  BY DirectoriesLinked DEF Sound
<1>4. IsDirBlock(d)
  BY <1>3, LinkedBlock DEF LinkedBlocks, Sound
<1>5. Used(d, i) /\ d \in Block /\ i \in Slots(d)
  BY <1>2, <1>4 DEF Used, IsDirBlock, InUse
<1> QED BY <1>2, <1>5

LEMMA SoundMarked == Sound => UsedMarked
<1> SUFFICES ASSUME Sound, NEW b \in free, b \in Occupied PROVE FALSE
  BY DEF UsedMarked
<1>1. PICK x \in Entries : b \in Footprint(EntryOf(x))
  BY DEF Occupied
<1>2. Used(x[1], x[2]) /\ x[1] \in Block /\ x[2] \in Slots(x[1])
  BY EntriesUsed
<1> QED BY <1>1, <1>2 DEF Sound, EntriesMarked, EntryOf

LEMMA SoundApart == Sound => NoCrossLink
<1> SUFFICES ASSUME Sound, NEW x \in Entries, NEW y \in Entries, x # y
             PROVE  Footprint(EntryOf(x)) \cap Footprint(EntryOf(y)) = {}
  BY DEF NoCrossLink
<1>1. /\ Used(x[1], x[2]) /\ x[1] \in Block /\ x[2] \in Slots(x[1]) /\ x = <<x[1], x[2]>>
      /\ Used(y[1], y[2]) /\ y[1] \in Block /\ y[2] \in Slots(y[1]) /\ y = <<y[1], y[2]>>
  BY EntriesUsed
<1> QED BY <1>1 DEF Sound, EntriesApart, EntryOf

\* A file that is whole is read back as the payload that was stored.
LEMMA StoredIsRead ==
  ASSUME ImageTyped, NEW e, e.key \in Block, NEW p \in Payloads, Stores(e, p)
  PROVE  Payload(e) = p
<1>1. DataBlocks(p) \in Nat \ {0} /\ Chunks(p) <= DataBlocks(p) /\ Chunks(p) \in Int
  <2>1. Chunks(p) \in Int
    BY PayloadAssumption DEF Chunks
  <2> QED BY <2>1, BlockCounts
<1>2. PICK order : order = ReadOrder(e)
  OBVIOUS
<1>3. /\ order # <<>> /\ Len(order) = DataBlocks(p) /\ e.size = Size[p]
      /\ \A j \in 1 .. DataBlocks(p) :
           blk[order[j]] = [tag |-> "data", payload |-> p, chunk |-> j]
  <2>1. CASE e.st = "seedling"
    <3>1. order = <<e.key>>
      BY <1>2, <2>1 DEF ReadOrder
    <3>2. /\ DataBlocks(p) = 1 /\ e.size = Size[p]
          /\ blk[e.key] = [tag |-> "data", payload |-> p, chunk |-> 1]
      BY <2>1 DEF Stores
    <3> QED BY <3>1, <3>2
  <2>2. CASE e.st # "seedling"
    <3>1. /\ e.st = "sapling" /\ blk[e.key].tag = "index" /\ e.size = Size[p]
          /\ Len(blk[e.key].ptrs) = DataBlocks(p)
          /\ \A j \in 1 .. DataBlocks(p) :
               blk[blk[e.key].ptrs[j]] = [tag |-> "data", payload |-> p, chunk |-> j]
      BY <2>2 DEF Stores
    <3>2. order = blk[e.key].ptrs
      BY <1>2, <3>1 DEF ReadOrder, Pointers
    <3>3. order # <<>>
      BY <1>1, <3>1, <3>2
    <3> QED BY <3>1, <3>2, <3>3
  <2> QED BY <2>1, <2>2
<1>4. blk[order[1]] = [tag |-> "data", payload |-> p, chunk |-> 1]
  BY <1>1, <1>3
<1>5. \A j \in 1 .. Chunks(p) : blk[order[j]] = [tag |-> "data", payload |-> p, chunk |-> j]
  BY <1>1, <1>3
<1>6. Holds(e, p)
  BY <1>1, <1>2, <1>3, <1>5 DEF Holds
<1> QED BY <1>2, <1>3, <1>4, <1>6 DEF Payload

LEMMA SoundReadsBack == Sound => ReadsBack
<1> SUFFICES ASSUME Sound, NEW x \in Entries, ~IsDir(EntryOf(x))
             PROVE  Payload(EntryOf(x)) # Garbled
  BY DEF ReadsBack
<1>1. Used(x[1], x[2]) /\ x[1] \in Block /\ x[2] \in Slots(x[1])
  BY EntriesUsed
<1>2. PICK e : e = EntryOf(x)
  OBVIOUS
<1>3. Whole(e) /\ e.key \in Block /\ IsEntry(e)
  BY <1>1, <1>2, EntryTyped DEF Sound, EntriesWhole, EntryOf, Used, InUse
<1>4. PICK p \in Payloads : Stores(e, p)
  BY <1>2, <1>3 DEF Whole, IsDir
<1>5. Payload(e) = p
  BY <1>3, <1>4, StoredIsRead DEF Sound
<1> QED BY <1>2, <1>5, GarbledAssumption

LEMMA ApartUnique == Inv /\ NamesApart => UniqueNames
<1> SUFFICES ASSUME Inv, NamesApart, NEW d \in Directories
             PROVE  \A i, j \in InUse(d) : At(d, i).name = At(d, j).name => i = j
  BY DEF UniqueNames
<1>1. Linked(d) /\ d \in Block
  BY InvSound, DirectoriesLinked DEF Sound, LinkedBlocks
<1>2. IsDirBlock(d)
  BY <1>1, LinkedBlock DEF Inv
<1> QED BY <1>1, <1>2 DEF NamesApart
------------------------------------------------------------------------------
(* What a command does to the files of the root directory by name.         *)
RootFile(j) ==
  IF IsDir(At(Root, j)) THEN Missing
  ELSE [kind |-> At(Root, j).kind, payload |-> Payload(At(Root, j)),
        locked |-> At(Root, j).locked]

RootFound ==
  /\ \A j \in InUse(Root) :
       /\ At(Root, j).name \in Names /\ FilesInRoot[At(Root, j).name] = RootFile(j)
       /\ ~IsDir(At(Root, j)) => RootFile(j) # Missing
  /\ \A n \in Names :
       (\A j \in InUse(Root) : At(Root, j).name # n) => FilesInRoot[n] = Missing
  /\ FilesInRoot = [n \in Names |-> FilesInRoot[n]]

EntriesRead ==
  \A d \in Block : \A j \in Slots(d) : \A p \in Payloads :
    Used(d, j) /\ Stores(At(d, j), p) => Payload(At(d, j)) = p

LEMMA SoundEntriesRead == Sound => EntriesRead
BY EntryTyped, StoredIsRead DEF Sound, EntriesRead

LEMMA RootUsed ==
  ASSUME Sound
  PROVE  \A j : Used(Root, j) <=> j \in InUse(Root)
BY DEF Sound, ImageTyped, Used

LEMMA SoundRootFound == Sound /\ DirNamesApart => RootFound
<1> SUFFICES ASSUME Sound, DirNamesApart PROVE RootFound
  OBVIOUS
<1>1. \A n \in Names : FilesInRoot[n] = FileNamed(n)
  BY DEF FilesInRoot
<1>2. ASSUME NEW j \in InUse(Root)
      PROVE  /\ At(Root, j).name \in Names /\ FilesInRoot[At(Root, j).name] = RootFile(j)
             /\ ~IsDir(At(Root, j)) => RootFile(j) # Missing
  <2>1. Used(Root, j)
    BY <1>2, RootUsed
  <2>2. /\ At(Root, j) \in Entry /\ At(Root, j).key \in Block /\ j \in Slots(Root)
        /\ Root \in Block
    BY <2>1, EntryTyped DEF Sound
  <2>3. PICK n : n = At(Root, j).name
    OBVIOUS
  <2>4. n \in Names
    BY <2>2, <2>3 DEF Entry
  <2>5. PICK i : i = NamedEntry(Root, n)
    OBVIOUS
  <2>6. i \in InUse(Root) /\ At(Root, i).name = n
    BY <1>2, <2>3, <2>5, NamedEntryOf
  <2>7. i = j
    BY <1>2, <2>2, <2>3, <2>6 DEF DirNamesApart, Sound, ImageTyped
  <2>8. i # NoSlot
    BY <2>2, <2>7, NoSlotUsed
  <2>9. FileNamed(n) = RootFile(j)
    BY <2>5, <2>7, <2>8 DEF FileNamed, RootFile
  <2>10. ASSUME ~IsDir(At(Root, j)) PROVE RootFile(j) # Missing
    <3>1. PICK e : e = At(Root, j)
      OBVIOUS
    <3>2. IsEntry(e) /\ e.st # "dir" /\ Whole(e)
      BY <1>2, <2>1, <2>2, <2>10, <3>1 DEF InUse, IsDir, Sound, EntriesWhole
    <3>3. PICK p \in Payloads : Stores(e, p)
      BY <3>2 DEF Whole
    <3>4. Payload(e) = p
      BY <2>2, <3>1, <3>3, StoredIsRead DEF Sound
    <3>5. e.kind \in Kinds /\ e.locked \in BOOLEAN
      BY <2>2, <3>1, <3>2 DEF Entry
    <3>6. RootFile(j) = [kind |-> e.kind, payload |-> p, locked |-> e.locked]
      BY <2>10, <3>1, <3>4 DEF RootFile
    <3>7. RootFile(j) \in [kind : Kinds, payload : Payloads \cup {Garbled}, locked : BOOLEAN]
      BY <3>5, <3>6
    <3> QED BY <3>7, MissingAssumption
  <2> QED BY <1>1, <2>3, <2>4, <2>9, <2>10
<1>3. ASSUME NEW n \in Names, \A j \in InUse(Root) : At(Root, j).name # n
      PROVE  FilesInRoot[n] = Missing
  <2>1. NamedEntry(Root, n) = NoSlot
    BY <1>3, NamedEntryOf
  <2> QED BY <1>1, <2>1 DEF FileNamed
<1>4. FilesInRoot = [n \in Names |-> FilesInRoot[n]]
  BY DEF FilesInRoot
<1> QED BY <1>2, <1>3, <1>4 DEF RootFound

\* The file of another entry is there before and after, and is the same.
RootSame(j) ==
  /\ (j \in InUse(Root))' <=> j \in InUse(Root)
  /\ j \in InUse(Root) => At(Root, j)' = At(Root, j) /\ RootFile(j)' = RootFile(j)

LEMMA RootOthers ==
  ASSUME Sound, Sound', NEW W, NEW d, NEW i, NEW gone, Edit(W, d, i, gone),
         NEW j, ~(Root = d /\ j = i)
  PROVE  RootSame(j)
<1>0. (\A x : Used(Root, x) <=> x \in InUse(Root)) /\ \A x : Used(Root, x)' <=> (x \in InUse(Root))'
  <2>1. IsDirBlock(Root) /\ IsDirBlock(Root)'
    BY DEF Sound, ImageTyped
  <2> QED BY <2>1 DEF Used
<1>1. ASSUME Used(Root, j)'
      PROVE  Used(Root, j) /\ At(Root, j)' = At(Root, j) /\ RootFile(j)' = RootFile(j)
  <2>1. /\ Used(Root, j) /\ At(Root, j)' = At(Root, j)
        /\ ~IsDir(At(Root, j)) =>
             \A p \in Payloads : Stores(At(Root, j), p) => Stores(At(Root, j), p)'
    BY <1>1, OtherEntries DEF Sound
  <2>2. Root \in Block /\ j \in Slots(Root) /\ IsEntry(At(Root, j))
    BY <2>1, EntryTyped DEF Sound, Used, InUse
  <2>3. IsDir(At(Root, j))' <=> IsDir(At(Root, j))
    BY <2>1 DEF IsDir, IsEntry
  <2>4. ASSUME ~IsDir(At(Root, j)) PROVE Payload(At(Root, j))' = Payload(At(Root, j))
    <3>1. PICK p \in Payloads : Stores(At(Root, j), p)
      BY <2>1, <2>2, <2>4 DEF Sound, EntriesWhole, Whole, IsDir
    <3>2. EntriesRead /\ EntriesRead'
      BY SoundEntriesRead, PTL
    <3>3. Stores(At(Root, j), p)'
      BY <2>1, <2>4, <3>1
    <3>4. Payload(At(Root, j)) = p
      BY <2>1, <2>2, <3>1, <3>2 DEF EntriesRead
    <3>5. Payload(At(Root, j))' = p
      BY <1>1, <2>2, <3>2, <3>3 DEF EntriesRead
    <3> QED BY <3>4, <3>5
  <2>5. RootFile(j)' = RootFile(j)
    BY <2>1, <2>3, <2>4 DEF RootFile
  <2> QED BY <2>1, <2>5
<1>2. ASSUME Used(Root, j) PROVE Used(Root, j)'
  <2>1. Root \in Block /\ j \in Slots(Root) /\ IsEntry(At(Root, j))
    BY <1>2, EntryTyped DEF Sound, Used, InUse
  <2>2. Root \notin W
    <3>1. Root \notin free
      BY DEF Sound, ImageTyped
    <3>2. gone # {} => Root \notin Footprint(At(d, i))
      <4> SUFFICES ASSUME gone # {} PROVE Root \notin Footprint(At(d, i))
        OBVIOUS
      <4>1. Used(d, i) /\ d \in Block /\ i \in Slots(d)
        BY EntryTyped DEF Edit, Sound
      <4> QED BY <4>1 DEF Sound, EntriesMarked
    <3> QED BY <3>1, <3>2 DEF Edit
  <2>3. At(Root, j)' = At(Root, j)
    BY <2>1, <2>2 DEF Edit, At
  <2> QED BY <1>0, <2>1, <2>3 DEF InUse, IsEntry
<1> QED BY <1>0, <1>1, <1>2 DEF RootSame

\* Only the names of the entry that was edited are about another file.
LEMMA RootAfter ==
  ASSUME Sound, Sound', DirNamesApart, DirNamesApart', NEW i, \A j : j # i => RootSame(j)
  PROVE  \A n \in Names :
           FilesInRoot'[n] = IF (i \in InUse(Root))' /\ At(Root, i)'.name = n THEN RootFile(i)'
                             ELSE IF i \in InUse(Root) /\ At(Root, i).name = n THEN Missing
                             ELSE FilesInRoot[n]
<1>1. RootFound /\ RootFound'
  BY SoundRootFound, PTL
<1> TAKE n \in Names
<1>2. CASE (i \in InUse(Root))' /\ At(Root, i)'.name = n
  BY <1>1, <1>2 DEF RootFound
<1>3. CASE ~((i \in InUse(Root))' /\ At(Root, i)'.name = n)
  <2>1. CASE i \in InUse(Root) /\ At(Root, i).name = n
    <3>1. ASSUME NEW j, (j \in InUse(Root))', At(Root, j)'.name = n PROVE FALSE
      <4>1. j # i /\ RootSame(j)
        BY <1>3, <3>1
      <4>2. j \in InUse(Root) /\ At(Root, j).name = n
        BY <3>1, <4>1 DEF RootSame
      <4> QED BY <2>1, <4>1, <4>2, VolumeAssumption DEF DirNamesApart, Sound, ImageTyped
    <3>2. FilesInRoot'[n] = Missing
      BY <1>1, <3>1 DEF RootFound
    <3> QED BY <1>3, <2>1, <3>2
  <2>2. CASE ~(i \in InUse(Root) /\ At(Root, i).name = n)
    <3>1. CASE \E j \in InUse(Root) : At(Root, j).name = n
      <4>1. PICK j \in InUse(Root) : At(Root, j).name = n
        BY <3>1
      <4>2. j # i /\ RootSame(j)
        BY <2>2, <4>1
      <4>3. (j \in InUse(Root))' /\ At(Root, j)'.name = n /\ RootFile(j)' = RootFile(j)
        BY <4>1, <4>2 DEF RootSame
      <4>4. FilesInRoot'[n] = RootFile(j)' /\ FilesInRoot[n] = RootFile(j)
        BY <1>1, <4>1, <4>3 DEF RootFound
      <4> QED BY <1>3, <2>2, <4>3, <4>4
    <3>2. CASE \A j \in InUse(Root) : At(Root, j).name # n
      <4>1. ASSUME NEW j, (j \in InUse(Root))', At(Root, j)'.name = n PROVE FALSE
        <5>1. j # i /\ RootSame(j)
          BY <1>3, <4>1
        <5> QED BY <3>2, <4>1, <5>1 DEF RootSame
      <4>2. FilesInRoot'[n] = Missing /\ FilesInRoot[n] = Missing
        BY <1>1, <3>2, <4>1 DEF RootFound
      <4> QED BY <1>3, <2>2, <4>2
    <3> QED BY <3>1, <3>2
  <2> QED BY <2>1, <2>2
<1> QED BY <1>2, <1>3

\* A file whose name or lock changes keeps its contents.
LEMMA ChangedStores ==
  ASSUME Sound, NEW W, NEW d, NEW i, Edit(W, d, i, {}), SameFile(d, i), ~IsDir(At(d, i)),
         NEW p \in Payloads, Stores(At(d, i), p)
  PROVE  Stores(At(d, i), p)'
<1>1. PICK e, f : e = At(d, i) /\ f = At(d, i)'
  OBVIOUS
<1>2. /\ d \in Block /\ i \in Slots(d) /\ IsEntry(e)
      /\ e.key \in Block /\ e.st \in {"seedling", "sapling"}
  <2>1. Used(d, i)
    BY DEF SameFile
  <2> QED BY <1>1, <2>1, EntryTyped DEF Sound, Used, InUse, IsDir
<1>3. Whole(e) /\ Footprint(e) \cap free = {}
  <2>1. Used(d, i)
    BY DEF SameFile
  <2> QED BY <1>1, <1>2, <2>1 DEF Sound, EntriesWhole, EntriesMarked
<1>4. W \subseteq free
  BY DEF Edit
<1>5. \A b \in Footprint(e) : blk'[b] = blk[b] \/ (IsDirBlock(b) /\ IsDirBlock(b)')
  <2> TAKE b \in Footprint(e)
  <2>1. b \in Block /\ b \notin W
    BY <1>2, <1>3, <1>4, FootprintInBlocks DEF Sound
  <2> QED BY <2>1 DEF Edit
<1>6. f.st = e.st /\ f.key = e.key /\ f.size = e.size
  BY <1>1, <1>2 DEF SameFile
<1>7. Stores(e, p) => Stores(f, p)'
  BY <1>2, <1>3, <1>5, <1>6, FileFrame DEF Sound
<1>8. Stores(At(d, i), p)' <=> Stores(f, p)'
  BY <1>1 DEF Stores
<1> QED BY <1>1, <1>7, <1>8

\* The files of the root directory as a step changes them.
RootStep(i) ==
  /\ Sound /\ Sound' /\ RootFound /\ RootFound'
  /\ \A j : j # i => RootSame(j)
  /\ \A n \in Names :
       FilesInRoot'[n] = IF (i \in InUse(Root))' /\ At(Root, i)'.name = n THEN RootFile(i)'
                         ELSE IF i \in InUse(Root) /\ At(Root, i).name = n THEN Missing
                         ELSE FilesInRoot[n]

LEMMA WrittenIsPut ==
  ASSUME DirNamesApart', NEW i, RootStep(i), Written(Root, i)
  PROVE  Store!Next
<1>1. PICK n, k, p : /\ n = At(Root, i)'.name /\ k = At(Root, i)'.kind
                     /\ p \in Payloads /\ Stores(At(Root, i), p)'
  BY DEF Written
<1>2. /\ (i \in InUse(Root))' /\ ~IsDir(At(Root, i))' /\ ~At(Root, i)'.locked
      /\ i \in InUse(Root) => /\ ~IsDir(At(Root, i)) /\ ~At(Root, i).locked
                              /\ At(Root, i).name = n
  <2>1. IsDirBlock(Root)
    BY DEF RootStep, Sound, ImageTyped
  <2> QED BY <1>1, <2>1 DEF Written, Used
<1>3. n \in Names /\ k \in Kinds /\ At(Root, i)'.locked = FALSE /\ Payload(At(Root, i))' = p
  <2>1. EntriesRead'
    BY SoundEntriesRead, PTL DEF RootStep
  <2>2. At(Root, i)' \in Entry /\ Root \in Block /\ i \in Slots(Root) /\ IsEntry(At(Root, i))'
    <3>1. /\ blk'[Root] \in Content(Root) /\ blk'[Root].tag = "dir" /\ Root \in Block
      BY DEF RootStep, Sound, ImageTyped, IsDirBlock
    <3>2. At(Root, i)' \in Entry \cup {Never, Deleted} /\ i \in Slots(Root)
      BY <1>2, <3>1 DEF Content, At, InUse
    <3> QED BY <1>2, <3>1, <3>2 DEF InUse, IsEntry
  <2>3. At(Root, i)'.st # "dir"
    BY <1>2, <2>2 DEF IsDir, IsEntry
  <2>4. n \in Names /\ k \in Kinds /\ At(Root, i)'.locked = FALSE
    BY <1>1, <1>2, <2>2, <2>3 DEF Entry
  <2>5. Payload(At(Root, i))' = p
    BY <1>1, <2>1, <2>2 DEF EntriesRead, Written
  <2> QED BY <2>4, <2>5
<1>4. RootFile(i)' = [kind |-> k, payload |-> p, locked |-> FALSE]
  BY <1>1, <1>2, <1>3 DEF RootFile
<1>5. FilesInRoot' = [FilesInRoot EXCEPT ![n] = [kind |-> k, payload |-> p, locked |-> FALSE]]
  <2>1. FilesInRoot'[n] = [kind |-> k, payload |-> p, locked |-> FALSE]
    BY <1>1, <1>2, <1>3, <1>4 DEF RootStep
  <2>2. \A m \in Names \ {n} : FilesInRoot'[m] = FilesInRoot[m]
    BY <1>1, <1>2 DEF RootStep
  <2>3. /\ FilesInRoot = [m \in Names |-> FilesInRoot[m]]
        /\ FilesInRoot' = [m \in Names |-> FilesInRoot'[m]]
    BY DEF RootStep, RootFound
  <2> QED BY <1>3, <2>1, <2>2, <2>3
<1>6. FilesInRoot[n] # Missing => ~FilesInRoot[n].locked
  <2> SUFFICES ASSUME FilesInRoot[n] # Missing PROVE ~FilesInRoot[n].locked
    OBVIOUS
  <2>1. PICK j \in InUse(Root) : At(Root, j).name = n
    BY <1>3 DEF RootStep, RootFound
  <2>2. j = i
    <3> SUFFICES ASSUME j # i PROVE FALSE
      OBVIOUS
    <3>1. (j \in InUse(Root))' /\ At(Root, j)'.name = n
      BY <2>1 DEF RootStep, RootSame
    <3>2. IsDirBlock(Root)' /\ Root \in Block
      BY VolumeAssumption DEF RootStep, Sound, ImageTyped
    <3> QED BY <1>1, <1>2, <3>1, <3>2 DEF DirNamesApart
  <2>3. FilesInRoot[n] = RootFile(i)
    BY <2>1, <2>2 DEF RootStep, RootFound
  <2> QED BY <1>2, <2>1, <2>2, <2>3 DEF RootFile
<1>7. Store!Put(n, k, p)
  BY <1>5, <1>6 DEF Store!Put, Store!Present, Store!MayGo
<1> QED BY <1>1, <1>3, <1>7 DEF Store!Next

LEMMA RemovedIsDrop ==
  ASSUME NEW i, RootStep(i), Removed(Root, i)
  PROVE  Store!Next \/ UNCHANGED FilesInRoot
<1>1. /\ i \in InUse(Root) /\ ~(i \in InUse(Root))'
      /\ ~IsDir(At(Root, i)) => ~At(Root, i).locked
  <2>1. IsDirBlock(Root) /\ IsDirBlock(Root)'
    BY DEF RootStep, Sound, ImageTyped
  <2> QED BY <2>1 DEF Removed, MayGo, Used
<1>2. PICK n : n = At(Root, i).name
  OBVIOUS
<1>3. /\ n \in Names /\ FilesInRoot[n] = RootFile(i)
      /\ ~IsDir(At(Root, i)) => RootFile(i) # Missing
  BY <1>1, <1>2 DEF RootStep, RootFound
<1>4. FilesInRoot' = [FilesInRoot EXCEPT ![n] = Missing]
  <2>1. FilesInRoot'[n] = Missing
    BY <1>1, <1>2, <1>3 DEF RootStep
  <2>2. \A m \in Names \ {n} : FilesInRoot'[m] = FilesInRoot[m]
    BY <1>1, <1>2 DEF RootStep
  <2>3. /\ FilesInRoot = [m \in Names |-> FilesInRoot[m]]
        /\ FilesInRoot' = [m \in Names |-> FilesInRoot'[m]]
    BY DEF RootStep, RootFound
  <2> QED BY <1>3, <2>1, <2>2, <2>3
<1>5. CASE IsDir(At(Root, i))
  <2>1. FilesInRoot[n] = Missing
    BY <1>3, <1>5 DEF RootFile
  <2>2. FilesInRoot = [m \in Names |-> FilesInRoot[m]]
    BY DEF RootStep, RootFound
  <2> QED BY <1>3, <1>4, <2>1, <2>2
<1>6. CASE ~IsDir(At(Root, i))
  <2>1. FilesInRoot[n] # Missing /\ ~FilesInRoot[n].locked
    BY <1>1, <1>3, <1>6 DEF RootFile
  <2>2. Store!Drop(n)
    BY <1>4, <2>1 DEF Store!Drop, Store!Present, Store!MayGo
  <2> QED BY <1>3, <2>2 DEF Store!Next
<1> QED BY <1>5, <1>6

\* What no file is, before or after, is not seen in the files.
LEMMA NoFileIsStutter ==
  ASSUME NEW i, RootStep(i),
         i \in InUse(Root) => IsDir(At(Root, i)),
         (i \in InUse(Root))' => IsDir(At(Root, i))',
         (i \in InUse(Root))' =>
           \/ \A j \in InUse(Root) : At(Root, j).name # At(Root, i)'.name
           \/ i \in InUse(Root) /\ At(Root, i)'.name = At(Root, i).name
  PROVE  UNCHANGED FilesInRoot
<1>1. \A n \in Names : FilesInRoot'[n] = FilesInRoot[n]
  <2> TAKE n \in Names
  <2>1. CASE (i \in InUse(Root))' /\ At(Root, i)'.name = n
    <3>1. FilesInRoot'[n] = Missing
      BY <2>1 DEF RootStep, RootFile
    <3>2. FilesInRoot[n] = Missing
      <4>1. CASE \A j \in InUse(Root) : At(Root, j).name # n
        BY <4>1 DEF RootStep, RootFound
      <4>2. CASE i \in InUse(Root) /\ At(Root, i).name = n
        BY <4>2 DEF RootStep, RootFound, RootFile
      <4> QED BY <2>1, <4>1, <4>2
    <3> QED BY <3>1, <3>2
  <2>2. CASE ~((i \in InUse(Root))' /\ At(Root, i)'.name = n)
    <3>1. CASE i \in InUse(Root) /\ At(Root, i).name = n
      <4>1. FilesInRoot'[n] = Missing
        BY <2>2, <3>1 DEF RootStep
      <4>2. FilesInRoot[n] = Missing
        BY <3>1 DEF RootStep, RootFound, RootFile
      <4> QED BY <4>1, <4>2
    <3>2. CASE ~(i \in InUse(Root) /\ At(Root, i).name = n)
      BY <2>2, <3>2 DEF RootStep
    <3> QED BY <3>1, <3>2
  <2> QED BY <2>1, <2>2
<1>2. /\ FilesInRoot = [m \in Names |-> FilesInRoot[m]]
      /\ FilesInRoot' = [m \in Names |-> FilesInRoot'[m]]
  BY DEF RootStep, RootFound
<1> QED BY <1>1, <1>2

\* A new name is that of no other entry.
LEMMA NewNameApart ==
  ASSUME DirNamesApart', NEW i, RootStep(i), (i \in InUse(Root))'
  PROVE  \A j \in InUse(Root) \ {i} : At(Root, j).name # At(Root, i)'.name
<1> SUFFICES ASSUME NEW j \in InUse(Root) \ {i}, At(Root, j).name = At(Root, i)'.name
             PROVE  FALSE
  OBVIOUS
<1>1. (j \in InUse(Root))' /\ At(Root, j)'.name = At(Root, i)'.name
  BY DEF RootStep, RootSame
<1>2. IsDirBlock(Root)' /\ Root \in Block
  BY VolumeAssumption DEF RootStep, Sound, ImageTyped
<1> QED BY <1>1, <1>2 DEF DirNamesApart

EntryTypedAlways ==
  \A d \in Block : \A j \in Slots(d) :
    Used(d, j) => At(d, j) \in Entry /\ At(d, j).locked \in BOOLEAN

LEMMA EntryTypedHere == ImageTyped => EntryTypedAlways
<1> SUFFICES ASSUME ImageTyped, NEW d, NEW j, Used(d, j)
             PROVE  At(d, j) \in Entry /\ At(d, j).locked \in BOOLEAN
  BY DEF EntryTypedAlways
<1>1. At(d, j) \in Entry
  BY EntryTyped
<1> QED BY <1>1 DEF Entry

LEMMA ChangedIsChange ==
  ASSUME DirNamesApart', NEW W, NEW i, RootStep(i), Edit(W, Root, i, {}), Changed(Root, i)
  PROVE  Store!Next \/ UNCHANGED FilesInRoot
<1>1. SameFile(Root, i) /\ IsDirBlock(Root) /\ IsDirBlock(Root)'
  BY DEF Changed, RootStep, Sound, ImageTyped
<1>2. /\ i \in InUse(Root) /\ i \in Slots(Root) /\ Root \in Block
      /\ At(Root, i) \in Entry /\ At(Root, i).key \in Block
  <2>1. Used(Root, i)
    BY <1>1 DEF SameFile
  <2> QED BY <2>1, EntryTyped DEF RootStep, Sound, Used
<1>3. /\ (i \in InUse(Root))'
      /\ IsDir(At(Root, i))' <=> IsDir(At(Root, i))
      /\ At(Root, i)'.name \in Names
  <2>1. (i \in InUse(Root))'
    BY DEF Changed, Used
  <2>2. IsEntry(At(Root, i)) /\ IsEntry(At(Root, i))'
    BY <1>2, <2>1 DEF InUse, IsEntry
  <2>3. RootFound'
    BY DEF RootStep
  <2>4. At(Root, i)'.name \in Names
    BY <2>1, <2>3 DEF RootFound
  <2> QED BY <1>1, <2>1, <2>2, <2>4 DEF SameFile, IsDir
<1>4. CASE IsDir(At(Root, i))
  <2>1. \/ \A j \in InUse(Root) : At(Root, j).name # At(Root, i)'.name
        \/ i \in InUse(Root) /\ At(Root, i)'.name = At(Root, i).name
    BY <1>2, <1>3, NewNameApart
  <2> QED BY <1>3, <1>4, <2>1, NoFileIsStutter
<1>5. CASE ~IsDir(At(Root, i))
  <2>1. PICK n, m : n = At(Root, i).name /\ m = At(Root, i)'.name
    OBVIOUS
  <2>2. PICK file, k, b, c : /\ file = RootFile(i) /\ k = At(Root, i).kind
                             /\ b = At(Root, i).locked /\ c = At(Root, i)'.locked
    OBVIOUS
  <2>3. n \in Names /\ m \in Names /\ FilesInRoot[n] = file /\ file # Missing
    BY <1>2, <1>3, <1>5, <2>1, <2>2 DEF RootStep, RootFound
  <2>4. \A j \in InUse(Root) \ {i} : At(Root, j).name # m
    BY <1>3, <2>1, NewNameApart
  <2>5. n # m => FilesInRoot[m] = Missing
    <3> SUFFICES ASSUME n # m PROVE FilesInRoot[m] = Missing
      OBVIOUS
    <3>1. \A j \in InUse(Root) : At(Root, j).name # m
      BY <2>1, <2>4
    <3> QED BY <2>3, <3>1 DEF RootStep, RootFound
  <2>6. PICK p \in Payloads : Stores(At(Root, i), p)
    <3>1. IsEntry(At(Root, i)) /\ Whole(At(Root, i))
      <4>1. Used(Root, i)
        BY <1>1 DEF SameFile
      <4> QED BY <1>2, <4>1 DEF RootStep, Sound, EntriesWhole, InUse
    <3> QED BY <1>5, <3>1 DEF Whole, IsDir
  <2>7. Payload(At(Root, i)) = p /\ Payload(At(Root, i))' = p
    <3>1. EntriesRead /\ EntriesRead'
      BY SoundEntriesRead, PTL DEF RootStep
    <3>2. Stores(At(Root, i), p)'
      BY <1>1, <1>5, <2>6, ChangedStores DEF RootStep
    <3>3. Used(Root, i) /\ Used(Root, i)'
      BY <1>1, <1>2, <1>3 DEF Used
    <3> QED BY <1>2, <2>6, <3>1, <3>2, <3>3 DEF EntriesRead
  <2>8. file = [kind |-> k, payload |-> p, locked |-> b]
    BY <1>5, <2>2, <2>7 DEF RootFile
  <2>9. RootFile(i)' = [kind |-> k, payload |-> p, locked |-> c]
    BY <1>3, <1>5, <2>2, <2>7 DEF RootFile, Changed
  <2>10. FilesInRoot'[m] = [kind |-> k, payload |-> p, locked |-> c]
    BY <1>3, <2>1, <2>3, <2>9 DEF RootStep
  <2>11. n # m => FilesInRoot'[n] = Missing
    BY <1>2, <2>1, <2>3 DEF RootStep
  <2>12. \A x \in Names \ {n, m} : FilesInRoot'[x] = FilesInRoot[x]
    BY <2>1 DEF RootStep
  <2>13. /\ FilesInRoot = [x \in Names |-> FilesInRoot[x]]
         /\ FilesInRoot' = [x \in Names |-> FilesInRoot'[x]]
    BY DEF RootStep, RootFound
  <2>14. CASE n = m
    <3>1. c \in BOOLEAN
      <4>1. Used(Root, i)' /\ ImageTyped'
        BY <1>1, <1>3 DEF Used, RootStep, Sound
      <4>2. EntryTypedAlways'
        BY EntryTypedHere, PTL DEF RootStep, Sound
      <4> QED BY <1>2, <2>2, <4>1, <4>2 DEF EntryTypedAlways
    <3>2. FilesInRoot' = [FilesInRoot EXCEPT ![n].locked = c]
      <4>1. [FilesInRoot[n] EXCEPT !.locked = c] = [kind |-> k, payload |-> p, locked |-> c]
        BY <2>3, <2>8
      <4> QED BY <2>3, <2>10, <2>12, <2>13, <2>14, <4>1
    <3>3. Store!SetLocked(n, c)
      BY <2>3, <3>2 DEF Store!SetLocked, Store!Present
    <3> QED BY <2>3, <3>1, <3>3 DEF Store!Next
  <2>15. CASE n # m
    <3>1. b = c
      BY <2>1, <2>2, <2>15 DEF Changed
    <3>2. FilesInRoot' = [FilesInRoot EXCEPT ![m] = FilesInRoot[n], ![n] = Missing]
      BY <2>3, <2>8, <2>10, <2>11, <2>12, <2>13, <2>15, <3>1
    <3>3. Store!Rename(n, m)
      BY <2>3, <2>5, <2>15, <3>2 DEF Store!Rename, Store!Present
    <3> QED BY <2>3, <3>3 DEF Store!Next
  <2> QED BY <2>14, <2>15
<1> QED BY <1>4, <1>5

\* What FileStore says of a command, of whatever entry it edits.
LEMMA EffectIsStoreStep ==
  ASSUME Sound, Sound', DirNamesApart, DirNamesApart', Effect
  PROVE  Store!Next \/ UNCHANGED FilesInRoot
<1>1. PICK W, d, i, gone : EffectOn(W, d, i, gone)
  BY DEF Effect
<1>2. Edit(W, d, i, gone)
  BY <1>1 DEF EffectOn
<1>3. RootFound /\ RootFound'
  BY SoundRootFound, PTL
<1>4. IsDirBlock(Root) /\ IsDirBlock(Root)'
  BY DEF Sound, ImageTyped
<1>5. ASSUME NEW j, \A x : x # j => RootSame(x) PROVE RootStep(j)
  BY <1>3, <1>5, RootAfter DEF RootStep
<1>6. CASE d # Root
  <2>1. PICK j : j = NoSlot
    OBVIOUS
  <2>2. RootStep(j)
    BY <1>2, <1>5, <1>6, RootOthers
  <2>3. j \notin InUse(Root) /\ ~(j \in InUse(Root))'
    BY <2>1, NoSlotUsed DEF InUse
  <2> QED BY <2>2, <2>3, NoFileIsStutter
<1>7. CASE d = Root
  <2>1. RootStep(i)
    BY <1>2, <1>5, <1>7, RootOthers
  <2>2. CASE Untouched(d, i)
    <3>1. i \notin InUse(Root) /\ ~(i \in InUse(Root))'
      BY <1>4, <1>7, <2>2 DEF Untouched, Used
    <3> QED BY <2>1, <3>1, NoFileIsStutter
  <2>3. CASE Written(d, i)
    <3>1. Written(Root, i)
      BY <1>7, <2>3 DEF Written, Used, InUse, IsDirBlock, At, Stores
    <3> QED BY <2>1, <3>1, WrittenIsPut
  <2>4. CASE Removed(d, i) /\ W = {}
    <3>1. Removed(Root, i)
      BY <1>7, <2>4 DEF Removed, MayGo, Used, InUse, IsDirBlock, At
    <3> QED BY <2>1, <3>1, RemovedIsDrop
  <2>5. CASE Made(d, i)
    <3>1. i \notin InUse(Root) /\ IsDir(At(Root, i))'
      BY <1>4, <1>7, <2>5 DEF Made, Used, At, IsDir, IsEntry
    <3>2. (i \in InUse(Root))' => \A j \in InUse(Root) : At(Root, j).name # At(Root, i)'.name
      BY <2>1, <3>1, NewNameApart
    <3> QED BY <2>1, <3>1, <3>2, NoFileIsStutter
  <2>6. CASE Changed(d, i) /\ gone = {}
    <3>1. Changed(Root, i)
      BY <1>7, <2>6 DEF Changed, SameFile, Used, InUse, IsDirBlock, At
    <3>2. Edit(W, Root, i, {})
      BY <1>2, <1>7, <2>6
    <3> QED BY <2>1, <3>1, <3>2, ChangedIsChange
  <2> QED BY <1>1, <2>2, <2>3, <2>4, <2>5, <2>6 DEF EffectOn
<1> QED BY <1>6, <1>7

------------------------------------------------------------------------------
(* What a command does to the directories that the catalogs lead to, and to *)
(* the locked files that they show.                                        *)
LEMMA LinkedNotWritten ==
  ASSUME Sound, NEW W, NEW d, NEW i, NEW gone, EffectOn(W, d, i, gone), NEW c \in LinkedBlocks
  PROVE  c \notin W
<1>1. W \subseteq free \cup gone
  BY DEF EffectOn, Edit
<1>2. c \notin free /\ Linked(c)
  BY LinkedBlock DEF Sound, LinkedBlocks
<1>3. ASSUME c \in gone, W # {} PROVE FALSE
  <2>1. Used(d, i) /\ gone \subseteq Footprint(At(d, i))
    BY <1>3 DEF EffectOn, Edit
  <2>2. ~IsDir(At(d, i))
    BY <1>3, <2>1 DEF EffectOn, Untouched, Made, Written
  <2>3. d \in Block /\ i \in Slots(d) /\ c \in Footprint(At(d, i))
    BY <1>3, <2>1 DEF Used, IsDirBlock, InUse
  <2>4. c # Root
    BY <2>1, <2>3 DEF Sound, EntriesMarked
  <2>5. PICK b \in Block :
          \E j \in Slots(b) : Used(b, j) /\ IsDir(At(b, j)) /\ At(b, j).key = c
    BY <1>2, <2>4 DEF Linked
  <2>6. PICK j \in Slots(b) : Used(b, j) /\ IsDir(At(b, j)) /\ At(b, j).key = c
    BY <2>5
  <2>7. c \in Footprint(At(b, j))
    BY <2>6 DEF Footprint
  <2>8. b = d /\ j = i
    BY <2>1, <2>3, <2>6, <2>7 DEF Sound, EntriesApart
  <2> QED BY <2>2, <2>6, <2>8
<1> QED BY <1>1, <1>2, <1>3

\* The entries of such a directory that the command is not about.
LEMMA OthersStay ==
  ASSUME Sound, NEW W, NEW d, NEW i, NEW gone, EffectOn(W, d, i, gone),
         NEW c \in LinkedBlocks, NEW j, Used(c, j), ~(c = d /\ j = i)
  PROVE  Used(c, j)' /\ At(c, j)' = At(c, j)
<1>1. c \notin W /\ c \in Block /\ j \in Slots(c) /\ blk[c].tag = "dir" /\ IsEntry(At(c, j))
  BY LinkedNotWritten DEF Used, IsDirBlock, InUse
<1>2. Edit(W, d, i, gone)
  BY DEF EffectOn
<1>3. CASE c = d
  <2>1. At(c, j)' = At(c, j) /\ IsDirBlock(c)'
    BY <1>1, <1>2, <1>3 DEF Edit, At
  <2> QED BY <1>1, <2>1 DEF Used, InUse, IsEntry
<1>4. CASE c # d
  <2>1. blk'[c] = blk[c]
    BY <1>1, <1>2, <1>4 DEF Edit
  <2>2. At(c, j)' = At(c, j) /\ IsDirBlock(c)'
    BY <1>1, <2>1 DEF At, IsDirBlock
  <2> QED BY <1>1, <2>2 DEF Used, InUse, IsEntry
<1> QED BY <1>3, <1>4

\* A directory in which the catalog shows something is not removed.
LEMMA ShownDirectoryStays ==
  ASSUME Sound, NEW W, NEW d, NEW i, NEW gone, EffectOn(W, d, i, gone),
         NEW c \in LinkedBlocks, NEW j, Used(c, j), IsDir(At(c, j)), Shown(At(c, j).key) # {}
  PROVE  (j \in InUse(c))' /\ IsDir(At(c, j))' /\ At(c, j)'.key = At(c, j).key
<1>1. CASE ~(c = d /\ j = i)
  <2>1. Used(c, j)' /\ At(c, j)' = At(c, j)
    BY <1>1, OthersStay
  <2> QED BY <2>1 DEF Used, IsDir, IsEntry
<1>2. CASE c = d /\ j = i
  <2>1. Changed(d, i)
    BY <1>2 DEF EffectOn, Untouched, Made, Written, Removed, MayGo
  <2>2. (j \in InUse(c))' /\ At(c, j)'.st = At(c, j).st /\ At(c, j)'.key = At(c, j).key
    BY <1>2, <2>1 DEF Changed, SameFile, Used
  <2> QED BY <2>2 DEF IsDir, InUse, IsEntry
<1> QED BY <1>1, <1>2

LEMMA ShownDirectoriesStay ==
  ASSUME Sound, Sound', Effect
  PROVE  \A c \in ShownDirectories : Shown(c) # {} => c \in LinkedBlocks /\ c \in Directories'
<1>1. PICK W, d, i, gone : EffectOn(W, d, i, gone)
  BY DEF Effect
<1>2. PICK g : /\ g[0] = {Root} /\ g[MaxDepth] = ShownDirectories
               /\ \A k \in 0 .. MaxDepth : g[k] \in SUBSET LinkedBlocks
               /\ \A k \in 1 .. MaxDepth : g[k] = MoreShown(g[k - 1])
  BY ShownByLevel DEF ShownLevels, Sound
<1>3. PICK h : /\ h[0] = {Root} /\ h[MaxDepth] = Directories'
               /\ \A k \in 1 .. MaxDepth : h[k] = MoreDirectories(h[k - 1])'
  <2>1. SoundLevels'
    BY LevelsAlways, PTL
  <2> QED BY <2>1 DEF SoundLevels, DirectoryLevels, Sound
<1> PICK gap : gap = [k \in 0 .. MaxDepth |-> {c \in g[k] : Shown(c) # {}} \ h[k]]
  OBVIOUS
<1>4. gap[0] \in {{}}
  BY <1>2, <1>3, VolumeAssumption
<1>5. ASSUME NEW k \in 1 .. MaxDepth, gap[k - 1] \in {{}} PROVE gap[k] \in {{}}
  <2>1. k - 1 \in 0 .. MaxDepth /\ k \in 0 .. MaxDepth
    BY VolumeAssumption
  <2>2. PICK G, H : G = g[k - 1] /\ H = h[k - 1]
    OBVIOUS
  <2>3. /\ G \in SUBSET LinkedBlocks /\ \A c \in G : Shown(c) # {} => c \in H
        /\ g[k] = MoreShown(G) /\ h[k] = MoreDirectories(H)'
    BY <1>2, <1>3, <1>5, <2>1, <2>2
  <2>4. ASSUME NEW c \in MoreShown(G), Shown(c) # {} PROVE c \in MoreDirectories(H)'
    <3>1. CASE c \in G
      BY <2>3, <2>4, <3>1 DEF MoreDirectories
    <3>2. CASE c \notin G
      <4>1. PICK b \in G : c \in {At(b, j).key : j \in {l \in Shown(b) : IsDir(At(b, l))}}
        BY <3>2 DEF MoreShown
      <4>2. PICK j \in Shown(b) : IsDir(At(b, j)) /\ c = At(b, j).key
        BY <4>1
      <4>3. b \in LinkedBlocks /\ b \in H /\ Used(b, j)
        <5>1. b \in LinkedBlocks /\ b \in H
          BY <2>3, <4>2
        <5>2. IsDirBlock(b)
          BY <5>1, LinkedBlock DEF LinkedBlocks, Sound
        <5> QED BY <4>2, <5>1, <5>2 DEF Used, Shown
      <4>4. (j \in InUse(b))' /\ IsDir(At(b, j))' /\ At(b, j)'.key = c
        BY <1>1, <2>4, <4>2, <4>3, ShownDirectoryStays
      <4> QED BY <4>3, <4>4 DEF MoreDirectories
    <3> QED BY <3>1, <3>2
  <2>5. {c \in g[k] : Shown(c) # {}} \ h[k] = {}
    BY <2>3, <2>4
  <2> QED BY <2>1, <2>5
<1>6. \A k \in 0 .. MaxDepth : gap[k] \in {{}}
  <2>1. PICK S, n : S = {{}} /\ n = MaxDepth
    OBVIOUS
  <2>2. n \in Nat /\ gap[0] \in S /\ \A k \in 1 .. n : gap[k - 1] \in S => gap[k] \in S
    BY <1>4, <1>5, <2>1, VolumeAssumption
  <2>3. \A k \in 0 .. n : gap[k] \in S
    BY <2>2, RecursionInside
  <2> QED BY <2>1, <2>3
<1>7. {c \in g[MaxDepth] : Shown(c) # {}} \subseteq h[MaxDepth] /\ g[MaxDepth] \subseteq LinkedBlocks
  <2>1. MaxDepth \in 0 .. MaxDepth
    BY VolumeAssumption
  <2> QED BY <1>2, <1>6, <2>1
<1> QED BY <1>2, <1>3, <1>7

\* A locked file is written or removed by no command: its entry keeps its
\* place, its key block and its contents.
LEMMA LockedEntryStays ==
  ASSUME Sound, Sound', Effect, NEW c \in LinkedBlocks, NEW j, Used(c, j),
         ~IsDir(At(c, j)), At(c, j).locked
  PROVE  /\ (j \in InUse(c))' /\ ~IsDir(At(c, j))' /\ At(c, j)'.key = At(c, j).key
         /\ Payload(At(c, j))' = Payload(At(c, j))
<1>1. PICK W, d, i, gone : EffectOn(W, d, i, gone)
  BY DEF Effect
<1>2. Edit(W, d, i, gone)
  BY <1>1 DEF EffectOn
<1>3. c \in Block /\ j \in Slots(c) /\ IsEntry(At(c, j))
  BY DEF Used, IsDirBlock, InUse
<1>4. PICK p \in Payloads : Stores(At(c, j), p)
  BY <1>3 DEF Sound, EntriesWhole, Whole, IsDir
<1>5. /\ Used(c, j)' /\ ~IsDir(At(c, j))' /\ At(c, j)'.key = At(c, j).key
      /\ Stores(At(c, j), p)'
  <2>1. CASE ~(c = d /\ j = i)
    <3>1. Used(c, j)' /\ At(c, j)' = At(c, j)
      BY <1>1, <2>1, OthersStay
    <3>2. Stores(At(c, j), p)'
      BY <1>2, <1>4, <2>1, <3>1, OtherEntries DEF Sound
    <3> QED BY <3>1, <3>2 DEF IsDir, IsEntry
  <2>2. CASE c = d /\ j = i
    <3>1. Changed(d, i) /\ gone = {}
      BY <1>1, <2>2 DEF EffectOn, Untouched, Made, Written, Removed, MayGo
    <3>2. /\ SameFile(d, i) /\ Used(c, j)' /\ At(c, j)'.st = At(c, j).st
          /\ At(c, j)'.key = At(c, j).key
      BY <2>2, <3>1 DEF Changed, SameFile, Used, InUse, IsDirBlock, At
    <3>3. Stores(At(d, i), p)'
      BY <1>2, <1>4, <2>2, <3>1, <3>2, ChangedStores
    <3>4. Stores(At(c, j), p)'
      BY <2>2, <3>3 DEF Stores, At
    <3> QED BY <1>3, <3>2, <3>4 DEF IsDir
  <2> QED BY <2>1, <2>2
<1>6. EntriesRead /\ EntriesRead'
  BY SoundEntriesRead, PTL
<1>7. Payload(At(c, j)) = p /\ Payload(At(c, j))' = p
  BY <1>3, <1>4, <1>5, <1>6 DEF EntriesRead
<1> QED BY <1>5, <1>7 DEF Used

------------------------------------------------------------------------------
(* Where the blocks go that a command takes or gives back.                 *)
EntriesOccupy ==
  \A d \in Directories : \A i \in InUse(d) : Footprint(At(d, i)) \subseteq Occupied

LEMMA OccupiedByEntries == EntriesOccupy
<1> SUFFICES ASSUME NEW d \in Directories, NEW i \in InUse(d)
             PROVE  Footprint(At(d, i)) \subseteq Occupied
  BY DEF EntriesOccupy
<1>1. PICK x : x = <<d, i>>
  OBVIOUS
<1>2. x \in Entries
  BY <1>1 DEF Entries
<1>3. EntryOf(x) = At(d, i)
  BY <1>1 DEF EntryOf
<1> QED BY <1>2, <1>3 DEF Occupied

\* A command that writes blocks removes no directory.
LEMMA WrittenDirectoriesStay ==
  ASSUME Sound, Sound', NEW W, NEW d, NEW i, NEW gone, EffectOn(W, d, i, gone), W # {},
         NEW c \in Directories
  PROVE  c \in Directories'
<1>1. PICK N : N = Block
  OBVIOUS
<1>2. EntriesLead(N)
  <2> SUFFICES ASSUME NEW b \in LinkedBlocks, NEW j, Used(b, j), IsDir(At(b, j))
               PROVE  b \in N /\ (j \in InUse(b))' /\ IsDir(At(b, j))'
                      /\ At(b, j)'.key = At(b, j).key
    BY DEF EntriesLead
  <2>1. b \in N
    BY <1>1 DEF LinkedBlocks
  <2>2. CASE ~(b = d /\ j = i)
    <3>1. Used(b, j)' /\ At(b, j)' = At(b, j)
      BY <2>2, OthersStay
    <3> QED BY <2>1, <3>1 DEF Used, IsDir, IsEntry
  <2>3. CASE b = d /\ j = i
    <3>1. Changed(d, i)
      BY <2>3 DEF EffectOn, Untouched, Made, Written
    <3>2. (j \in InUse(b))' /\ At(b, j)'.st = At(b, j).st /\ At(b, j)'.key = At(b, j).key
      BY <2>3, <3>1 DEF Changed, SameFile, Used
    <3> QED BY <2>1, <3>2 DEF IsDir, InUse, IsEntry
  <2> QED BY <2>2, <2>3
<1>3. Directories \cap N \subseteq Directories'
  BY <1>2, DirectoriesStay DEF Sound
<1>4. c \in N
  BY <1>1, DirectoriesLinked DEF Sound, LinkedBlocks
<1> QED BY <1>3, <1>4

\* An entry keeps its blocks when its name or its lock changes.
LEMMA ChangedFootprint ==
  ASSUME Sound, NEW d, NEW i, Edit({}, d, i, {}), Changed(d, i)
  PROVE  Footprint(At(d, i))' = Footprint(At(d, i))
<1>1. PICK e : e = At(d, i)
  OBVIOUS
<1>2. /\ e.key \in Block /\ Whole(e) /\ e.st \in {"dir", "seedling", "sapling"}
      /\ Footprint(e) \subseteq Block
  <2>1. /\ Used(d, i) /\ d \in Block /\ i \in Slots(d) /\ At(d, i).key \in Block
        /\ At(d, i).st \in {"dir", "seedling", "sapling"}
    BY EntryTyped DEF Sound, Changed, SameFile
  <2> QED BY <1>1, <2>1, FootprintInBlocks DEF Sound, EntriesWhole
<1>3. PICK f : f = At(d, i)'
  OBVIOUS
<1>4. f.st = e.st /\ f.key = e.key /\ (e.st # "dir" => f.size = e.size)
  BY <1>1, <1>3 DEF Changed, SameFile
<1>5. \A b \in Footprint(e) : blk'[b] = blk[b] \/ (IsDirBlock(b) /\ IsDirBlock(b)')
  <2> TAKE b \in Footprint(e)
  <2>1. CASE b = d
    <3>1. IsDirBlock(d) /\ IsDirBlock(d)'
      BY DEF Edit
    <3> QED BY <2>1, <3>1 DEF IsDirBlock
  <2>2. CASE b # d
    BY <1>2, <2>2 DEF Edit
  <2> QED BY <2>1, <2>2
<1>6. Footprint(f)' = Footprint(e)
  BY <1>2, <1>4, <1>5, FileFrame DEF Sound
<1>7. Footprint(At(d, i))' = Footprint(f)'
  BY <1>3 DEF Footprint, Pointers
<1> QED BY <1>1, <1>6, <1>7

KnownLeak(b) ==
  \/ b \in free /\ \E d \in Directories : FreeEntry(d) = NoSlot
  \/ \E x \in Entries : \E j \in DOMAIN Pointers(EntryOf(x)) :
       b = Pointers(EntryOf(x))[j] /\ j = IndexSize
  \/ \E x \in Entries : b \in Footprint(EntryOf(x)) /\ x[1] \notin Directories'

LEMMA LeakIsKnown ==
  ASSUME Sound, Sound', Effect, NEW b, b \in free \cup Occupied, ~(b \in free'),
         ~(b \in Occupied')
  PROVE  KnownLeak(b)
<1>1. PICK W, d, i, gone : EffectOn(W, d, i, gone)
  BY DEF Effect
<1>2. Edit(W, d, i, gone) /\ Balanced(W, d, i, gone)
  BY <1>1 DEF EffectOn
<1>3. ASSUME NEW c \in Directories', NEW j, (j \in InUse(c))' PROVE ~(b \in Footprint(At(c, j))')
  <2>1. EntriesOccupy'
    BY OccupiedByEntries, PTL
  <2> QED BY <1>3, <2>1 DEF EntriesOccupy
<1>4. ASSUME b \in W, ~(FullDirectory /\ ~Used(d, i)) PROVE FALSE
  <2>1. W # {} /\ d \in Directories /\ Used(d, i)' /\ b \in Footprint(At(d, i))'
    BY <1>2, <1>4 DEF Balanced
  <2>2. d \in Directories'
    BY <1>1, <2>1, WrittenDirectoriesStay
  <2> QED BY <1>3, <2>1, <2>2 DEF Used
<1>5. CASE b \in free
  <2>1. CASE FullDirectory
    BY <1>5, <2>1 DEF FullDirectory, KnownLeak
  <2>2. CASE ~FullDirectory
    <3>1. b \in W
      BY <1>2, <1>5, <2>2 DEF Balanced
    <3> QED BY <1>4, <2>2, <3>1
  <2> QED BY <2>1, <2>2
<1>6. CASE b \in Occupied
  <2>1. PICK x \in Entries : b \in Footprint(EntryOf(x))
    BY <1>6 DEF Occupied
  <2>2. PICK c, j : c = x[1] /\ j = x[2]
    OBVIOUS
  <2>3. Used(c, j) /\ x[1] \in Directories /\ EntryOf(x) = At(c, j) /\ c \in LinkedBlocks
    <3>1. x[1] \in Directories
      BY DEF Entries
    <3>2. c \in LinkedBlocks
      BY <2>2, <3>1, DirectoriesLinked DEF Sound
    <3> QED BY <2>2, <3>1, <3>2, EntriesUsed DEF EntryOf
  <2>4. CASE x[1] \notin Directories'
    BY <2>1, <2>4 DEF KnownLeak
  <2>5. CASE x[1] \in Directories' /\ ~(c = d /\ j = i)
    <3>1. Used(c, j)'
      BY <1>1, <2>3, <2>5, OthersStay
    <3>2. Footprint(At(c, j))' = Footprint(At(c, j))
      BY <1>2, <2>5, <3>1, OtherEntries DEF Sound
    <3> QED BY <1>3, <2>1, <2>2, <2>3, <2>5, <3>1, <3>2 DEF Used
  <2>6. CASE x[1] \in Directories' /\ c = d /\ j = i
    <3>1. Used(d, i) /\ b \in Footprint(At(d, i)) /\ d \in Directories'
      BY <2>1, <2>2, <2>3, <2>6
    <3>2. CASE Changed(d, i) /\ W = {} /\ gone = {}
      <4>1. Footprint(At(d, i))' = Footprint(At(d, i))
        BY <1>2, <3>2, ChangedFootprint
      <4>2. (i \in InUse(d))'
        BY <3>2 DEF Changed, Used
      <4> QED BY <1>3, <3>1, <4>1, <4>2
    <3>3. CASE Footprint(At(d, i)) \ gone \subseteq LastPointer(At(d, i))
      <4>1. b \notin gone
        <5>1. b \in gone => b \in W
          BY <1>2, <3>1 DEF Balanced
        <5> QED BY <1>4, <3>1, <5>1
      <4>2. b \in LastPointer(EntryOf(x))
        BY <2>3, <2>6, <3>1, <3>3, <4>1
      <4> QED BY <4>2 DEF LastPointer, KnownLeak
    <3> QED BY <1>2, <3>1, <3>2, <3>3 DEF Balanced
  <2> QED BY <2>2, <2>4, <2>5, <2>6
<1> QED BY <1>5, <1>6

------------------------------------------------------------------------------
\* The blocks hold what their kind says, the bitmap marks the root directory
\* used, and the calls that wait are about directories (disk/diskimagepd.go).
THEOREM TypeCorrect == Spec => []TypeOK
BY InvAlways, InvTypeOK, PTL

\* A block that a file or a directory occupies is marked used after every
\* command and between the steps of PRODOSDeleteDirectory: what
\* PRODOSGetFreeBlocks finds belongs to nothing, hidden from the catalog or not.
THEOREM MarkedUsed == Spec => []UsedMarked
BY InvAlways, InvSound, SoundMarked, PTL

\* PRODOSWriteFile and PRODOSCreateDirectory never give a block to two owners.
THEOREM NotCrossLinked == Spec => []NoCrossLink
BY InvAlways, InvSound, SoundApart, PTL

\* PRODOSReadFile returns what some PRODOSWriteFile stored, for every file on
\* the volume, whatever was written, replaced or removed since.
THEOREM FilesReadBack == Spec => []ReadsBack
BY InvAlways, InvSound, SoundReadsBack, PTL

\* As long as nobody types a name that SetName cuts, no directory names a file
\* twice: the entry that PRODOSGetNamedEntry looks for is found, shown or not.
THEOREM NamesUnique ==
  ASSUME LongNames = {}
  PROVE  Spec => []UniqueNames
<1>1. Init => Inv /\ NamesApart
  BY InvInit
<1>2. Inv /\ NamesApart /\ [Next]_vars => Inv' /\ NamesApart'
  BY InvNext DEF Kept
<1>3. Inv /\ NamesApart => UniqueNames
  BY ApartUnique
<1> QED BY <1>1, <1>2, <1>3, PTL DEF Spec

(* A ProDOS volume is a file store, as far as the root directory goes: every *)
(* command of the program puts, drops, locks or renames the one file it      *)
(* names there, asks for its lock before it goes, and leaves every other     *)
(* file as it was; what is done in subdirectories, in a removal that stops   *)
(* half-way, or in a block that a full directory took, is not seen in it.    *)
THEOREM VolumeIsFileStore ==
  ASSUME LongNames = {}
  PROVE  Spec => ImplementsFileStore
<1>1. Init /\ Inv /\ NamesApart => Store!Init
  <2> SUFFICES ASSUME Init, Inv, NamesApart PROVE Store!Init
    OBVIOUS
  <2>1. RootFound
    BY InvSound, SoundRootFound DEF NamesApart, DirNamesApart
  <2>2. \A j : j \notin InUse(Root)
    <3>1. blk[Root].entries = [j \in Slots(Root) |-> Never]
      BY VolumeAssumption DEF Init
    <3> QED BY <3>1 DEF InUse, At, IsEntry
  <2> QED BY <2>1, <2>2 DEF RootFound, Store!Init
<1>2. Inv /\ NamesApart /\ [Next]_vars => [Store!Next]_FilesInRoot
  <2> SUFFICES ASSUME Inv, NamesApart, [Next]_vars
               PROVE  Store!Next \/ UNCHANGED FilesInRoot
    OBVIOUS
  <2>1. Inv' /\ NamesApart' /\ Effect
    BY InvNext DEF Kept
  <2>2. Sound /\ Sound'
    BY <2>1, InvSound, PTL
  <2>3. DirNamesApart /\ DirNamesApart'
    BY <2>1 DEF NamesApart, DirNamesApart
  <2> QED BY <2>1, <2>2, <2>3, EffectIsStoreStep
<1>3. Init => Inv /\ NamesApart
  BY InvInit
<1>4. Inv /\ NamesApart /\ [Next]_vars => Inv' /\ NamesApart'
  BY InvNext DEF Kept
<1> QED BY <1>1, <1>2, <1>3, <1>4, PTL DEF Spec, ImplementsFileStore, Store!Spec
(* A locked file that the catalogs lead to is never removed or written, not *)
(* by its own name, nor with a directory on the path to it: the calls of    *)
(* PRODOSDeleteDirectory stop when one of them meets it.                    *)
THEOREM LockedFilesStay == Spec => LockedStays
<1>1. ASSUME Inv, [Next]_vars, NEW x \in Entries, ~IsDir(EntryOf(x)), EntryOf(x).locked,
             x[1] \in ShownDirectories, x[2] \in Shown(x[1])
      PROVE  /\ x \in Entries'
             /\ ~IsDir(EntryOf(x)') /\ EntryOf(x)'.key = EntryOf(x).key
             /\ Payload(EntryOf(x))' = Payload(EntryOf(x))
  <2>1. Inv' /\ Effect
    BY <1>1, InvNext DEF Kept
  <2>2. Sound /\ Sound'
    BY <1>1, <2>1, InvSound, PTL
  <2>3. Used(x[1], x[2]) /\ x = <<x[1], x[2]>>
    BY <2>2, EntriesUsed
  <2>4. x[1] \in LinkedBlocks /\ x[1] \in Directories'
    BY <1>1, <2>1, <2>2, ShownDirectoriesStay
  <2>5. ~IsDir(At(x[1], x[2])) /\ At(x[1], x[2]).locked
    BY <1>1 DEF EntryOf
  <2>6. /\ (x[2] \in InUse(x[1]))' /\ ~IsDir(At(x[1], x[2]))'
        /\ At(x[1], x[2])'.key = At(x[1], x[2]).key
        /\ Payload(At(x[1], x[2]))' = Payload(At(x[1], x[2]))
    BY <2>1, <2>2, <2>3, <2>4, <2>5, LockedEntryStays
  <2>7. x \in Entries'
    BY <2>3, <2>4, <2>6 DEF Entries
  <2> QED BY <2>6, <2>7 DEF EntryOf
<1>2. Inv /\ [Next]_vars =>
        [\A x \in Entries :
          (/\ ~IsDir(EntryOf(x)) /\ EntryOf(x).locked
           /\ x[1] \in ShownDirectories /\ x[2] \in Shown(x[1]))
            => /\ x \in Entries'
               /\ ~IsDir(EntryOf(x)') /\ EntryOf(x)'.key = EntryOf(x).key
               /\ Payload(EntryOf(x))' = Payload(EntryOf(x))]_vars
  BY <1>1
<1> QED BY <1>2, InvAlways, PTL DEF Spec, LockedStays

(* Each block that was there is free or in a file or a directory of the     *)
(* volume, but for those that a full directory takes, the last one of a    *)
(* full index, and what the catalog did not show of a directory that is    *)
(* removed: no other command, and no step of PRODOSDeleteDirectory, loses  *)
(* one.                                                                    *)
THEOREM LeaksAreKnown == Spec => OnlyKnownLeaks
<1>1. ASSUME Inv, [Next]_vars, NEW b \in Lost' \ Lost PROVE KnownLeak(b)
  <2>1. Inv' /\ Effect
    BY <1>1, InvNext DEF Kept
  <2>2. Sound /\ Sound'
    BY <1>1, <2>1, InvSound, PTL
  <2>3. b \in free \cup Occupied /\ ~(b \in free') /\ ~(b \in Occupied')
    BY DEF Lost
  <2> QED BY <2>1, <2>2, <2>3, LeakIsKnown
<1>2. Inv /\ [Next]_vars => [\A b \in Lost' \ Lost : KnownLeak(b)]_vars
  BY <1>1
<1>3. Spec => [][\A b \in Lost' \ Lost : KnownLeak(b)]_vars
  BY <1>2, InvAlways, PTL DEF Spec
<1> QED BY <1>3 DEF OnlyKnownLeaks, KnownLeak
==============================================================================
