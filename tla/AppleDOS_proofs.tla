---------------------------- MODULE AppleDOS_proofs ----------------------------
(***************************************************************************)
(* The DOS 3.3 volume is safe for every volume size, catalog size, set of  *)
(* names and files of any length: the bitmap, the catalog and the T/S      *)
(* lists agree after every command.                                        *)
(***************************************************************************)
EXTENDS AppleDOSFiles, NumberLemmas

------------------------------------------------------------------------------
(***************************************************************************)
(* What the search for free sectors returns, and where a chain of T/S      *)
(* lists leads.  Both stand for an induction over the code's loops; it is  *)
(* carried out here as the least counterexample of a set of numbers.       *)
(***************************************************************************)

(* The search finds as many sectors as there are candidates, each of them  *)
(* once: two positions never name the same sector.                         *)
LEMMA NeededSectors ==
  ASSUME NEW f \in SUBSET Sector, NEW j \in 1 .. Cardinality(Candidates(f))
  PROVE  /\ Needed(f, j) \in Candidates(f)
         /\ Position(f, Needed(f, j)) = j
<1>1. Candidates(f) \in SUBSET Nat /\ IsFiniteSet(Candidates(f))
  <2>1. Candidates(f) \in SUBSET (0 .. NumSectors - 1)
    BY DEF Candidates, Sector
  <2>2. IsFiniteSet(0 .. NumSectors - 1)
    BY VolumeAssumption, FS_Interval
  <2>3. 0 .. NumSectors - 1 \subseteq Nat
    BY VolumeAssumption
  <2>4. Candidates(f) \in SUBSET Nat
    BY <2>1, <2>3
  <2> QED BY <2>1, <2>2, <2>4, FS_Subset
<1>2. \E s \in Candidates(f) : Position(f, s) = j
  BY <1>1, RankExists DEF Position
<1> QED BY <1>2 DEF Needed
------------------------------------------------------------------------------
(* A chain of next pointers can be walked for any number of hops.          *)
LEMMA WalkExists ==
  ASSUME NEW next \in [Sector -> Sector], NEW start \in Sector, NEW n \in Nat
  PROVE  \E w \in [1 .. n -> Sector] :
           \A k \in 1 .. n : w[k] = IF k = 1 THEN start ELSE next[w[k - 1]]
<1> DEFINE Walk(m, w) == /\ w \in [1 .. m -> Sector]
                         /\ \A k \in 1 .. m : w[k] = IF k = 1 THEN start ELSE next[w[k - 1]]
           Bad == {m \in Nat : ~ \E w : Walk(m, w)}
<1>1. Bad = {}
  <2> SUFFICES ASSUME Bad # {} PROVE FALSE
    OBVIOUS
  <2>1. Bad \in SUBSET Nat
    OBVIOUS
  <2>2. PICK m \in Bad : \A x \in Bad : m <= x
    <3> HIDE DEF Bad
    <3> QED BY <2>1, LeastElement
  <2>3. m \in Nat /\ ~ \E w : Walk(m, w)
    OBVIOUS
  <2>4. m # 0
    <3>1. Walk(0, [k \in 1 .. 0 |-> start])
      OBVIOUS
    <3> QED BY <2>3, <3>1
  <2>5. PICK v : Walk(m - 1, v)
    <3>1. m - 1 \in Nat
      BY <2>3, <2>4
    <3>2. m - 1 \notin Bad
      <4> HIDE DEF Bad
      <4> QED BY <2>2, <2>3
    <3> QED BY <3>1, <3>2
  <2> DEFINE w == [k \in 1 .. m |-> IF k = 1 THEN start
                                    ELSE IF k = m THEN next[v[m - 1]] ELSE v[k]]
  <2>6. w \in [1 .. m -> Sector]
    BY <2>3, <2>4, <2>5
  <2>7. \A k \in 1 .. m : w[k] = IF k = 1 THEN start ELSE next[w[k - 1]]
    <3> TAKE k \in 1 .. m
    <3>1. CASE k = 1
      BY <3>1
    <3>2. CASE k # 1
      <4>1. k - 1 \in 1 .. m - 1 /\ k - 1 # m
        BY <2>3, <3>2
      <4>2. w[k - 1] = v[k - 1]
        BY <2>3, <2>5, <4>1
      <4>3. w[k] = next[v[k - 1]]
        BY <2>3, <2>5, <3>2
      <4> QED BY <3>2, <4>2, <4>3
    <3> QED BY <3>1, <3>2
  <2> QED BY <2>3, <2>6, <2>7
<1> QED BY <1>1

(* Chain is that walk.                                                     *)
LEMMA ChainWalks ==
  ASSUME NEW next \in [Sector -> Sector], NEW start \in Sector
  PROVE  \A k \in 1 .. NumSectors :
           Chain(next, start)[k] =
             IF k = 1 THEN start ELSE next[Chain(next, start)[k - 1]]
<1>1. PICK w \in [1 .. NumSectors -> Sector] :
        \A k \in 1 .. NumSectors : w[k] = IF k = 1 THEN start ELSE next[w[k - 1]]
  BY VolumeAssumption, WalkExists
<1> DEFINE Body(g) == [k \in 1 .. NumSectors |-> IF k = 1 THEN start ELSE next[g[k - 1]]]
<1>2. w = Body(w)
  BY <1>1
<1>3. Chain(next, start) = Body(Chain(next, start))
  BY <1>2 DEF Chain
<1> DEFINE c == Chain(next, start)
<1>4. c = Body(c)
  BY <1>3
<1> HIDE DEF c
<1>5. \A k \in 1 .. NumSectors : c[k] = IF k = 1 THEN start ELSE next[c[k - 1]]
  BY <1>4
<1> QED BY <1>5 DEF c

(* A chain stays in every set that has its start and its successors.       *)
LEMMA ChainInside ==
  ASSUME NEW next \in [Sector -> Sector], NEW start \in Sector, NEW C,
         start \in C, \A s \in C \cap Sector : next[s] \in C,
         NEW k \in 1 .. NumSectors
  PROVE  Chain(next, start)[k] \in C \cap Sector
<1> DEFINE c == Chain(next, start)
           Out == {i \in 1 .. NumSectors : c[i] \notin C \cap Sector}
<1>1. \A i \in 1 .. NumSectors : c[i] = IF i = 1 THEN start ELSE next[c[i - 1]]
  BY ChainWalks
<1> HIDE DEF c
<1>2. Out = {}
  <2> SUFFICES ASSUME Out # {} PROVE FALSE
    OBVIOUS
  <2>1. Out \in SUBSET Nat
    OBVIOUS
  <2>2. PICK m \in Out : \A x \in Out : m <= x
    <3> HIDE DEF Out
    <3> QED BY <2>1, LeastElement
  <2>3. m \in 1 .. NumSectors /\ c[m] \notin C \cap Sector
    OBVIOUS
  <2>4. m # 1
    BY <1>1, <2>3
  <2>5. m - 1 \in 1 .. NumSectors
    BY <2>3, <2>4, VolumeAssumption
  <2>6. m - 1 \notin Out
    <3> HIDE DEF Out
    <3> QED BY <2>2, <2>3
  <2>7. c[m - 1] \in C \cap Sector
    BY <2>5, <2>6
  <2>8. c[m] = next[c[m - 1]]
    BY <1>1, <2>3, <2>4
  <2> QED BY <2>3, <2>7, <2>8
<1> QED BY <1>2 DEF c

(* A chain is the only walk from its start.                                *)
LEMMA ChainUnique ==
  ASSUME NEW next \in [Sector -> Sector], NEW start \in Sector, NEW w,
         \A k \in 1 .. NumSectors : w[k] = IF k = 1 THEN start ELSE next[w[k - 1]],
         NEW k \in 1 .. NumSectors
  PROVE  Chain(next, start)[k] = w[k]
<1> DEFINE c == Chain(next, start)
           Off == {i \in 1 .. NumSectors : c[i] # w[i]}
<1>1. \A i \in 1 .. NumSectors : c[i] = IF i = 1 THEN start ELSE next[c[i - 1]]
  BY ChainWalks
<1> HIDE DEF c
<1>2. Off = {}
  <2> SUFFICES ASSUME Off # {} PROVE FALSE
    OBVIOUS
  <2>1. Off \in SUBSET Nat
    OBVIOUS
  <2>2. PICK m \in Off : \A x \in Off : m <= x
    <3> HIDE DEF Off
    <3> QED BY <2>1, LeastElement
  <2>3. m \in 1 .. NumSectors /\ c[m] # w[m]
    OBVIOUS
  <2>4. m # 1
    BY <1>1, <2>3
  <2>5. m - 1 \in 1 .. NumSectors
    BY <2>3, <2>4, VolumeAssumption
  <2>6. m - 1 \notin Off
    <3> HIDE DEF Off
    <3> QED BY <2>2, <2>3
  <2>7. c[m - 1] = w[m - 1]
    BY <2>5, <2>6
  <2>8. c[m] = w[m]
    BY <1>1, <2>3, <2>4, <2>7
  <2> QED BY <2>3, <2>8
<1> QED BY <1>2 DEF c

(* Two volumes that agree on the lists of a chain have the same chain.     *)
LEMMA ChainFrame ==
  ASSUME NEW next \in [Sector -> Sector], NEW other \in [Sector -> Sector],
         NEW start \in Sector,
         \A k \in 1 .. NumSectors :
           other[Chain(next, start)[k]] = next[Chain(next, start)[k]],
         NEW k \in 1 .. NumSectors
  PROVE  Chain(other, start)[k] = Chain(next, start)[k]
<1> DEFINE c == Chain(next, start)
<1>1. \A i \in 1 .. NumSectors : c[i] = IF i = 1 THEN start ELSE next[c[i - 1]]
  BY ChainWalks
<1>2. \A i \in 1 .. NumSectors : other[c[i]] = next[c[i]]
  OBVIOUS
<1> HIDE DEF c
<1>3. ASSUME NEW i \in 1 .. NumSectors
      PROVE  c[i] = IF i = 1 THEN start ELSE other[c[i - 1]]
  <2>1. CASE i = 1
    BY <1>1, <2>1
  <2>2. CASE i # 1
    <3>1. i - 1 \in 1 .. NumSectors
      BY <2>2, VolumeAssumption
    <3> QED BY <1>1, <1>2, <2>2, <3>1
  <2> QED BY <2>1, <2>2
<1>4. \A i \in 1 .. NumSectors : c[i] = IF i = 1 THEN start ELSE other[c[i - 1]]
  BY <1>3
<1>5. Chain(other, start)[k] = c[k]
  BY <1>4, ChainUnique
<1> QED BY <1>5 DEF c

------------------------------------------------------------------------------
(* The blocks of a payload, and the parts of them that are written and     *)
(* linked.                                                                 *)
LEMMA BlockCounts ==
  ASSUME NEW p \in Payloads
  PROVE  /\ DataBlocks(p) \in Nat \ {0}
         /\ ListBlocks(p) \in Nat \ {0}
         /\ TotalBlocks(p) = ListBlocks(p) + DataBlocks(p)
         /\ Chunks(p) \in 1 .. DataBlocks(p)
         /\ Linked(p) \in 1 .. DataBlocks(p)
<1>1. Size[p] \in Nat \ {0} /\ SectorBytes \in Nat \ {0} /\ MaxPairs \in Nat \ {0}
  BY PayloadAssumption
<1>2. \A a \in Nat, b \in Nat \ {0} :
        /\ a \div b \in Nat
        /\ (a + b - 1) \div b <= (a \div b) + 1
        /\ a # 0 => (a + b - 1) \div b \in Nat \ {0}
  OBVIOUS
<1>3. DataBlocks(p) \in Nat \ {0}
  BY <1>1, <1>2 DEF DataBlocks
<1>4. ListBlocks(p) \in Nat \ {0}
  BY <1>1, <1>2, <1>3 DEF ListBlocks
<1>5. Chunks(p) \in 1 .. DataBlocks(p)
  <2>1. Chunks(p) <= DataBlocks(p)
    BY <1>1, <1>2 DEF Chunks, DataBlocks
  <2>2. Chunks(p) \in Nat \ {0}
    BY <1>1, <1>2 DEF Chunks
  <2> QED BY <1>3, <2>1, <2>2
<1>6. Linked(p) \in 1 .. DataBlocks(p)
  BY <1>1, <1>3 DEF Linked
<1> QED BY <1>3, <1>4, <1>5, <1>6 DEF TotalBlocks

(* The blocks of a file are distinct candidates.                           *)
LEMMA BlocksAreCandidates ==
  ASSUME NEW f \in SUBSET Sector, NEW p \in Payloads, HasRoom(f, p)
  PROVE  /\ TotalBlocks(p) <= NumSectors
         /\ \A j \in 1 .. TotalBlocks(p) : Needed(f, j) \in Candidates(f)
         /\ \A j, k \in 1 .. TotalBlocks(p) : Needed(f, j) = Needed(f, k) => j = k
<1>1. Cardinality(Candidates(f)) \in Nat /\ Cardinality(Candidates(f)) <= NumSectors
  <2>1. Candidates(f) \in SUBSET (0 .. NumSectors - 1)
    BY DEF Candidates, Sector
  <2>2. IsFiniteSet(0 .. NumSectors - 1) /\ Cardinality(0 .. NumSectors - 1) = NumSectors
    BY VolumeAssumption, FS_Interval
  <2>3. IsFiniteSet(Candidates(f)) /\ Cardinality(Candidates(f)) <= NumSectors
    BY <2>1, <2>2, FS_Subset
  <2> QED BY <2>3, FS_CardinalityType
<1>2. TotalBlocks(p) \in Nat /\ TotalBlocks(p) <= Cardinality(Candidates(f))
  BY BlockCounts DEF HasRoom
<1>3. \A j \in 1 .. TotalBlocks(p) : j \in 1 .. Cardinality(Candidates(f))
  BY <1>1, <1>2
<1>4. \A j \in 1 .. TotalBlocks(p) :
        Needed(f, j) \in Candidates(f) /\ Position(f, Needed(f, j)) = j
  BY <1>3, NeededSectors
<1>5. TotalBlocks(p) <= NumSectors
  BY <1>1, <1>2, VolumeAssumption
<1> QED BY <1>4, <1>5

------------------------------------------------------------------------------
(* What a lookup returns.                                                  *)
LEMMA FirstOf ==
  ASSUME NEW S \in SUBSET Slot
  PROVE  /\ First(S) \in S \cup {NoSlot}
         /\ First(S) = NoSlot <=> S = {}
<1>1. S \in SUBSET Nat /\ NoSlot \notin S
  BY VolumeAssumption DEF Slot, NoSlot
<1>2. CASE S = {}
  BY <1>2 DEF First
<1>3. CASE S # {}
  <2>1. \E i \in S : \A j \in S : i <= j
    BY <1>1, <1>3, LeastElement
  <2>2. First(S) \in S
    BY <1>3, <2>1 DEF First
  <2> QED BY <1>1, <1>3, <2>2
<1> QED BY <1>2, <1>3

LEMMA NamedEntry ==
  ASSUME NEW arg, NamedCatalogEntry(arg) # NoSlot
  PROVE  /\ NamedCatalogEntry(arg) \in Slot
         /\ InUse(NamedCatalogEntry(arg))
<1> DEFINE S == {i \in Slot : InUse(i) /\ cat[i].name = arg}
<1>1. First(S) \in S \cup {NoSlot}
  BY FirstOf
<1> QED BY <1>1 DEF NamedCatalogEntry

LEMMA FreeEntry ==
  ASSUME NextFreeCatalogEntry # NoSlot
  PROVE  /\ NextFreeCatalogEntry \in Slot
         /\ ~InUse(NextFreeCatalogEntry)
<1> DEFINE S == {i \in Slot : ~InUse(i)}
<1>1. First(S) \in S \cup {NoSlot}
  BY FirstOf
<1> QED BY <1>1 DEF NextFreeCatalogEntry

LEMMA StoredName ==
  ASSUME NEW arg \in Typed
  PROVE  Stored(arg) \in Names
BY NameAssumption DEF Typed, Stored

------------------------------------------------------------------------------
(* The pointers of a well-typed volume name sectors.                       *)
LEMMA NextOfType ==
  ASSUME sec \in [Sector -> Content]
  PROVE  NextOf \in [Sector -> Sector]
<1>1. Null \in Sector
  BY VolumeAssumption DEF Null, Sector
<1>2. ASSUME NEW s \in Sector, sec[s].tag = "list"
      PROVE  sec[s].next \in Sector
  BY <1>2 DEF Content
<1> QED BY <1>1, <1>2 DEF NextOf

LEMMA PairSetType ==
  ASSUME sec \in [Sector -> Content], NEW s \in Sector
  PROVE  PairSet(s) \subseteq Sector \ {Null}
<1>1. CASE sec[s].tag = "list"
  <2>1. sec[s].pairs \in Seq(Sector)
    BY <1>1 DEF Content
  <2>2. ASSUME NEW i \in DOMAIN sec[s].pairs,
               \A h \in 1 .. i : sec[s].pairs[h] # Null
        PROVE  sec[s].pairs[i] \in Sector \ {Null}
    BY <2>1, <2>2
  <2> QED BY <1>1, <2>2 DEF PairSet
<1>2. CASE sec[s].tag # "list"
  BY <1>2 DEF PairSet
<1> QED BY <1>1, <1>2

LEMMA ListSectorsType ==
  ASSUME sec \in [Sector -> Content], NEW start \in Sector
  PROVE  ListSectors(start) \subseteq Sector \ {Null}
<1>1. NextOf \in [Sector -> Sector]
  BY NextOfType
<1>2. \A s \in Sector \cap Sector : NextOf[s] \in Sector
  BY <1>1
<1>3. \A k \in 1 .. NumSectors : Chain(NextOf, start)[k] \in Sector
  BY <1>1, <1>2, ChainInside
<1> QED BY <1>3 DEF ListSectors

LEMMA FootprintType ==
  ASSUME TypeOK, NEW i \in Slot, InUse(i)
  PROVE  /\ cat[i] \in Entry
         /\ cat[i].start \in Sector \ {Null}
         /\ Footprint(i) \subseteq Sector \ {Null}
<1>1. cat[i] \in Entry /\ cat[i].start \in Sector \ {Null}
  BY DEF TypeOK, InUse, Entry
<1>2. ListSectors(cat[i].start) \subseteq Sector \ {Null}
  BY <1>1, ListSectorsType DEF TypeOK
<1>3. \A s \in ListSectors(cat[i].start) : PairSet(s) \subseteq Sector \ {Null}
  BY <1>2, PairSetType DEF TypeOK
<1>4. DataSectors(cat[i].start) \subseteq Sector \ {Null}
  BY <1>3 DEF DataSectors
<1> QED BY <1>1, <1>2, <1>4 DEF Footprint

(* A file whose lists are not written keeps its chain and its footprint.   *)
LEMMA ChainKept ==
  ASSUME TypeOK, sec' \in [Sector -> Content], NEW i \in Slot, InUse(i),
         \A s \in Footprint(i) : sec'[s] = sec[s]
  PROVE  /\ NextOf \in [Sector -> Sector] /\ NextOf' \in [Sector -> Sector]
         /\ \A k \in 1 .. NumSectors :
              /\ Chain(NextOf, cat[i].start)[k] \in Sector
              /\ Chain(NextOf', cat[i].start)[k] = Chain(NextOf, cat[i].start)[k]
<1> DEFINE start == cat[i].start
<1>1. start \in Sector
  BY FootprintType
<1>2. NextOf \in [Sector -> Sector] /\ NextOf' \in [Sector -> Sector]
  <2>1. NextOf \in [Sector -> Sector]
    BY NextOfType DEF TypeOK
  <2>2. (sec \in [Sector -> Content] => NextOf \in [Sector -> Sector])'
    BY NextOfType, PTL
  <2> QED BY <2>1, <2>2
<1>3. \A k \in 1 .. NumSectors : Chain(NextOf, start)[k] \in Sector
  BY <1>1, <1>2, ChainInside
<1>4. \A k \in 1 .. NumSectors :
        NextOf'[Chain(NextOf, start)[k]] = NextOf[Chain(NextOf, start)[k]]
  <2> TAKE k \in 1 .. NumSectors
  <2> DEFINE s == Chain(NextOf, start)[k]
  <2>1. s \in Sector
    BY <1>3
  <2>2. s # Null => s \in Footprint(i)
    BY DEF Footprint, ListSectors
  <2>3. s # Null => sec'[s] = sec[s]
    BY <2>2
  <2> HIDE DEF s
  <2>4. NextOf'[s] = NextOf[s]
    BY <2>1, <2>3 DEF NextOf
  <2> QED BY <2>4 DEF s
<1>5. \A k \in 1 .. NumSectors : Chain(NextOf', start)[k] = Chain(NextOf, start)[k]
  BY <1>1, <1>2, <1>4, ChainFrame
<1> QED BY <1>2, <1>3, <1>5

LEMMA FootprintFrame ==
  ASSUME TypeOK, sec' \in [Sector -> Content], NEW i \in Slot, InUse(i),
         cat'[i].start = cat[i].start,
         \A s \in Footprint(i) : sec'[s] = sec[s]
  PROVE  Footprint(i)' = Footprint(i)
<1>1. \A k \in 1 .. NumSectors :
        Chain(NextOf', cat[i].start)[k] = Chain(NextOf, cat[i].start)[k]
  BY ChainKept
<1>2. ListSectors(cat[i].start)' = ListSectors(cat[i].start)
  BY <1>1 DEF ListSectors
<1>3. \A s \in ListSectors(cat[i].start) : PairSet(s)' = PairSet(s)
  BY DEF PairSet, Footprint
<1>4. DataSectors(cat[i].start)' = DataSectors(cat[i].start)
  BY <1>2, <1>3 DEF DataSectors
<1> QED BY <1>2, <1>4 DEF Footprint
------------------------------------------------------------------------------
(* The blocks of a file that is stored, in terms of the free map.          *)
LEMMA BlocksOfFile ==
  ASSUME NEW f \in SUBSET (Sector \ {Null}), NEW p \in Payloads, HasRoom(f, p)
  PROVE  /\ \A j \in 1 .. ListBlocks(p) : ListAt(f, p, j) \in f
         /\ \A j \in 1 .. DataBlocks(p) : DataAt(f, p, j) \in f
         /\ \A j, k \in 1 .. ListBlocks(p) :
              ListAt(f, p, j) = ListAt(f, p, k) => j = k
         /\ \A j, k \in 1 .. DataBlocks(p) :
              DataAt(f, p, j) = DataAt(f, p, k) => j = k
         /\ \A j \in 1 .. ListBlocks(p), k \in 1 .. DataBlocks(p) :
              ListAt(f, p, j) # DataAt(f, p, k)
         /\ ListBlocks(p) <= NumSectors
<1>1. f \in SUBSET Sector
  OBVIOUS
<1> DEFINE n == TotalBlocks(p)
<1>2. /\ \A j \in 1 .. n : Needed(f, j) \in f
      /\ \A j, k \in 1 .. n : Needed(f, j) = Needed(f, k) => j = k
      /\ n <= NumSectors
  BY <1>1, BlocksAreCandidates DEF Candidates
<1>3. /\ n = ListBlocks(p) + DataBlocks(p)
      /\ ListBlocks(p) \in Nat \ {0} /\ DataBlocks(p) \in Nat \ {0}
  BY BlockCounts
<1> HIDE DEF n
<1>4. \A j \in 1 .. ListBlocks(p) : j \in 1 .. n
  BY <1>3
<1>5. \A j \in 1 .. DataBlocks(p) : ListBlocks(p) + j \in 1 .. n
  BY <1>3
<1>6. \A j \in 1 .. ListBlocks(p), k \in 1 .. DataBlocks(p) : j # ListBlocks(p) + k
  BY <1>3
<1>7. \A j, k \in 1 .. DataBlocks(p) : ListBlocks(p) + j = ListBlocks(p) + k => j = k
  BY <1>3
<1>8. ListBlocks(p) <= NumSectors
  BY <1>2, <1>3, VolumeAssumption
<1> QED BY <1>2, <1>4, <1>5, <1>6, <1>7, <1>8 DEF ListAt, DataAt

(* What is in a list sector that is stored.                                *)
LEMMA ListContentType ==
  ASSUME NEW f \in SUBSET (Sector \ {Null}), NEW p \in Payloads, HasRoom(f, p),
         NEW j \in 1 .. ListBlocks(p)
  PROVE  ListContent(f, p, j) \in Content
<1>1. Null \in Sector
  BY VolumeAssumption DEF Null, Sector
<1>2. (IF j < ListBlocks(p) THEN ListAt(f, p, j + 1) ELSE Null) \in Sector
  <2>1. CASE j < ListBlocks(p)
    <3>1. j + 1 \in 1 .. ListBlocks(p)
      BY <2>1, BlockCounts
    <3> QED BY <2>1, <3>1, BlocksOfFile
  <2> QED BY <1>1, <2>1
<1>3. [i \in 1 .. Linked(p) |-> DataAt(f, p, i)] \in Seq(Sector)
  <2>1. Linked(p) \in Nat /\ \A i \in 1 .. Linked(p) : i \in 1 .. DataBlocks(p)
    BY BlockCounts
  <2>2. \A i \in 1 .. Linked(p) : DataAt(f, p, i) \in Sector
    BY <2>1, BlocksOfFile
  <2> QED BY <2>1, <2>2
<1> QED BY <1>2, <1>3 DEF ListContent, Content

(* The image after a file is stored: well typed, changed in free sectors   *)
(* only, and with each list and each chunk of the file where its block is. *)
LEMMA StoredSectors ==
  ASSUME sec \in [Sector -> Content],
         NEW f \in SUBSET (Sector \ {Null}), NEW p \in Payloads, HasRoom(f, p)
  PROVE  /\ SectorsWith(f, p) \in [Sector -> Content]
         /\ \A s \in Sector \ f : SectorsWith(f, p)[s] = sec[s]
         /\ \A j \in 1 .. ListBlocks(p) :
              SectorsWith(f, p)[ListAt(f, p, j)] = ListContent(f, p, j)
         /\ \A j \in 1 .. Chunks(p) :
              SectorsWith(f, p)[DataAt(f, p, j)] = [tag |-> "data", payload |-> p, chunk |-> j]
<1> DEFINE IsList(s) == \E j \in 1 .. ListBlocks(p) : s = ListAt(f, p, j)
           IsData(s) == \E j \in 1 .. Chunks(p) : s = DataAt(f, p, j)
           listAt(s) == CHOOSE j \in 1 .. ListBlocks(p) : s = ListAt(f, p, j)
           dataAt(s) == CHOOSE j \in 1 .. Chunks(p) : s = DataAt(f, p, j)
           image == SectorsWith(f, p)
<1>1. \A s \in Sector :
        image[s] = IF IsList(s) THEN ListContent(f, p, listAt(s))
                   ELSE IF IsData(s)
                   THEN [tag |-> "data", payload |-> p, chunk |-> dataAt(s)]
                   ELSE sec[s]
  BY DEF SectorsWith
<1>2. DOMAIN image = Sector /\ image = [s \in Sector |-> image[s]]
  BY DEF SectorsWith
<1>3. \A s : IsList(s) => listAt(s) \in 1 .. ListBlocks(p) /\ s = ListAt(f, p, listAt(s))
  OBVIOUS
<1>4. \A s : IsData(s) => dataAt(s) \in 1 .. Chunks(p) /\ s = DataAt(f, p, dataAt(s))
  OBVIOUS
<1>5. Chunks(p) \in 1 .. DataBlocks(p) /\ DataBlocks(p) \in Nat
  BY BlockCounts
<1>6. \A s \in Sector : IsList(s) => ListContent(f, p, listAt(s)) \in Content
  BY <1>3, ListContentType
<1>7. \A s \in Sector :
        IsData(s) => [tag |-> "data", payload |-> p, chunk |-> dataAt(s)] \in Content
  <2> TAKE s \in Sector
  <2> HAVE IsData(s)
  <2>1. dataAt(s) \in Nat \ {0}
    <3>1. dataAt(s) \in 1 .. Chunks(p)
      BY <1>4
    <3> HIDE DEF dataAt
    <3> QED BY <1>5, <3>1
  <2> HIDE DEF dataAt
  <2> QED BY <2>1 DEF Content
<1>8. \A s \in Sector \ f : ~IsList(s) /\ ~IsData(s)
  <2>1. \A j \in 1 .. Chunks(p) : j \in 1 .. DataBlocks(p)
    BY <1>5
  <2>2. \A j \in 1 .. ListBlocks(p) : ListAt(f, p, j) \in f
    BY BlocksOfFile
  <2>3. \A j \in 1 .. Chunks(p) : DataAt(f, p, j) \in f
    BY <2>1, BlocksOfFile
  <2> QED BY <2>2, <2>3
<1> HIDE DEF image, listAt, dataAt
<1>13. \A j \in 1 .. Chunks(p) :
         image[DataAt(f, p, j)] = [tag |-> "data", payload |-> p, chunk |-> j]
  <2> TAKE j \in 1 .. Chunks(p)
  <2>1. PICK s : s = DataAt(f, p, j)
    OBVIOUS
  <2>2. \A k \in 1 .. Chunks(p) : k \in 1 .. DataBlocks(p)
    BY <1>5
  <2>3. s \in Sector /\ IsData(s) /\ ~IsList(s)
    BY <2>1, <2>2, BlocksOfFile
  <2>4. dataAt(s) = j
    <3>1. dataAt(s) \in 1 .. Chunks(p) /\ s = DataAt(f, p, dataAt(s))
      BY <1>4, <2>3
    <3> QED BY <2>1, <2>2, <3>1, BlocksOfFile
  <2> HIDE DEF IsData, IsList
  <2> QED BY <1>1, <2>1, <2>3, <2>4
<1> HIDE DEF IsData
<1>9. \A j \in 1 .. ListBlocks(p) : image[ListAt(f, p, j)] = ListContent(f, p, j)
  <2> TAKE j \in 1 .. ListBlocks(p)
  <2>1. ListAt(f, p, j) \in Sector /\ IsList(ListAt(f, p, j))
    BY BlocksOfFile
  <2>2. listAt(ListAt(f, p, j)) = j
    BY <1>3, <2>1, BlocksOfFile
  <2> QED BY <1>1, <2>1, <2>2
<1> HIDE DEF IsList
<1>10. \A s \in Sector : image[s] \in Content
  BY <1>1, <1>6, <1>7
<1>11. image \in [Sector -> Content]
  BY <1>2, <1>10
<1>12. \A s \in Sector \ f : image[s] = sec[s]
  BY <1>1, <1>8
<1> QED BY <1>9, <1>11, <1>12, <1>13 DEF image
(* The lists and the linked data of the stored file are what the bitmap    *)
(* loses: the chain visits every list block and nothing else.              *)
LEMMA StoredFootprint ==
  ASSUME TypeOK,
         NEW f \in SUBSET (Sector \ {Null}), NEW p \in Payloads, HasRoom(f, p),
         sec' = SectorsWith(f, p),
         NEW start, start = ListAt(f, p, 1)
  PROVE  /\ start \in Sector \ {Null}
         /\ ListSectors(start)' = ListSet(f, p)
         /\ DataSectors(start)' = LinkedSet(f, p)
<1>1. /\ sec' \in [Sector -> Content]
      /\ \A j \in 1 .. ListBlocks(p) : sec'[ListAt(f, p, j)] = ListContent(f, p, j)
  BY StoredSectors DEF TypeOK
<1>2. NextOf' \in [Sector -> Sector]
  <2>1. (sec \in [Sector -> Content] => NextOf \in [Sector -> Sector])'
    BY NextOfType, PTL
  <2> QED BY <1>1, <2>1
<1>3. /\ \A j \in 1 .. ListBlocks(p) : ListAt(f, p, j) \in Sector \ {Null}
      /\ \A j \in 1 .. DataBlocks(p) : DataAt(f, p, j) \in Sector \ {Null}
      /\ ListBlocks(p) \in 1 .. NumSectors
  BY BlocksOfFile, BlockCounts, VolumeAssumption
<1>4. start \in Sector \ {Null}
  BY <1>3
<1>5. NextOf'[Null] = Null /\ Null \in Sector
  BY VolumeAssumption DEF NextOf, Null, Sector
<1>6. \A j \in 1 .. ListBlocks(p) :
        NextOf'[ListAt(f, p, j)] =
          IF j < ListBlocks(p) THEN ListAt(f, p, j + 1) ELSE Null
  <2> TAKE j \in 1 .. ListBlocks(p)
  <2> DEFINE s == ListAt(f, p, j)
             v == IF j < ListBlocks(p) THEN ListAt(f, p, j + 1) ELSE Null
  <2>1. ListContent(f, p, j).tag = "list" /\ ListContent(f, p, j).next = v
    BY DEF ListContent
  <2>2. sec'[s].tag = "list" /\ sec'[s].next = v
    BY <1>1, <2>1
  <2>3. s \in Sector \ {Null}
    BY <1>3
  <2> HIDE DEF s, v
  <2>4. NextOf'[s] = v
    BY <2>2, <2>3 DEF NextOf
  <2> QED BY <2>4 DEF s, v
<1> DEFINE w == [k \in 1 .. NumSectors |->
                   IF k <= ListBlocks(p) THEN ListAt(f, p, k) ELSE Null]
<1>7. \A k \in 1 .. NumSectors : w[k] = IF k = 1 THEN start ELSE NextOf'[w[k - 1]]
  <2> TAKE k \in 1 .. NumSectors
  <2>1. CASE k = 1
    BY <1>3, <2>1
  <2>2. CASE k # 1
    <3>1. k - 1 \in 1 .. NumSectors /\ (k - 1) + 1 = k
      BY <2>2, VolumeAssumption
    <3>2. CASE k - 1 <= ListBlocks(p)
      <4>1. k - 1 \in 1 .. ListBlocks(p)
        BY <1>3, <3>1, <3>2
      <4>2. w[k - 1] = ListAt(f, p, k - 1)
        BY <3>1, <3>2
      <4>3. NextOf'[w[k - 1]] = IF k - 1 < ListBlocks(p) THEN ListAt(f, p, k) ELSE Null
        BY <1>6, <3>1, <4>1, <4>2
      <4>4. k - 1 < ListBlocks(p) <=> k <= ListBlocks(p)
        BY <1>3
      <4> QED BY <2>2, <4>3, <4>4
    <3>3. CASE ~(k - 1 <= ListBlocks(p))
      <4>1. w[k - 1] = Null
        BY <3>1, <3>3
      <4>2. ~(k <= ListBlocks(p))
        BY <1>3, <3>3
      <4> QED BY <1>5, <2>2, <4>1, <4>2
    <3> QED BY <3>2, <3>3
  <2> QED BY <2>1, <2>2
<1>8. \A k \in 1 .. NumSectors : Chain(NextOf', start)[k] = w[k]
  <2> HIDE DEF w
  <2> QED BY <1>2, <1>4, <1>7, ChainUnique
<1>9. {w[k] : k \in 1 .. NumSectors} \ {Null} = ListSet(f, p)
  <2>1. \A k \in 1 .. NumSectors : w[k] # Null => w[k] \in ListSet(f, p)
    BY DEF ListSet
  <2>2. \A j \in 1 .. ListBlocks(p) :
          j \in 1 .. NumSectors /\ w[j] = ListAt(f, p, j) /\ w[j] # Null
    <3> TAKE j \in 1 .. ListBlocks(p)
    <3>1. j \in 1 .. NumSectors /\ j <= ListBlocks(p)
      BY <1>3, VolumeAssumption
    <3>2. w[j] = ListAt(f, p, j)
      BY <3>1
    <3>3. ListAt(f, p, j) # Null
      BY <1>3
    <3> QED BY <3>1, <3>2, <3>3
  <2>3. \A s \in ListSet(f, p) : \E k \in 1 .. NumSectors : s = w[k] /\ s # Null
    BY <2>2 DEF ListSet
  <2> HIDE DEF w
  <2> QED BY <2>1, <2>3
<1>10. ListSectors(start)' = ListSet(f, p)
  <2> HIDE DEF w
  <2> QED BY <1>8, <1>9 DEF ListSectors
<1>11. \A s \in ListSet(f, p) : PairSet(s)' = LinkedSet(f, p)
  <2> SUFFICES ASSUME NEW j \in 1 .. ListBlocks(p), NEW s, s = ListAt(f, p, j)
               PROVE  PairSet(s)' = LinkedSet(f, p)
    BY DEF ListSet
  <2>1. /\ sec'[s].tag = "list"
        /\ sec'[s].pairs = [i \in 1 .. Linked(p) |-> DataAt(f, p, i)]
    <3>1. /\ ListContent(f, p, j).tag = "list"
          /\ ListContent(f, p, j).pairs = [i \in 1 .. Linked(p) |-> DataAt(f, p, i)]
      BY DEF ListContent
    <3> QED BY <1>1, <3>1
  <2>2. Linked(p) \in Nat /\ \A i \in 1 .. Linked(p) : i \in 1 .. DataBlocks(p)
    BY BlockCounts
  <2>3. \A i \in 1 .. Linked(p) : sec'[s].pairs[i] = DataAt(f, p, i) /\ sec'[s].pairs[i] # Null
    BY <1>3, <2>1, <2>2
  <2>4. DOMAIN sec'[s].pairs = 1 .. Linked(p)
    BY <2>1
  <2>5. {i \in DOMAIN sec'[s].pairs : \A h \in 1 .. i : sec'[s].pairs[h] # Null}
          = 1 .. Linked(p)
    <3>1. \A i \in 1 .. Linked(p) : \A h \in 1 .. i : h \in 1 .. Linked(p)
      BY <2>2
    <3> QED BY <2>3, <2>4, <3>1
  <2>6. PairSet(s)' = {sec'[s].pairs[i] : i \in 1 .. Linked(p)}
    BY <2>1, <2>5 DEF PairSet
  <2> QED BY <2>3, <2>6 DEF LinkedSet
<1>12. DataSectors(start)' = LinkedSet(f, p)
  <2>1. start \in ListSet(f, p)
    BY <1>3 DEF ListSet
  <2> QED BY <1>10, <1>11, <2>1 DEF DataSectors
<1> QED BY <1>4, <1>10, <1>12
------------------------------------------------------------------------------
(***************************************************************************)
(* The inductive invariant.  UsedMarked is not inductive on its own: a     *)
(* removal frees the footprint of one file, which keeps the others marked  *)
(* only if no sector is shared; and NoCrossLink needs UsedMarked, for a    *)
(* write takes the sectors the bitmap has free.                            *)
(***************************************************************************)
IInv == TypeOK /\ UsedMarked /\ NoCrossLink /\ NoLeak

(* f is what is left of the volume when entry i is not counted: no other   *)
(* file is in it, and together with the other files it is all there was.   *)
Others(i) == {j \in Slot \ {i} : InUse(j)}
Spare(i, f) ==
  /\ f \in SUBSET (Sector \ {Null})
  /\ \A j \in Others(i) : Footprint(j) \cap f = {}
  /\ InitialFree = f \cup UNION {Footprint(j) : j \in Others(i)}

(* An unused entry leaves the bitmap as the spare sectors.                 *)
LEMMA SpareFree ==
  ASSUME IInv, ~crashed, NEW i, i \notin Slot \/ ~InUse(i)
  PROVE  Spare(i, free)
<1>1. Others(i) = {j \in Slot : InUse(j)}
  BY DEF Others
<1>2. free \in SUBSET (Sector \ {Null})
  BY DEF IInv, TypeOK
<1>3. \A j \in Others(i) : Footprint(j) \cap free = {}
  BY <1>1 DEF IInv, UsedMarked
<1>4. InitialFree = free \cup UNION {Footprint(j) : j \in Others(i)}
  BY <1>1 DEF IInv, NoLeak
<1> QED BY <1>2, <1>3, <1>4 DEF Spare

(* Removing a file gives back its sectors and no others.                   *)
LEMMA SpareRemoved ==
  ASSUME IInv, ~crashed, NEW i \in Slot, InUse(i)
  PROVE  Spare(i, FreeAfterRemove(i))
<1>1. Footprint(i) \subseteq Sector \ {Null}
  BY FootprintType DEF IInv
<1>2. FreeAfterRemove(i) \in SUBSET (Sector \ {Null})
  BY <1>1 DEF FreeAfterRemove, IInv, TypeOK
<1>3. ASSUME NEW j \in Others(i)
      PROVE  Footprint(j) \cap FreeAfterRemove(i) = {}
  <2>1. j \in Slot /\ InUse(j) /\ j # i
    BY DEF Others
  <2>2. Footprint(j) \cap free = {}
    BY <2>1 DEF IInv, UsedMarked
  <2>3. Footprint(j) \cap Footprint(i) = {}
    BY <2>1 DEF IInv, NoCrossLink
  <2> QED BY <2>2, <2>3 DEF FreeAfterRemove
<1>4. {j \in Slot : InUse(j)} = Others(i) \cup {i}
  BY DEF Others
<1>5. InitialFree = free \cup UNION {Footprint(j) : j \in Others(i) \cup {i}}
  BY <1>4 DEF IInv, NoLeak
<1>6. InitialFree = FreeAfterRemove(i) \cup UNION {Footprint(j) : j \in Others(i)}
  BY <1>5 DEF FreeAfterRemove
<1> QED BY <1>2, <1>3, <1>6 DEF Spare

(* A step that clears entry i, or leaves it unused, and gives back its     *)
(* sectors.                                                                *)
LEMMA ClearStep ==
  ASSUME IInv, ~crashed, NEW i \in Slot, NEW f, Spare(i, f),
         free' = f, cat' = [cat EXCEPT ![i] = Unused], sec' = sec, crashed' = crashed
  PROVE  IInv'
<1>1. TypeOK'
  BY DEF IInv, TypeOK, Spare
<1>2. \A j \in Slot : InUse(j)' <=> j \in Others(i)
  BY DEF IInv, TypeOK, InUse, Others
<1>3. \A j \in Others(i) : Footprint(j)' = Footprint(j)
  <2> TAKE j \in Others(i)
  <2>1. j \in Slot /\ InUse(j) /\ cat'[j] = cat[j]
    BY DEF Others, IInv, TypeOK
  <2> QED BY <2>1, FootprintFrame DEF IInv, TypeOK
<1>4. UsedMarked'
  BY <1>2, <1>3 DEF UsedMarked, Spare
<1>5. NoCrossLink'
  <2>1. \A j \in Others(i) : j \in Slot /\ InUse(j)
    BY DEF Others
  <2> QED BY <1>2, <1>3, <2>1 DEF NoCrossLink, IInv
<1>6. NoLeak'
  <2>1. {j \in Slot : InUse(j)}' = Others(i)
    BY <1>2 DEF Others
  <2>2. InitialFree = free' \cup UNION {Footprint(j)' : j \in Others(i)}
    BY <1>3 DEF Spare
  <2> QED BY <2>1, <2>2 DEF NoLeak
<1> QED BY <1>1, <1>4, <1>5, <1>6 DEF IInv
(* The file of entry j is where it was and as it was.                      *)
Kept(j) ==
  /\ cat'[j] = cat[j]
  /\ Footprint(j)' = Footprint(j)
  /\ \A s \in Footprint(j) : sec'[s] = sec[s]

(* What a step that stores a file in entry i on spare sectors f does to the *)
(* entries and to the sectors they own.                                    *)
FileStored(i, f, arg, k, p) ==
  /\ cat'[i] = [name |-> Stored(arg), kind |-> k, locked |-> FALSE,
                start |-> ListAt(f, p, 1), total |-> TotalBlocks(p)]
  /\ cat'[i] \in Entry
  /\ \A j \in Slot \ {i} : cat'[j] = cat[j]
  /\ \A j \in Slot : InUse(j)' <=> j \in Others(i) \cup {i}
  /\ Footprint(i)' = ListSet(f, p) \cup LinkedSet(f, p)
  /\ ListSet(f, p) \cup LinkedSet(f, p) \subseteq f
  /\ \A j \in Others(i) : Kept(j)

LEMMA StoreEffect ==
  ASSUME IInv, NEW i \in Slot, NEW f, Spare(i, f),
         NEW arg \in Typed, NEW k \in Kinds, NEW p \in Payloads,
         StoreFile(i, f, arg, k, p)
  PROVE  FileStored(i, f, arg, k, p)
<1>1. PICK start : start = ListAt(f, p, 1)
  OBVIOUS
<1>2. /\ f \in SUBSET (Sector \ {Null}) /\ HasRoom(f, p)
      /\ sec' = SectorsWith(f, p) /\ free' = FreeWithout(f, p)
      /\ crashed' = crashed
      /\ cat' = [cat EXCEPT ![i] = [name |-> Stored(arg), kind |-> k, locked |-> FALSE,
                                    start |-> start, total |-> TotalBlocks(p)]]
  BY <1>1 DEF StoreFile, Spare
<1>3. /\ start \in Sector \ {Null}
      /\ ListSectors(start)' = ListSet(f, p)
      /\ DataSectors(start)' = LinkedSet(f, p)
  BY <1>1, <1>2, StoredFootprint DEF IInv
<1>4. /\ sec' \in [Sector -> Content]
      /\ \A s \in Sector \ f : sec'[s] = sec[s]
  BY <1>2, StoredSectors DEF IInv, TypeOK
<1> DEFINE entry == [name |-> Stored(arg), kind |-> k, locked |-> FALSE,
                     start |-> start, total |-> TotalBlocks(p)]
<1>5. entry \in Entry
  <2>1. TotalBlocks(p) \in Nat
    BY BlockCounts
  <2> QED BY <1>3, <2>1, StoredName DEF Entry
<1>6. entry # Unused /\ entry.start = start
  BY <1>5, UnusedAssumption
<1>7. cat' = [cat EXCEPT ![i] = entry]
  BY <1>2
<1>8. entry = [name |-> Stored(arg), kind |-> k, locked |-> FALSE,
               start |-> ListAt(f, p, 1), total |-> TotalBlocks(p)]
  BY <1>1
<1> HIDE DEF entry
<1>9. cat'[i] = entry /\ \A j \in Slot \ {i} : cat'[j] = cat[j]
  BY <1>7 DEF IInv, TypeOK
<1>10. Footprint(i)' = ListSet(f, p) \cup LinkedSet(f, p)
  <2>1. cat'[i].start = start
    BY <1>6, <1>9
  <2> QED BY <1>3, <2>1 DEF Footprint
<1>11. ListSet(f, p) \cup LinkedSet(f, p) \subseteq f
  <2>1. \A j \in 1 .. Linked(p) : j \in 1 .. DataBlocks(p)
    BY BlockCounts
  <2>2. \A j \in 1 .. ListBlocks(p) : ListAt(f, p, j) \in f
    BY <1>2, BlocksOfFile
  <2>3. \A j \in 1 .. Linked(p) : DataAt(f, p, j) \in f
    BY <1>2, <2>1, BlocksOfFile
  <2> QED BY <2>2, <2>3 DEF ListSet, LinkedSet
<1>12. \A j \in Others(i) : Kept(j)
  <2> TAKE j \in Others(i)
  <2>1. j \in Slot /\ InUse(j) /\ cat'[j] = cat[j]
    BY <1>9 DEF Others
  <2>2. Footprint(j) \subseteq Sector /\ Footprint(j) \cap f = {}
    BY <2>1, FootprintType DEF IInv, Spare
  <2>3. \A s \in Footprint(j) : sec'[s] = sec[s]
    BY <1>4, <2>2
  <2> QED BY <1>4, <2>1, <2>2, <2>3, FootprintFrame DEF IInv, Kept
<1>13. \A j \in Slot : InUse(j)' <=> j \in Others(i) \cup {i}
  BY <1>6, <1>9 DEF InUse, Others
<1> QED BY <1>5, <1>8, <1>9, <1>10, <1>11, <1>12, <1>13 DEF FileStored

(* A step that stores a file in entry i on spare sectors.                  *)
LEMMA StoreStep ==
  ASSUME IInv, ~crashed, NEW i \in Slot, NEW f, Spare(i, f),
         NEW arg \in Typed, NEW k \in Kinds, NEW p \in Payloads,
         StoreFile(i, f, arg, k, p)
  PROVE  IInv'
<1>1. FileStored(i, f, arg, k, p)
  BY StoreEffect
<1>2. /\ \A j \in Others(i) : Footprint(j)' = Footprint(j) /\ Footprint(j) \cap f = {}
      /\ Footprint(i)' \subseteq f
  BY <1>1 DEF FileStored, Kept, Spare
<1>3. \A j \in Slot : InUse(j)' <=> j \in Others(i) \cup {i}
  BY <1>1 DEF FileStored
<1>4. free' = f \ Footprint(i)'
  BY <1>1 DEF FileStored, StoreFile, FreeWithout
<1>5. TypeOK'
  <2>1. free' \in SUBSET (Sector \ {Null})
    BY <1>4 DEF Spare
  <2>2. cat' \in [Slot -> Entry \cup {Unused}]
    BY <1>1 DEF FileStored, StoreFile, IInv, TypeOK
  <2>3. sec' \in [Sector -> Content]
    BY StoredSectors DEF StoreFile, Spare, IInv, TypeOK
  <2>4. crashed' \in BOOLEAN
    BY DEF StoreFile, IInv, TypeOK
  <2> QED BY <2>1, <2>2, <2>3, <2>4 DEF TypeOK
<1>6. UsedMarked'
  BY <1>2, <1>3, <1>4 DEF UsedMarked
<1>7. NoCrossLink'
  <2>1. \A j \in Others(i) : Footprint(j)' \cap Footprint(i)' = {}
    BY <1>2
  <2>2. \A j, h \in Others(i) : j # h => Footprint(j)' \cap Footprint(h)' = {}
    <3>1. \A j \in Others(i) : j \in Slot /\ InUse(j)
      BY DEF Others
    <3> QED BY <1>2, <3>1 DEF IInv, NoCrossLink
  <2> QED BY <1>3, <2>1, <2>2 DEF NoCrossLink
<1>8. NoLeak'
  <2>1. {j \in Slot : InUse(j)}' = Others(i) \cup {i}
    BY <1>3 DEF Others
  <2>2. InitialFree = f \cup UNION {Footprint(j)' : j \in Others(i)}
    BY <1>2 DEF Spare
  <2>3. f = free' \cup Footprint(i)'
    BY <1>2, <1>4
  <2>4. InitialFree = free' \cup UNION {Footprint(j)' : j \in Others(i) \cup {i}}
    BY <2>2, <2>3
  <2> QED BY <2>1, <2>4 DEF NoLeak
<1> QED BY <1>5, <1>6, <1>7, <1>8 DEF IInv

(* A write that finds the catalog full: the image is written, then the     *)
(* program crashes.                                                        *)
LEMMA CrashStep ==
  ASSUME IInv, NEW arg \in Typed, NEW p \in Payloads, WriteCatalogFull(arg, p)
  PROVE  IInv'
<1>1. PICK f : f = free
  OBVIOUS
<1>2. /\ f \in SUBSET (Sector \ {Null}) /\ HasRoom(f, p)
      /\ sec' = SectorsWith(f, p) /\ free' = FreeWithout(f, p)
      /\ cat' = cat /\ crashed' = TRUE
  BY <1>1 DEF WriteCatalogFull, IInv, TypeOK
<1>3. /\ sec' \in [Sector -> Content]
      /\ \A s \in Sector \ f : sec'[s] = sec[s]
  BY <1>2, StoredSectors DEF IInv, TypeOK
<1>4. free' \subseteq free
  BY <1>1, <1>2 DEF FreeWithout
<1>5. TypeOK'
  BY <1>2, <1>3, <1>4 DEF IInv, TypeOK
<1>6. \A j \in Slot : InUse(j)' <=> InUse(j)
  BY <1>2 DEF InUse
<1>7. \A j \in Slot : InUse(j) => Footprint(j)' = Footprint(j)
  <2> TAKE j \in Slot
  <2> HAVE InUse(j)
  <2>1. Footprint(j) \subseteq Sector /\ Footprint(j) \cap f = {}
    BY <1>1, FootprintType DEF IInv, UsedMarked
  <2>2. \A s \in Footprint(j) : sec'[s] = sec[s]
    BY <1>3, <2>1
  <2> QED BY <1>2, <1>3, <2>2, FootprintFrame DEF IInv
<1>8. UsedMarked'
  BY <1>4, <1>6, <1>7 DEF IInv, UsedMarked
<1>9. NoCrossLink'
  BY <1>6, <1>7 DEF IInv, NoCrossLink
<1>10. NoLeak'
  BY <1>2 DEF NoLeak
<1> QED BY <1>5, <1>8, <1>9, <1>10 DEF IInv

(* A step after which the same entries start the same files.               *)
LEMMA SameFilesStep ==
  ASSUME IInv, TypeOK', free' = free, sec' = sec, crashed' = crashed,
         \A j \in Slot : (InUse(j)' <=> InUse(j)) /\ cat'[j].start = cat[j].start
  PROVE  IInv'
<1>1. \A j \in Slot : InUse(j) => Footprint(j)' = Footprint(j)
  BY FootprintFrame DEF IInv, TypeOK
<1>2. UsedMarked'
  BY <1>1 DEF IInv, UsedMarked
<1>3. NoCrossLink'
  BY <1>1 DEF IInv, NoCrossLink
<1>4. NoLeak'
  <2>1. {j \in Slot : InUse(j)}' = {j \in Slot : InUse(j)}
    OBVIOUS
  <2>2. {Footprint(j)' : j \in {j \in Slot : InUse(j)}}
          = {Footprint(j) : j \in {j \in Slot : InUse(j)}}
    BY <1>1
  <2> QED BY <2>1, <2>2 DEF IInv, NoLeak
<1> QED BY <1>2, <1>3, <1>4 DEF IInv

(* A step that edits the entry of a file in place and keeps its start.     *)
LEMMA EditStep ==
  ASSUME IInv, NEW i \in Slot, InUse(i), NEW e \in Entry, e.start = cat[i].start,
         cat' = [cat EXCEPT ![i] = e], free' = free, sec' = sec, crashed' = crashed
  PROVE  IInv'
<1>1. cat \in [Slot -> Entry \cup {Unused}] /\ e # Unused
  BY UnusedAssumption DEF IInv, TypeOK
<1>2. TypeOK'
  BY <1>1 DEF IInv, TypeOK
<1>3. \A j \in Slot : (InUse(j)' <=> InUse(j)) /\ cat'[j].start = cat[j].start
  BY <1>1 DEF InUse
<1> QED BY <1>2, <1>3, SameFilesStep

------------------------------------------------------------------------------
(* A mounted image with an empty catalog satisfies the invariant.          *)
LEMMA InvInit == Init => IInv
<1> SUFFICES ASSUME Init PROVE IInv
  OBVIOUS
<1>1. \A i \in Slot : ~InUse(i)
  BY DEF Init, InUse
<1>2. TypeOK
  BY VolumeAssumption DEF Init, TypeOK, Content
<1>3. UsedMarked /\ NoCrossLink
  BY <1>1 DEF UsedMarked, NoCrossLink
<1>4. NoLeak
  BY <1>1 DEF Init, NoLeak
<1> QED BY <1>2, <1>3, <1>4 DEF IInv

(* Every command preserves the invariant.                                  *)
LEMMA InvNext == IInv /\ [Next]_vars => IInv'
<1> SUFFICES ASSUME IInv, [Next]_vars PROVE IInv'
  OBVIOUS
<1>1. ASSUME NEW arg \in Typed, NEW k \in Kinds, NEW p \in Payloads,
             WriteNewFile(arg, k, p)
      PROVE  IInv'
  <2>1. PICK i, f : i = NextFreeCatalogEntry /\ f = free
    OBVIOUS
  <2>2. i \in Slot /\ ~InUse(i) /\ ~crashed /\ StoreFile(i, f, arg, k, p)
    BY <1>1, <2>1, FreeEntry DEF WriteNewFile, FreeForWrite
  <2>3. Spare(i, f)
    BY <2>1, <2>2, SpareFree
  <2> QED BY <2>2, <2>3, StoreStep
<1>2. ASSUME NEW arg \in Typed, NEW k \in Kinds, NEW p \in Payloads,
             ReplaceFile(arg, k, p)
      PROVE  IInv'
  <2>1. PICK i, f : i = NamedCatalogEntry(arg) /\ f = FreeForWrite(i)
    OBVIOUS
  <2>2. i \in Slot /\ InUse(i) /\ i # NoSlot /\ ~crashed /\ StoreFile(i, f, arg, k, p)
    BY <1>2, <2>1, NamedEntry DEF ReplaceFile
  <2>3. Spare(i, f)
    BY <2>1, <2>2, SpareRemoved DEF FreeForWrite
  <2> QED BY <2>2, <2>3, StoreStep
<1>3. ASSUME NEW arg \in Typed, NEW k \in Kinds, NEW p \in Payloads,
             ReplaceNoRoom(arg, k, p)
      PROVE  IInv'
  <2>1. PICK i, f : i = NamedCatalogEntry(arg) /\ f = FreeAfterRemove(i)
    OBVIOUS
  <2>2. /\ i \in Slot /\ InUse(i) /\ ~crashed
        /\ free' = f /\ cat' = [cat EXCEPT ![i] = Unused]
        /\ sec' = sec /\ crashed' = crashed
    BY <1>3, <2>1, NamedEntry DEF ReplaceNoRoom
  <2> QED BY <2>1, <2>2, SpareRemoved, ClearStep
<1>4. ASSUME NEW arg \in Typed, NEW p \in Payloads, WriteCatalogFull(arg, p)
      PROVE  IInv'
  BY <1>4, CrashStep
<1>5. ASSUME NEW arg \in Typed, DeleteFile(arg)
      PROVE  IInv'
  <2>1. PICK i, f : i = NamedCatalogEntry(arg) /\ f = FreeAfterRemove(i)
    OBVIOUS
  <2>2. /\ i \in Slot /\ InUse(i) /\ ~crashed
        /\ free' = f /\ cat' = [cat EXCEPT ![i] = Unused]
        /\ sec' = sec /\ crashed' = crashed
    BY <1>5, <2>1, NamedEntry DEF DeleteFile
  <2> QED BY <2>1, <2>2, SpareRemoved, ClearStep
<1>6. ASSUME NEW arg \in Typed, NEW lock \in BOOLEAN, SetLocked(arg, lock)
      PROVE  IInv'
  <2>1. PICK i, e : i = NamedCatalogEntry(arg) /\ e = [cat[i] EXCEPT !.locked = lock]
    OBVIOUS
  <2>2. i \in Slot /\ InUse(i) /\ cat[i] \in Entry
    BY <1>6, <2>1, NamedEntry, FootprintType DEF SetLocked, IInv
  <2>3. e \in Entry /\ e.start = cat[i].start
    BY <2>1, <2>2 DEF Entry
  <2>4. /\ cat' = [cat EXCEPT ![i] = e]
        /\ free' = free /\ sec' = sec /\ crashed' = crashed
    BY <1>6, <2>1 DEF SetLocked
  <2> QED BY <2>2, <2>3, <2>4, EditStep
<1>7. ASSUME NEW arg \in Typed, NEW newarg \in Typed, RenameFile(arg, newarg)
      PROVE  IInv'
  <2>1. PICK i, e : i = NamedCatalogEntry(arg) /\ e = [cat[i] EXCEPT !.name = Stored(newarg)]
    OBVIOUS
  <2>2. i \in Slot /\ InUse(i) /\ cat[i] \in Entry
    BY <1>7, <2>1, NamedEntry, FootprintType DEF RenameFile, IInv
  <2>3. e \in Entry /\ e.start = cat[i].start
    BY <2>1, <2>2, StoredName DEF Entry
  <2>4. /\ cat' = [cat EXCEPT ![i] = e]
        /\ free' = free /\ sec' = sec /\ crashed' = crashed
    BY <1>7, <2>1 DEF RenameFile
  <2> QED BY <2>2, <2>3, <2>4, EditStep
<1>8. CASE UNCHANGED vars
  <2>1. free' = free /\ cat' = cat /\ sec' = sec /\ crashed' = crashed
    BY <1>8 DEF vars
  <2>2. TypeOK'
    BY <2>1 DEF IInv, TypeOK
  <2>3. \A j \in Slot : (InUse(j)' <=> InUse(j)) /\ cat'[j].start = cat[j].start
    BY <2>1 DEF InUse
  <2> QED BY <2>1, <2>2, <2>3, SameFilesStep
<1> QED BY <1>1, <1>2, <1>3, <1>4, <1>5, <1>6, <1>7, <1>8 DEF Next

LEMMA Invariance == Spec => []IInv
BY InvInit, InvNext, PTL DEF Spec

(* Every variable keeps its type; in particular T0,S0, which ends lists    *)
(* and chains, never becomes free.                                         *)
THEOREM TypeCorrect == Spec => []TypeOK
<1>1. IInv => TypeOK
  BY DEF IInv
<1> QED BY <1>1, Invariance, PTL

(* No command leaves a sector of a file marked free, so no later write can *)
(* take it: every write and every removal edits the bitmap, the catalog    *)
(* and the T/S lists consistently.                                         *)
THEOREM FilesAreSafe == Spec => []UsedMarked
<1>1. IInv => UsedMarked
  BY DEF IInv
<1> QED BY <1>1, Invariance, PTL

(* No sector is in two files: AppleDOSGetFreeSectors picks none that is in *)
(* a file on the volume, as a list or as data.                             *)
THEOREM FilesAreApart == Spec => []NoCrossLink
<1>1. IInv => NoCrossLink
  BY DEF IInv
<1> QED BY <1>1, Invariance, PTL

(* No command loses a sector, nor frees one that was not the user's.       *)
THEOREM NothingLeaks == Spec => []NoLeak
<1>1. IInv => NoLeak
  BY DEF IInv
<1> QED BY <1>1, Invariance, PTL

------------------------------------------------------------------------------
(***************************************************************************)
(* What the commands do to the files: one is stored, removed or edited in  *)
(* its entry, and all others are kept.                                     *)
(***************************************************************************)
Puts(i, f, arg, k, p) ==
  /\ i \in Slot /\ f \in SUBSET (Sector \ {Null})
  /\ StoreFile(i, f, arg, k, p)
  /\ FileStored(i, f, arg, k, p)
  /\ \/ NamedCatalogEntry(arg) = NoSlot /\ ~InUse(i)
     \/ NamedCatalogEntry(arg) = i /\ InUse(i) /\ cat[i].kind = k

Clears(i, arg) ==
  /\ i \in Slot /\ InUse(i) /\ NamedCatalogEntry(arg) = i
  /\ cat'[i] = Unused
  /\ \A j \in Slot \ {i} : cat'[j] = cat[j]
  /\ \A j \in Others(i) : Kept(j)

(* Entry i becomes e, which starts the same file.                          *)
Edits(i, e, arg) ==
  /\ i \in Slot /\ InUse(i) /\ NamedCatalogEntry(arg) = i
  /\ cat[i] \in Entry /\ e \in Entry /\ e.start = cat[i].start /\ e.total = cat[i].total
  /\ cat'[i] = e /\ Footprint(i)' = Footprint(i) /\ sec' = sec
  /\ \A j \in Slot \ {i} : cat'[j] = cat[j]
  /\ \A j \in Others(i) : Kept(j)

Locks(i, e, arg, lock) == Edits(i, e, arg) /\ e = [cat[i] EXCEPT !.locked = lock]

Renames(i, e, arg, newarg) ==
  /\ Edits(i, e, arg)
  /\ NamedCatalogEntry(newarg) = NoSlot
  /\ e = [cat[i] EXCEPT !.name = Stored(newarg)]

Leaves == cat' = cat /\ \A j \in Slot : InUse(j) => Kept(j)

LEMMA ClearEffect ==
  ASSUME IInv, NEW arg \in Typed, NamedCatalogEntry(arg) # NoSlot,
         cat' = [cat EXCEPT ![NamedCatalogEntry(arg)] = Unused], sec' = sec
  PROVE  Clears(NamedCatalogEntry(arg), arg)
<1>1. PICK i : i = NamedCatalogEntry(arg)
  OBVIOUS
<1>2. /\ i \in Slot /\ InUse(i)
      /\ cat' = [cat EXCEPT ![i] = Unused]
  BY <1>1, NamedEntry
<1>3. cat'[i] = Unused /\ \A j \in Slot \ {i} : cat'[j] = cat[j]
  BY <1>2 DEF IInv, TypeOK
<1>4. \A j \in Others(i) : Kept(j)
  <2> TAKE j \in Others(i)
  <2>1. j \in Slot /\ InUse(j) /\ cat'[j] = cat[j]
    BY <1>3 DEF Others
  <2> QED BY <2>1, FootprintFrame DEF IInv, TypeOK, Kept
<1> QED BY <1>1, <1>2, <1>3, <1>4 DEF Clears

LEMMA EditEffect ==
  ASSUME IInv, NEW arg \in Typed, NEW i, i = NamedCatalogEntry(arg), i # NoSlot,
         NEW e \in Entry, e.start = cat[i].start, e.total = cat[i].total,
         cat' = [cat EXCEPT ![i] = e], sec' = sec
  PROVE  Edits(i, e, arg)
<1>1. i \in Slot /\ InUse(i) /\ cat[i] \in Entry
  BY NamedEntry, FootprintType DEF IInv
<1>2. cat'[i] = e /\ \A j \in Slot \ {i} : cat'[j] = cat[j]
  BY <1>1 DEF IInv, TypeOK
<1>3. Footprint(i)' = Footprint(i)
  BY <1>1, <1>2, FootprintFrame DEF IInv, TypeOK
<1>4. \A j \in Others(i) : Kept(j)
  <2> TAKE j \in Others(i)
  <2>1. j \in Slot /\ InUse(j) /\ cat'[j] = cat[j]
    BY <1>2 DEF Others
  <2> QED BY <2>1, FootprintFrame DEF IInv, TypeOK, Kept
<1> QED BY <1>1, <1>2, <1>3, <1>4 DEF Edits

(* Every step is one of these.                                             *)
LEMMA StepCases ==
  ASSUME IInv, [Next]_vars
  PROVE  \/ \E i, f : \E arg \in Typed, k \in Kinds, p \in Payloads : Puts(i, f, arg, k, p)
         \/ \E i : \E arg \in Typed : Clears(i, arg)
         \/ \E i, e : \E arg \in Typed, lock \in BOOLEAN : Locks(i, e, arg, lock)
         \/ \E i, e : \E arg, newarg \in Typed : Renames(i, e, arg, newarg)
         \/ Leaves
<1>1. ASSUME NEW arg \in Typed, NEW k \in Kinds, NEW p \in Payloads, WriteNewFile(arg, k, p)
      PROVE  \E i, f : Puts(i, f, arg, k, p)
  <2>1. PICK i, f : i = NextFreeCatalogEntry /\ f = free
    OBVIOUS
  <2>2. i \in Slot /\ ~InUse(i) /\ ~crashed /\ StoreFile(i, f, arg, k, p)
    BY <1>1, <2>1, FreeEntry DEF WriteNewFile, FreeForWrite
  <2>3. Spare(i, f)
    BY <2>1, <2>2, SpareFree
  <2>4. FileStored(i, f, arg, k, p)
    BY <2>2, <2>3, StoreEffect
  <2>5. Puts(i, f, arg, k, p)
    BY <1>1, <2>2, <2>3, <2>4 DEF Puts, WriteNewFile, Spare
  <2> QED BY <2>5
<1>2. ASSUME NEW arg \in Typed, NEW k \in Kinds, NEW p \in Payloads, ReplaceFile(arg, k, p)
      PROVE  \E i, f : Puts(i, f, arg, k, p)
  <2>1. PICK i, f : i = NamedCatalogEntry(arg) /\ f = FreeForWrite(i)
    OBVIOUS
  <2>2. /\ i \in Slot /\ InUse(i) /\ i # NoSlot /\ ~crashed /\ cat[i].kind = k
        /\ StoreFile(i, f, arg, k, p)
    BY <1>2, <2>1, NamedEntry DEF ReplaceFile
  <2>3. Spare(i, f)
    BY <2>1, <2>2, SpareRemoved DEF FreeForWrite
  <2>4. FileStored(i, f, arg, k, p)
    BY <2>2, <2>3, StoreEffect
  <2>5. Puts(i, f, arg, k, p)
    BY <2>1, <2>2, <2>3, <2>4 DEF Puts, Spare
  <2> QED BY <2>5
<1>3. ASSUME NEW arg \in Typed, NEW k \in Kinds, NEW p \in Payloads, ReplaceNoRoom(arg, k, p)
      PROVE  Clears(NamedCatalogEntry(arg), arg)
  <2>1. /\ NamedCatalogEntry(arg) # NoSlot /\ sec' = sec
        /\ cat' = [cat EXCEPT ![NamedCatalogEntry(arg)] = Unused]
    BY <1>3 DEF ReplaceNoRoom
  <2> QED BY <2>1, ClearEffect
<1>4. ASSUME NEW arg \in Typed, DeleteFile(arg)
      PROVE  Clears(NamedCatalogEntry(arg), arg)
  BY <1>4, ClearEffect DEF DeleteFile
<1>5. ASSUME NEW arg \in Typed, NEW p \in Payloads, WriteCatalogFull(arg, p)
      PROVE  Leaves
  <2>1. PICK f : f = free
    OBVIOUS
  <2>2. f \in SUBSET (Sector \ {Null}) /\ HasRoom(f, p) /\ sec' = SectorsWith(f, p) /\ cat' = cat
    BY <1>5, <2>1 DEF WriteCatalogFull, IInv, TypeOK
  <2>3. /\ sec' \in [Sector -> Content]
        /\ \A s \in Sector \ f : sec'[s] = sec[s]
    BY <2>2, StoredSectors DEF IInv, TypeOK
  <2>4. ASSUME NEW j \in Slot, InUse(j) PROVE Kept(j)
    <3>1. Footprint(j) \subseteq Sector /\ Footprint(j) \cap f = {}
      BY <2>1, <2>4, FootprintType DEF IInv, UsedMarked
    <3>2. \A s \in Footprint(j) : sec'[s] = sec[s]
      BY <2>3, <3>1
    <3> QED BY <2>2, <2>3, <2>4, <3>2, FootprintFrame DEF IInv, Kept
  <2> QED BY <2>2, <2>4 DEF Leaves
<1>6. ASSUME NEW arg \in Typed, NEW lock \in BOOLEAN, SetLocked(arg, lock)
      PROVE  \E i, e : Locks(i, e, arg, lock)
  <2>1. PICK i, e : i = NamedCatalogEntry(arg) /\ e = [cat[i] EXCEPT !.locked = lock]
    OBVIOUS
  <2>2. i # NoSlot /\ cat[i] \in Entry
    BY <1>6, <2>1, NamedEntry, FootprintType DEF SetLocked, IInv
  <2>3. e \in Entry /\ e.start = cat[i].start /\ e.total = cat[i].total
    BY <2>1, <2>2 DEF Entry
  <2>4. cat' = [cat EXCEPT ![i] = e] /\ sec' = sec
    BY <1>6, <2>1 DEF SetLocked
  <2>5. Edits(i, e, arg)
    BY <2>1, <2>2, <2>3, <2>4, EditEffect
  <2> QED BY <2>1, <2>5 DEF Locks
<1>7. ASSUME NEW arg \in Typed, NEW newarg \in Typed, RenameFile(arg, newarg)
      PROVE  \E i, e : Renames(i, e, arg, newarg)
  <2>1. PICK i, e : i = NamedCatalogEntry(arg) /\ e = [cat[i] EXCEPT !.name = Stored(newarg)]
    OBVIOUS
  <2>2. i # NoSlot /\ cat[i] \in Entry
    BY <1>7, <2>1, NamedEntry, FootprintType DEF RenameFile, IInv
  <2>3. e \in Entry /\ e.start = cat[i].start /\ e.total = cat[i].total
    BY <2>1, <2>2, StoredName DEF Entry
  <2>4. cat' = [cat EXCEPT ![i] = e] /\ sec' = sec
    BY <1>7, <2>1 DEF RenameFile
  <2>5. Edits(i, e, arg)
    BY <2>1, <2>2, <2>3, <2>4, EditEffect
  <2> QED BY <1>7, <2>1, <2>5 DEF Renames, RenameFile
<1>8. CASE UNCHANGED vars
  <2>1. cat' = cat /\ sec' = sec
    BY <1>8 DEF vars
  <2>2. ASSUME NEW j \in Slot, InUse(j) PROVE Kept(j)
    BY <2>1, <2>2, FootprintFrame DEF IInv, TypeOK, Kept
  <2> QED BY <2>1, <2>2 DEF Leaves
<1>9. CASE Next
  <2>1. PICK arg \in Typed :
          \/ \E k \in Kinds, p \in Payloads :
               WriteNewFile(arg, k, p) \/ ReplaceFile(arg, k, p) \/ ReplaceNoRoom(arg, k, p)
          \/ \E p \in Payloads : WriteCatalogFull(arg, p)
          \/ DeleteFile(arg)
          \/ \E lock \in BOOLEAN : SetLocked(arg, lock)
          \/ \E newarg \in Typed : RenameFile(arg, newarg)
    BY <1>9 DEF Next
  <2>2. ASSUME NEW k \in Kinds, NEW p \in Payloads, WriteNewFile(arg, k, p) \/ ReplaceFile(arg, k, p)
        PROVE  \E i, f : Puts(i, f, arg, k, p)
    BY <2>2, <1>1, <1>2
  <2>3. ASSUME NEW k \in Kinds, NEW p \in Payloads, ReplaceNoRoom(arg, k, p)
        PROVE  \E i : Clears(i, arg)
    BY <2>3, <1>3
  <2>4. ASSUME DeleteFile(arg) PROVE \E i : Clears(i, arg)
    BY <2>4, <1>4
  <2>5. ASSUME NEW p \in Payloads, WriteCatalogFull(arg, p) PROVE Leaves
    BY <2>5, <1>5
  <2>6. ASSUME NEW lock \in BOOLEAN, SetLocked(arg, lock)
        PROVE  \E i, e : Locks(i, e, arg, lock)
    BY <2>6, <1>6
  <2>7. ASSUME NEW newarg \in Typed, RenameFile(arg, newarg)
        PROVE  \E i, e : Renames(i, e, arg, newarg)
    BY <2>7, <1>7
  <2> QED BY <2>1, <2>2, <2>3, <2>4, <2>5, <2>6, <2>7
<1> QED BY <1>8, <1>9

------------------------------------------------------------------------------
(***************************************************************************)
(* The names.                                                              *)
(***************************************************************************)
LEMMA NameLookup ==
  ASSUME NEW arg
  PROVE  /\ NamedCatalogEntry(arg) = NoSlot => \A i \in Slot : InUse(i) => cat[i].name # arg
         /\ NamedCatalogEntry(arg) # NoSlot =>
              /\ NamedCatalogEntry(arg) \in Slot
              /\ InUse(NamedCatalogEntry(arg))
              /\ cat[NamedCatalogEntry(arg)].name = arg
<1> DEFINE S == {i \in Slot : InUse(i) /\ cat[i].name = arg}
<1>1. First(S) \in S \cup {NoSlot} /\ (First(S) = NoSlot <=> S = {})
  BY FirstOf
<1> QED BY <1>1 DEF NamedCatalogEntry

(* The entries that are kept are in use with their names.                  *)
LEMMA OthersOf ==
  ASSUME NEW i
  PROVE  \A j \in Slot : j \in Others(i) <=> InUse(j) /\ j # i
BY DEF Others

LEMMA NamesNext ==
  ASSUME LongNames = {}, IInv, UniqueNames, [Next]_vars
  PROVE  UniqueNames'
<1>1. \A arg \in Typed : Stored(arg) = arg
  BY DEF Stored
<1>2. ASSUME NEW i, NEW f, NEW arg \in Typed, NEW k \in Kinds, NEW p \in Payloads, Puts(i, f, arg, k, p)
      PROVE  UniqueNames'
  <2>1. /\ i \in Slot /\ cat'[i].name = arg
        /\ \A j \in Slot \ {i} : cat'[j] = cat[j]
        /\ \A j \in Slot : InUse(j)' <=> (InUse(j) /\ j # i) \/ j = i
    BY <1>1, <1>2, OthersOf DEF Puts, FileStored
  <2>2. \A j \in Slot \ {i} : InUse(j) => cat[j].name # arg
    BY <1>2, NameLookup, NamedEntry DEF Puts, UniqueNames
  <2> QED BY <2>1, <2>2 DEF UniqueNames
<1>3. ASSUME NEW i, NEW arg \in Typed, Clears(i, arg)
      PROVE  UniqueNames'
  BY <1>3 DEF Clears, UniqueNames, InUse
<1>4. ASSUME NEW i, NEW e, NEW arg \in Typed, Edits(i, e, arg),
             e.name = cat[i].name \/ NamedCatalogEntry(e.name) = NoSlot
      PROVE  UniqueNames'
  <2>1. /\ i \in Slot /\ InUse(i) /\ cat'[i] = e
        /\ \A j \in Slot \ {i} : cat'[j] = cat[j]
    BY <1>4 DEF Edits
  <2>2. \A j \in Slot \ {i} : InUse(j) => cat[j].name # e.name
    BY <1>4, <2>1, NameLookup DEF UniqueNames
  <2> QED BY <2>1, <2>2 DEF UniqueNames, InUse
<1>5. ASSUME NEW i, NEW e, NEW arg \in Typed, NEW lock \in BOOLEAN, Locks(i, e, arg, lock)
      PROVE  UniqueNames'
  <2>1. e.name = cat[i].name
    BY <1>5 DEF Locks, Edits, Entry
  <2> QED BY <1>4, <1>5, <2>1 DEF Locks
<1>6. ASSUME NEW i, NEW e, NEW arg \in Typed, NEW newarg \in Typed, Renames(i, e, arg, newarg)
      PROVE  UniqueNames'
  <2>1. e.name = newarg
    BY <1>1, <1>6 DEF Renames, Edits, Entry
  <2> QED BY <1>4, <1>6, <2>1 DEF Renames
<1>7. ASSUME Leaves PROVE UniqueNames'
  BY <1>7 DEF Leaves, UniqueNames, InUse
<1> QED BY <1>2, <1>3, <1>5, <1>6, <1>7, StepCases

LEMMA NamesAlways ==
  ASSUME LongNames = {}
  PROVE  Spec => []UniqueNames
<1>1. Init => UniqueNames
  BY DEF Init, UniqueNames, InUse
<1>2. IInv /\ UniqueNames /\ [Next]_vars => UniqueNames'
  BY NamesNext
<1> QED BY <1>1, <1>2, Invariance, PTL DEF Spec

(* As long as nobody types a name of more than 30 characters, no two       *)
(* entries have one name: AppleDOSNamedCatalogEntry finds the file it is   *)
(* asked for, and a write replaces it instead of making a second one.      *)
THEOREM NamesUnique ==
  ASSUME LongNames = {}
  PROVE  Spec => []UniqueNames
BY NamesAlways

------------------------------------------------------------------------------
(***************************************************************************)
(* The counts.                                                             *)
(***************************************************************************)
LEMMA BlocksCounted ==
  ASSUME NEW f \in SUBSET (Sector \ {Null}), NEW p \in Payloads, HasRoom(f, p),
         DataBlocks(p) <= MaxPairs
  PROVE  Cardinality(ListSet(f, p) \cup LinkedSet(f, p)) = TotalBlocks(p)
<1>1. PICK n, d, t : n = ListBlocks(p) /\ d = DataBlocks(p) /\ t = n + d
  OBVIOUS
<1>2. n \in Nat \ {0} /\ d \in Nat \ {0} /\ TotalBlocks(p) = t /\ t \in Nat
  BY <1>1, BlockCounts
<1>3. Linked(p) = d
  BY <1>1, <1>2, PayloadAssumption DEF Linked
<1> DEFINE block == [j \in 1 .. t |-> IF j <= n THEN ListAt(f, p, j) ELSE DataAt(f, p, j - n)]
           S == ListSet(f, p) \cup LinkedSet(f, p)
<1>4. \A j \in 1 .. n : j \in 1 .. t /\ block[j] = ListAt(f, p, j)
  BY <1>1, <1>2
<1>5. \A j \in 1 .. d : n + j \in 1 .. t /\ block[n + j] = DataAt(f, p, j)
  BY <1>1, <1>2
<1>6. \A j \in 1 .. t : j \in 1 .. n \/ (j - n \in 1 .. d /\ n + (j - n) = j)
  BY <1>1, <1>2
<1>7. \A j \in 1 .. t : block[j] \in S
  <2> TAKE j \in 1 .. t
  <2>1. CASE j \in 1 .. n
    BY <1>1, <1>4, <2>1 DEF ListSet
  <2>2. CASE j - n \in 1 .. d /\ n + (j - n) = j
    BY <1>3, <1>5, <2>2 DEF LinkedSet
  <2> QED BY <1>6, <2>1, <2>2
<1>8. \A s \in S : \E j \in 1 .. t : block[j] = s
  <2>1. \A s \in ListSet(f, p) : \E j \in 1 .. t : block[j] = s
    <3> HIDE DEF block
    <3> QED BY <1>1, <1>4 DEF ListSet
  <2>2. \A s \in LinkedSet(f, p) : \E j \in 1 .. t : block[j] = s
    <3> HIDE DEF block
    <3> QED BY <1>3, <1>5 DEF LinkedSet
  <2> QED BY <2>1, <2>2
<1>9. \A i, j \in 1 .. t : block[i] = block[j] => i = j
  <2> SUFFICES ASSUME NEW i \in 1 .. t, NEW j \in 1 .. t, block[i] = block[j] PROVE i = j
    OBVIOUS
  <2> HIDE DEF block
  <2>1. /\ \A a, b \in 1 .. n : ListAt(f, p, a) = ListAt(f, p, b) => a = b
        /\ \A a, b \in 1 .. d : DataAt(f, p, a) = DataAt(f, p, b) => a = b
        /\ \A a \in 1 .. n, b \in 1 .. d : ListAt(f, p, a) # DataAt(f, p, b)
    BY <1>1, BlocksOfFile
  <2>2. CASE i \in 1 .. n /\ j \in 1 .. n
    BY <1>4, <2>1, <2>2
  <2>3. CASE i - n \in 1 .. d /\ n + (i - n) = i /\ j - n \in 1 .. d /\ n + (j - n) = j
    <3>1. DataAt(f, p, i - n) = DataAt(f, p, j - n)
      BY <1>5, <2>3
    <3>2. i - n = j - n
      BY <2>1, <2>3, <3>1
    <3> QED BY <2>3, <3>2
  <2>4. CASE i \in 1 .. n /\ j - n \in 1 .. d /\ n + (j - n) = j
    BY <1>4, <1>5, <2>1, <2>4
  <2>5. CASE j \in 1 .. n /\ i - n \in 1 .. d /\ n + (i - n) = i
    BY <1>4, <1>5, <2>1, <2>5
  <2> QED BY <1>6, <2>2, <2>3, <2>4, <2>5
<1>10. block \in Bijection(1 .. t, S)
  <2>1. block \in [1 .. t -> S]
    BY <1>7
  <2> HIDE DEF block, S
  <2> QED BY <1>8, <1>9, <2>1 DEF Bijection, Injection, Surjection, IsInjective
<1>11. IsFiniteSet(1 .. t) /\ Cardinality(1 .. t) = t
  BY <1>2, FS_Interval
<1> HIDE DEF block, S
<1>12. Cardinality(S) = t
  BY <1>10, <1>11, FS_Bijection DEF ExistsBijection
<1> QED BY <1>2, <1>12 DEF S

LEMMA CountsNext ==
  ASSUME \A p \in Payloads : DataBlocks(p) <= MaxPairs, IInv, CountsMatch, [Next]_vars
  PROVE  CountsMatch'
<1>1. ASSUME NEW i, NEW f, NEW arg \in Typed, NEW k \in Kinds, NEW p \in Payloads, Puts(i, f, arg, k, p)
      PROVE  CountsMatch'
  <2>1. /\ cat'[i].total = TotalBlocks(p) /\ i \in Slot
        /\ Footprint(i)' = ListSet(f, p) \cup LinkedSet(f, p)
        /\ \A j \in Slot : InUse(j)' <=> (InUse(j) /\ j # i) \/ j = i
        /\ \A j \in Slot \ {i} : InUse(j) => Kept(j)
    BY <1>1, OthersOf DEF Puts, FileStored
  <2>2. Cardinality(Footprint(i)') = TotalBlocks(p)
    BY <1>1, <2>1, BlocksCounted DEF Puts, StoreFile
  <2> QED BY <2>1, <2>2 DEF CountsMatch, Kept
<1>2. ASSUME NEW i, NEW arg \in Typed, Clears(i, arg)
      PROVE  CountsMatch'
  BY <1>2, OthersOf DEF Clears, CountsMatch, InUse, Kept
<1>3. ASSUME NEW i, NEW e, NEW arg \in Typed, Edits(i, e, arg)
      PROVE  CountsMatch'
  BY <1>3, OthersOf DEF Edits, CountsMatch, InUse, Kept
<1>4. ASSUME Leaves PROVE CountsMatch'
  BY <1>4 DEF Leaves, CountsMatch, InUse, Kept
<1> QED BY <1>1, <1>2, <1>3, <1>4, StepCases DEF Locks, Renames

(* When the pairs of every file fit one T/S list, the count in the catalog *)
(* is the number of sectors the bitmap lacks for the file: AppleDOSGetFree-*)
(* Sectors reserves what AppleDOSWriteFile then links, no more and no less. *)
THEOREM CountsAreExact ==
  ASSUME \A p \in Payloads : DataBlocks(p) <= MaxPairs
  PROVE  Spec => []CountsMatch
<1>1. Init => CountsMatch
  BY DEF Init, CountsMatch, InUse
<1>2. IInv /\ CountsMatch /\ [Next]_vars => CountsMatch'
  BY CountsNext
<1> QED BY <1>1, <1>2, Invariance, PTL DEF Spec

------------------------------------------------------------------------------
(***************************************************************************)
(* Reading a file back.                                                    *)
(***************************************************************************)
(* The loop of AppleDOSReadFileSectors over the lists of a file.           *)
LEMMA AppendedLists ==
  ASSUME NEW T, NEW lists \in [1 .. NumSectors -> Seq(T)]
  PROVE  /\ Appended(lists) \in Seq(T)
         /\ \E rest \in Seq(T) : Appended(lists) = lists[1] \o rest
<1>1. PICK n, S : n = NumSectors /\ S = Seq(T)
  OBVIOUS
<1>2. n \in Nat \ {0} /\ 1 \in 1 .. n /\ 1 \in 1 .. n + 1 /\ 2 \in 1 .. n + 1
  BY <1>1, VolumeAssumption
<1>3. /\ <<>> \in S
      /\ \A k \in 1 .. n : lists[k] \in S
      /\ \A s, t \in S : s \o t \in S
  BY <1>1
<1> DEFINE Body(g) == [k \in 1 .. n + 1 |-> IF k > n THEN <<>> ELSE lists[k] \o g[k + 1]]
           from == CHOOSE g : g = Body(g)
<1>4. \E g : g = Body(g)
  <2>1. PICK next \in [1 .. n -> [S -> S]] :
          next = [k \in 1 .. n |-> [s \in S |-> lists[n + 1 - k] \o s]]
    <3>1. \A k \in 1 .. n : n + 1 - k \in 1 .. n
      BY <1>2
    <3> QED BY <1>3, <3>1
  <2>2. PICK h : IsRecursion(h, S, n, <<>>, next)
    BY <1>2, <1>3, <2>1, RecursionExists
  <2>3. h \in [0 .. n -> S] /\ h[0] = <<>> /\ \A k \in 1 .. n : h[k] = next[k][h[k - 1]]
    BY <1>2, <2>2 DEF IsRecursion
  <2>4. \A k \in 1 .. n : h[k] = lists[n + 1 - k] \o h[k - 1]
    <3> TAKE k \in 1 .. n
    <3>1. k - 1 \in 0 .. n
      BY <1>2
    <3> QED BY <2>1, <2>3, <3>1
  <2> DEFINE g == [k \in 1 .. n + 1 |-> h[n + 1 - k]]
  <2>5. \A k \in 1 .. n + 1 : g[k] = IF k > n THEN <<>> ELSE lists[k] \o g[k + 1]
    <3> TAKE k \in 1 .. n + 1
    <3>1. CASE k > n
      <4>1. n + 1 - k = 0
        BY <1>2, <3>1
      <4> QED BY <2>3, <3>1, <4>1
    <3>2. CASE ~(k > n)
      <4>1. n + 1 - k \in 1 .. n /\ n + 1 - (n + 1 - k) = k /\ (n + 1 - k) - 1 = n + 1 - (k + 1)
            /\ k + 1 \in 1 .. n + 1
        BY <1>2, <3>2
      <4> QED BY <2>4, <3>2, <4>1
    <3> QED BY <3>1, <3>2
  <2>6. g = Body(g)
    <3>1. g = [k \in 1 .. n + 1 |-> g[k]]
      OBVIOUS
    <3> HIDE DEF g
    <3> QED BY <2>5, <3>1
  <2> HIDE DEF g
  <2> QED BY <2>6
<1>5. from = Body(from)
  BY <1>4
<1>6. Appended(lists) = from[1]
  BY <1>1 DEF Appended
<1> HIDE DEF from
<1>7. /\ from[n + 1] = <<>>
      /\ \A k \in 1 .. n : from[k] = lists[k] \o from[k + 1]
  <2>1. \A k \in 1 .. n + 1 : from[k] = IF k > n THEN <<>> ELSE lists[k] \o from[k + 1]
    <3>1. PICK c : c = from
      OBVIOUS
    <3>2. c = [k \in 1 .. n + 1 |-> IF k > n THEN <<>> ELSE lists[k] \o c[k + 1]]
      BY <1>5, <3>1
    <3>3. \A k \in 1 .. n + 1 : c[k] = IF k > n THEN <<>> ELSE lists[k] \o c[k + 1]
      BY <3>2
    <3> QED BY <3>1, <3>3
  <2>2. n + 1 \in 1 .. n + 1 /\ n + 1 > n
    BY <1>2
  <2>3. from[n + 1] = <<>>
    BY <2>1, <2>2
  <2>4. \A k \in 1 .. n : k \in 1 .. n + 1 /\ ~(k > n)
    BY <1>2
  <2>5. ASSUME NEW k \in 1 .. n PROVE from[k] = lists[k] \o from[k + 1]
    <3>1. k \in 1 .. n + 1 /\ ~(k > n)
      BY <2>4
    <3> QED BY <2>1, <3>1
  <2> QED BY <2>3, <2>5
<1>8. PICK h : h = [k \in 0 .. n |-> from[n + 1 - k]]
  OBVIOUS
<1>9. h[0] \in S /\ \A k \in 1 .. n : h[k - 1] \in S => h[k] \in S
  <2>1. h[0] = <<>>
    BY <1>2, <1>7, <1>8
  <2>2. ASSUME NEW k \in 1 .. n, h[k - 1] \in S PROVE h[k] \in S
    <3>1. n + 1 - k \in 1 .. n /\ (n + 1 - k) + 1 = n + 1 - (k - 1) /\ k - 1 \in 0 .. n /\ k \in 0 .. n
      BY <1>2
    <3>2. h[k] = lists[n + 1 - k] \o h[k - 1]
      BY <1>7, <1>8, <3>1
    <3> QED BY <1>3, <2>2, <3>1, <3>2
  <2> QED BY <1>3, <2>1, <2>2
<1>10. \A k \in 0 .. n : h[k] \in S
  BY <1>2, <1>9, RecursionInside
<1>11. from[1] \in S /\ from[2] \in S
  <2>1. n \in 0 .. n /\ n - 1 \in 0 .. n /\ n + 1 - n = 1 /\ n + 1 - (n - 1) = 2
    BY <1>2
  <2> QED BY <1>8, <1>10, <2>1
<1>12. from[1] = lists[1] \o from[2]
  <2>1. PICK one : one = 1
    OBVIOUS
  <2>2. one \in 1 .. n /\ one + 1 = 2
    BY <1>2, <2>1
  <2>3. from[one] = lists[one] \o from[one + 1]
    BY <1>7, <2>2
  <2> QED BY <2>1, <2>2, <2>3
<1> QED BY <1>1, <1>6, <1>11, <1>12

(* The pairs before the first null pair are as many as there are places    *)
(* with no null pair up to them.                                           *)
LEMMA InitialSegment ==
  ASSUME NEW n \in Nat, NEW A \in SUBSET (1 .. n), \A j \in A : \A h \in 1 .. j : h \in A
  PROVE  Cardinality(A) \in 0 .. n /\ A = 1 .. Cardinality(A)
<1> DEFINE B == {j \in 1 .. n + 1 : j \notin A}
<1>1. n + 1 \in B /\ B \in SUBSET Nat
  OBVIOUS
<1>2. PICK b \in B : \A j \in B : b <= j
  <2> HIDE DEF B
  <2> QED BY <1>1, LeastElement
<1>3. b \in 1 .. n + 1 /\ b \notin A
  OBVIOUS
<1>4. \A j \in 1 .. n + 1 : j < b => j \in A
  <2> SUFFICES ASSUME NEW j \in 1 .. n + 1, j < b, j \notin A PROVE FALSE
    OBVIOUS
  <2>1. j \in B
    OBVIOUS
  <2> QED BY <1>2, <1>3, <2>1
<1>5. \A j \in A : j \in 1 .. n /\ j < b
  BY <1>3
<1> HIDE DEF B
<1>6. A = 1 .. b - 1
  <2>1. \A j \in A : j \in 1 .. b - 1
    BY <1>3, <1>5
  <2>2. \A j \in 1 .. b - 1 : j \in 1 .. n + 1 /\ j < b
    BY <1>3
  <2>3. \A j \in 1 .. b - 1 : j \in A
    BY <1>4, <2>2
  <2> QED BY <2>1, <2>3
<1>7. b - 1 \in 0 .. n /\ b - 1 \in Nat
  BY <1>3
<1>8. Cardinality(1 .. b - 1) = b - 1
  BY <1>7, FS_Interval
<1> QED BY <1>6, <1>7, <1>8

LEMMA PairsOfType ==
  ASSUME sec \in [Sector -> Content], NEW s \in Sector
  PROVE  /\ s = Null \/ sec[s].tag # "list" => PairsOf[s] = <<>>
         /\ PairsOf[s] \in Seq(PairSet(s))
<1>1. CASE s = Null \/ sec[s].tag # "list"
  BY <1>1 DEF PairsOf
<1>2. CASE s # Null /\ sec[s].tag = "list"
  <2>1. PICK pairs \in Seq(Sector) : pairs = sec[s].pairs
    BY <1>2 DEF Content
  <2>2. PICK n : n = Len(pairs)
    OBVIOUS
  <2>3. n \in Nat /\ DOMAIN pairs = 1 .. n
    BY <2>1, <2>2
  <2>4. PICK A : A = {j \in DOMAIN pairs : \A h \in 1 .. j : pairs[h] # Null}
    OBVIOUS
  <2>5. A \in SUBSET (1 .. n) /\ \A j \in A : \A h \in 1 .. j : h \in A
    BY <2>3, <2>4
  <2>6. PICK c : c = Cardinality(A)
    OBVIOUS
  <2>7. c \in 0 .. n /\ A = 1 .. c
    BY <2>3, <2>5, <2>6, InitialSegment
  <2>8. PairsOf[s] = SubSeq(pairs, 1, c)
    BY <1>2, <2>1, <2>4, <2>6 DEF PairsOf
  <2>9. /\ Len(SubSeq(pairs, 1, c)) = c
        /\ \A j \in 1 .. c : SubSeq(pairs, 1, c)[j] = pairs[j]
        /\ SubSeq(pairs, 1, c) \in Seq(Sector)
    BY <2>1, <2>2, <2>3, <2>7
  <2>10. \A j \in 1 .. c : pairs[j] \in PairSet(s)
    BY <1>2, <2>1, <2>4, <2>7 DEF PairSet
  <2>11. SubSeq(pairs, 1, c) \in Seq(PairSet(s))
    BY <2>7, <2>9, <2>10
  <2> QED BY <1>2, <2>8, <2>11
<1> QED BY <1>1, <1>2

(* What is read of a chain of lists: data sectors of the file, and first   *)
(* the pairs of the first list.                                            *)
LEMMA OrderType ==
  ASSUME sec \in [Sector -> Content], NEW start \in Sector \ {Null}
  PROVE  /\ ReadOrder(start) \in Seq(DataSectors(start))
         /\ PairsOf[start] \in Seq(DataSectors(start))
         /\ \E rest \in Seq(DataSectors(start)) : ReadOrder(start) = PairsOf[start] \o rest
<1>1. NextOf \in [Sector -> Sector]
  BY NextOfType
<1>2. \A k \in 1 .. NumSectors : Chain(NextOf, start)[k] \in Sector
  BY <1>1, ChainInside
<1>3. 1 \in 1 .. NumSectors
  BY VolumeAssumption
<1>4. Chain(NextOf, start)[1] = start
  BY <1>1, <1>3, ChainWalks
<1>5. PICK T : T = DataSectors(start)
  OBVIOUS
<1>6. PICK lists : lists = [k \in 1 .. NumSectors |-> PairsOf[Chain(NextOf, start)[k]]]
  OBVIOUS
<1>7. ASSUME NEW k \in 1 .. NumSectors
      PROVE  lists[k] \in Seq(T)
  <2>1. PICK s \in Sector : s = Chain(NextOf, start)[k]
    BY <1>2
  <2>2. lists[k] = PairsOf[s]
    BY <1>6, <2>1
  <2>3. CASE s = Null
    <3>1. PairsOf[s] = <<>>
      BY <2>3, PairsOfType
    <3> QED BY <2>2, <3>1
  <2>4. CASE s # Null
    <3>1. s \in ListSectors(start)
      BY <2>1, <2>4 DEF ListSectors
    <3>2. PairSet(s) \subseteq T
      BY <1>5, <3>1 DEF DataSectors
    <3>3. PairsOf[s] \in Seq(PairSet(s))
      BY PairsOfType
    <3>4. \A A, B : A \subseteq B => Seq(A) \subseteq Seq(B)
      OBVIOUS
    <3> QED BY <2>2, <3>2, <3>3, <3>4
  <2> QED BY <2>3, <2>4
<1>8. lists \in [1 .. NumSectors -> Seq(T)]
  <2>1. lists = [k \in 1 .. NumSectors |-> lists[k]]
    BY <1>6
  <2> QED BY <1>7, <2>1
<1>9. /\ Appended(lists) \in Seq(T)
      /\ \E rest \in Seq(T) : Appended(lists) = lists[1] \o rest
  BY <1>8, AppendedLists
<1>10. lists[1] = PairsOf[start]
  BY <1>3, <1>4, <1>6
<1>11. ReadOrder(start) = Appended(lists)
  BY <1>6 DEF ReadOrder
<1>12. lists[1] \in Seq(T)
  BY <1>3, <1>7
<1> QED BY <1>5, <1>9, <1>10, <1>11, <1>12

LEMMA OrderInside ==
  ASSUME TypeOK, NEW i \in Slot, InUse(i)
  PROVE  \A j \in 1 .. Len(ReadOrder(cat[i].start)) : ReadOrder(cat[i].start)[j] \in Footprint(i)
<1>1. PICK start : start = cat[i].start
  OBVIOUS
<1>2. start \in Sector \ {Null}
  BY <1>1, FootprintType
<1>3. ReadOrder(start) \in Seq(DataSectors(start))
  BY <1>2, OrderType DEF TypeOK
<1>4. DataSectors(start) \subseteq Footprint(i)
  BY <1>1 DEF Footprint
<1>5. PICK order : order = ReadOrder(start)
  OBVIOUS
<1>6. \A j \in 1 .. Len(order) : order[j] \in DataSectors(start)
  BY <1>3, <1>5
<1> QED BY <1>1, <1>4, <1>5, <1>6

(* A file that is kept is read in the same order, and holds the same.      *)
LEMMA OrderFrame ==
  ASSUME TypeOK, sec' \in [Sector -> Content], NEW i \in Slot, InUse(i),
         cat'[i].start = cat[i].start,
         \A s \in Footprint(i) : sec'[s] = sec[s]
  PROVE  ReadOrder(cat[i].start)' = ReadOrder(cat[i].start)
<1>1. PICK start : start = cat[i].start
  OBVIOUS
<1>2. \A k \in 1 .. NumSectors :
        /\ Chain(NextOf, start)[k] \in Sector
        /\ Chain(NextOf', start)[k] = Chain(NextOf, start)[k]
  BY <1>1, ChainKept
<1>3. PICK old, new :
        /\ old = [k \in 1 .. NumSectors |-> PairsOf[Chain(NextOf, start)[k]]]
        /\ new = [k \in 1 .. NumSectors |-> PairsOf'[Chain(NextOf', start)[k]]]
  OBVIOUS
<1>4. \A k \in 1 .. NumSectors : new[k] = old[k]
  <2> TAKE k \in 1 .. NumSectors
  <2>1. PICK s \in Sector : s = Chain(NextOf, start)[k]
    BY <1>2
  <2>2. s # Null => s \in Footprint(i)
    BY <1>1, <2>1 DEF Footprint, ListSectors
  <2>3. s # Null => sec'[s] = sec[s]
    BY <2>2
  <2>4. PairsOf'[s] = PairsOf[s]
    BY <2>3 DEF PairsOf
  <2> QED BY <1>2, <1>3, <2>1, <2>4
<1>5. new = old
  <2>1. new = [k \in 1 .. NumSectors |-> new[k]] /\ old = [k \in 1 .. NumSectors |-> old[k]]
    BY <1>3
  <2> QED BY <1>4, <2>1
<1>6. ReadOrder(start) = Appended(old)
  BY <1>3 DEF ReadOrder
<1>7. ReadOrder(cat[i].start)' = Appended(new)
  BY <1>1, <1>3 DEF ReadOrder
<1> QED BY <1>1, <1>5, <1>6, <1>7

LEMMA KeptHolds ==
  ASSUME TypeOK, sec' \in [Sector -> Content], NEW i \in Slot, InUse(i),
         cat'[i].start = cat[i].start,
         \A s \in Footprint(i) : sec'[s] = sec[s]
  PROVE  Payload(i)' = Payload(i)
<1>1. PICK order : order = ReadOrder(cat[i].start)
  OBVIOUS
<1>2. ReadOrder(cat[i].start)' = order
  BY <1>1, OrderFrame
<1>3. \A j \in 1 .. Len(order) : sec'[order[j]] = sec[order[j]]
  BY <1>1, OrderInside
<1>4. order \in Seq(Sector)
  <2>1. cat[i].start \in Sector \ {Null} /\ Footprint(i) \subseteq Sector \ {Null}
    BY FootprintType
  <2>2. order \in Seq(DataSectors(cat[i].start))
    BY <1>1, <2>1, OrderType DEF TypeOK
  <2>3. DataSectors(cat[i].start) \subseteq Sector
    BY <2>1 DEF Footprint
  <2>4. \A A, B : A \subseteq B => Seq(A) \subseteq Seq(B)
    OBVIOUS
  <2> QED BY <2>2, <2>3, <2>4
<1>5. ASSUME NEW p \in Payloads
      PROVE  Holds(i, p)' <=> Holds(i, p)
  <2>1. PICK c : c = Chunks(p)
    OBVIOUS
  <2>2. c \in Nat
    BY <2>1, BlockCounts
  <2>3. Holds(i, p) <=> /\ c <= Len(order)
                        /\ \A j \in 1 .. c : sec[order[j]] = [tag |-> "data", payload |-> p, chunk |-> j]
    BY <1>1, <2>1 DEF Holds
  <2>4. Holds(i, p)' <=> /\ c <= Len(order)
                         /\ \A j \in 1 .. c : sec'[order[j]] = [tag |-> "data", payload |-> p, chunk |-> j]
    BY <1>2, <2>1 DEF Holds
  <2>5. c <= Len(order) => \A j \in 1 .. c : j \in 1 .. Len(order)
    BY <1>4, <2>2
  <2>6. c <= Len(order) => \A j \in 1 .. c : sec'[order[j]] = sec[order[j]]
    BY <1>3, <2>5
  <2> QED BY <2>3, <2>4, <2>6
<1> QED BY <1>5 DEF Payload

OrderTyped(start) ==
  /\ ReadOrder(start) \in Seq(DataSectors(start))
  /\ PairsOf[start] \in Seq(DataSectors(start))
  /\ \E rest \in Seq(DataSectors(start)) : ReadOrder(start) = PairsOf[start] \o rest

OrdersTyped == sec \in [Sector -> Content] => \A start \in Sector \ {Null} : OrderTyped(start)

LEMMA OrderAlways == OrdersTyped
BY OrderType DEF OrdersTyped, OrderTyped

(* A file whose chunks are all linked reads back as it was stored: the     *)
(* first list names its data blocks in order.                              *)
LEMMA StoredPairs ==
  ASSUME TypeOK,
         NEW f \in SUBSET (Sector \ {Null}), NEW p \in Payloads, HasRoom(f, p),
         sec' = SectorsWith(f, p),
         NEW start, start = ListAt(f, p, 1)
  PROVE  PairsOf'[start] = [j \in 1 .. Linked(p) |-> DataAt(f, p, j)]
<1>1. PICK n : n = Linked(p)
  OBVIOUS
<1>2. n \in Nat /\ n \in 1 .. DataBlocks(p) /\ \A j \in 1 .. n : j \in 1 .. DataBlocks(p)
  BY <1>1, BlockCounts
<1>3. 1 \in 1 .. ListBlocks(p)
  BY BlockCounts
<1>4. start \in Sector \ {Null}
  BY <1>3, BlocksOfFile
<1>5. sec'[start] = ListContent(f, p, 1)
  BY <1>3, StoredSectors DEF TypeOK
<1>6. PICK pairs : pairs = [j \in 1 .. n |-> DataAt(f, p, j)]
  OBVIOUS
<1>7. sec'[start].tag = "list" /\ sec'[start].pairs = pairs
  BY <1>1, <1>5, <1>6 DEF ListContent
<1>8. \A j \in 1 .. n : pairs[j] \in Sector /\ pairs[j] # Null
  BY <1>2, <1>6, BlocksOfFile
<1>9. pairs \in Seq(Sector) /\ Len(pairs) = n /\ DOMAIN pairs = 1 .. n
  BY <1>2, <1>6, <1>8
<1>10. {j \in DOMAIN pairs : \A h \in 1 .. j : pairs[h] # Null} = 1 .. n
  <2>1. \A j \in 1 .. n : \A h \in 1 .. j : h \in 1 .. n
    BY <1>2
  <2> QED BY <1>8, <1>9, <2>1
<1>11. Cardinality(1 .. n) = n
  BY <1>2, FS_Interval
<1>12. PairsOf'[start] = SubSeq(pairs, 1, n)
  BY <1>4, <1>7, <1>10, <1>11 DEF PairsOf
<1>13. SubSeq(pairs, 1, n) = pairs
  BY <1>9
<1> QED BY <1>1, <1>6, <1>12, <1>13

LEMMA StoredReadsBack ==
  ASSUME TypeOK,
         NEW f \in SUBSET (Sector \ {Null}), NEW p \in Payloads, HasRoom(f, p),
         sec' = SectorsWith(f, p), Chunks(p) <= MaxPairs,
         NEW i, cat'[i].start = ListAt(f, p, 1)
  PROVE  Payload(i)' = p
<1>1. PICK start, pairs, n, c :
        /\ start = ListAt(f, p, 1) /\ n = Linked(p) /\ c = Chunks(p)
        /\ pairs = [j \in 1 .. Linked(p) |-> DataAt(f, p, j)]
  OBVIOUS
<1>2. PairsOf'[start] = pairs
  BY <1>1, StoredPairs
<1>3. start \in Sector \ {Null}
  <2>1. 1 \in 1 .. ListBlocks(p)
    BY BlockCounts
  <2> QED BY <1>1, <2>1, BlocksOfFile
<1>4. n \in Nat /\ c \in 1 .. n
  <2>1. Chunks(p) \in 1 .. DataBlocks(p) /\ DataBlocks(p) \in Nat /\ MaxPairs \in Nat
    BY BlockCounts, PayloadAssumption
  <2> QED BY <1>1, <2>1 DEF Linked
<1>5. sec' \in [Sector -> Content]
  BY StoredSectors DEF TypeOK
<1>6. OrderTyped(start)'
  <2>1. OrdersTyped'
    BY OrderAlways, PTL
  <2> QED BY <1>3, <1>5, <2>1 DEF OrdersTyped
<1>7. PICK T : T = DataSectors(start)'
  OBVIOUS
<1>8. pairs \in Seq(T) /\ \E rest \in Seq(T) : ReadOrder(start)' = pairs \o rest
  BY <1>2, <1>6, <1>7 DEF OrderTyped
<1>9. PICK rest \in Seq(T), order \in {ReadOrder(start)'} : order = pairs \o rest
  BY <1>8
<1>10. Len(pairs) = n
  BY <1>1, <1>4
<1>11. /\ c <= Len(order)
       /\ \A j \in 1 .. c : order[j] = pairs[j]
  BY <1>4, <1>8, <1>9, <1>10
<1>12. \A j \in 1 .. c : sec'[order[j]] = [tag |-> "data", payload |-> p, chunk |-> j]
  <2>1. \A j \in 1 .. c : pairs[j] = DataAt(f, p, j)
    BY <1>1, <1>4
  <2>2. \A j \in 1 .. c : sec'[DataAt(f, p, j)] = [tag |-> "data", payload |-> p, chunk |-> j]
    BY <1>1, StoredSectors DEF TypeOK
  <2> QED BY <1>11, <2>1, <2>2
<1>13. ReadOrder(cat[i].start)' = order
  BY <1>1, <1>9
<1>14. Holds(i, p)'
  BY <1>1, <1>11, <1>12, <1>13 DEF Holds
<1>15. ASSUME NEW q \in Payloads, Holds(i, q)'
       PROVE  q = p
  <2>1. \A j \in 1 .. Chunks(q) : sec'[order[j]] = [tag |-> "data", payload |-> q, chunk |-> j]
    BY <1>13, <1>15 DEF Holds
  <2>2. PICK one : one = 1
    OBVIOUS
  <2>3. one \in 1 .. Chunks(q) /\ one \in 1 .. c
    BY <1>4, <2>2, BlockCounts
  <2>4. sec'[order[one]] = [tag |-> "data", payload |-> q, chunk |-> one]
    BY <2>1, <2>3
  <2>5. sec'[order[one]] = [tag |-> "data", payload |-> p, chunk |-> one]
    BY <1>12, <2>3
  <2> QED BY <2>4, <2>5
<1> QED BY <1>14, <1>15 DEF Payload

------------------------------------------------------------------------------
(***************************************************************************)
(* What the reader finds.                                                  *)
(***************************************************************************)
LEMMA KeptPayload ==
  ASSUME IInv, IInv', NEW j \in Slot, InUse(j), Kept(j)
  PROVE  Payload(j)' = Payload(j) /\ FileOf(j)' = FileOf(j)
<1>1. Payload(j)' = Payload(j)
  BY KeptHolds DEF IInv, TypeOK, Kept
<1> QED BY <1>1 DEF FileOf, Kept

LEMMA EditedPayload ==
  ASSUME IInv, IInv', NEW i, NEW e, NEW arg, Edits(i, e, arg)
  PROVE  Payload(i)' = Payload(i)
BY KeptHolds DEF IInv, TypeOK, Edits

LEMMA PutPayload ==
  ASSUME IInv, NEW i, NEW f, NEW arg \in Typed, NEW k \in Kinds, NEW p \in Payloads,
         Puts(i, f, arg, k, p), Chunks(p) <= MaxPairs
  PROVE  Payload(i)' = p
<1>1. cat'[i].start = ListAt(f, p, 1)
  BY DEF Puts, FileStored
<1> QED BY <1>1, StoredReadsBack DEF Puts, StoreFile, IInv

LEMMA PayloadType ==
  ASSUME NEW i
  PROVE  Payload(i) \in Payloads \cup {Garbled}
BY DEF Payload

LEMMA ReadsNext ==
  ASSUME \A p \in Payloads : Chunks(p) <= MaxPairs, IInv, IInv', ReadsBack, [Next]_vars
  PROVE  ReadsBack'
<1>1. ASSUME NEW i, NEW f, NEW arg \in Typed, NEW k \in Kinds, NEW p \in Payloads, Puts(i, f, arg, k, p)
      PROVE  ReadsBack'
  <2>1. /\ \A j \in Slot : InUse(j)' <=> (InUse(j) /\ j # i) \/ j = i
        /\ \A j \in Slot \ {i} : InUse(j) => Kept(j)
    BY <1>1, OthersOf DEF Puts, FileStored
  <2>2. Payload(i)' # Garbled
    BY <1>1, PutPayload, GarbledAssumption
  <2>3. \A j \in Slot \ {i} : InUse(j) => Payload(j)' = Payload(j)
    BY <2>1, KeptPayload
  <2> QED BY <2>1, <2>2, <2>3 DEF ReadsBack
<1>2. ASSUME NEW i, NEW arg \in Typed, Clears(i, arg)
      PROVE  ReadsBack'
  <2>1. \A j \in Slot : InUse(j)' => j # i /\ InUse(j)
    BY <1>2 DEF Clears, InUse
  <2>2. \A j \in Slot \ {i} : InUse(j) => Payload(j)' = Payload(j)
    BY <1>2, OthersOf, KeptPayload DEF Clears
  <2> QED BY <2>1, <2>2 DEF ReadsBack
<1>3. ASSUME NEW i, NEW e, NEW arg \in Typed, Edits(i, e, arg)
      PROVE  ReadsBack'
  <2>1. \A j \in Slot : InUse(j)' => InUse(j)
    BY <1>3 DEF Edits, InUse
  <2>2. Payload(i)' = Payload(i)
    BY <1>3, EditedPayload
  <2>3. \A j \in Slot \ {i} : InUse(j) => Payload(j)' = Payload(j)
    BY <1>3, OthersOf, KeptPayload DEF Edits
  <2> QED BY <2>1, <2>2, <2>3 DEF ReadsBack
<1>4. ASSUME Leaves PROVE ReadsBack'
  <2>1. \A j \in Slot : InUse(j)' => InUse(j)
    BY <1>4 DEF Leaves, InUse
  <2>2. \A j \in Slot : InUse(j) => Payload(j)' = Payload(j)
    BY <1>4, KeptPayload DEF Leaves
  <2> QED BY <2>1, <2>2 DEF ReadsBack
<1> QED BY <1>1, <1>2, <1>3, <1>4, StepCases DEF Locks, Renames

(* A volume whose files fit one T/S list each reads every file back as it  *)
(* was stored, whatever was written, removed and renamed around it: what   *)
(* AppleDOSWriteFile links is what AppleDOSReadFile follows.  The run      *)
(* large_readback shows what happens to a file that needs a second list.   *)
THEOREM FilesReadBack ==
  ASSUME \A p \in Payloads : Chunks(p) <= MaxPairs
  PROVE  Spec => []ReadsBack
<1>1. Init => ReadsBack
  BY DEF Init, ReadsBack, InUse
<1>2. IInv /\ IInv' /\ ReadsBack /\ [Next]_vars => ReadsBack'
  BY ReadsNext
<1> QED BY <1>1, <1>2, Invariance, PTL DEF Spec

------------------------------------------------------------------------------
(***************************************************************************)
(* The refinement: the entries are the files of FileStore.                 *)
(***************************************************************************)
EntriesAreFiles ==
  TypeOK /\ UniqueNames =>
    /\ FilesOnVolume = [n \in Names |-> FilesOnVolume[n]]
    /\ \A i \in Slot : InUse(i) => cat[i].name \in Names /\ FilesOnVolume[cat[i].name] = FileOf(i)
    /\ \A n \in Names : \/ FilesOnVolume[n] = Missing /\ \A i \in Slot : InUse(i) => cat[i].name # n
                        \/ \E i \in Slot : InUse(i) /\ cat[i].name = n

LEMMA FilesByEntry == EntriesAreFiles
<1> SUFFICES ASSUME TypeOK, UniqueNames
             PROVE  /\ FilesOnVolume = [n \in Names |-> FilesOnVolume[n]]
                    /\ \A i \in Slot : InUse(i) => cat[i].name \in Names /\ FilesOnVolume[cat[i].name] = FileOf(i)
                    /\ \A n \in Names : \/ FilesOnVolume[n] = Missing /\ \A i \in Slot : InUse(i) => cat[i].name # n
                                        \/ \E i \in Slot : InUse(i) /\ cat[i].name = n
  BY DEF EntriesAreFiles
<1>1. FilesOnVolume = [n \in Names |-> FilesOnVolume[n]]
  BY DEF FilesOnVolume
<1>2. \A n \in Names : FilesOnVolume[n] =
        IF NamedCatalogEntry(n) = NoSlot THEN Missing ELSE FileOf(NamedCatalogEntry(n))
  BY DEF FilesOnVolume
<1>3. ASSUME NEW i \in Slot, InUse(i)
      PROVE  cat[i].name \in Names /\ FilesOnVolume[cat[i].name] = FileOf(i)
  <2>1. PICK n : n = cat[i].name
    OBVIOUS
  <2>2. n \in Names
    BY <1>3, <2>1, FootprintType DEF Entry
  <2>3. PICK h : h = NamedCatalogEntry(n)
    OBVIOUS
  <2>4. h # NoSlot /\ h = i
    BY <1>3, <2>1, <2>3, NameLookup DEF UniqueNames
  <2> QED BY <1>2, <2>1, <2>2, <2>3, <2>4
<1>4. ASSUME NEW n \in Names
      PROVE  \/ FilesOnVolume[n] = Missing /\ \A i \in Slot : InUse(i) => cat[i].name # n
             \/ \E i \in Slot : InUse(i) /\ cat[i].name = n
  BY <1>2, NameLookup
<1> QED BY <1>1, <1>3, <1>4

(* The files that no step names are the same after it.                     *)
LEMMA OtherFiles ==
  ASSUME IInv, IInv', UniqueNames, UniqueNames', NEW i, NEW n \in Names,
         \A j \in Slot \ {i} : InUse(j)' <=> InUse(j),
         \A j \in Others(i) : Kept(j),
         i \in Slot /\ InUse(i) => cat[i].name # n,
         i \in Slot /\ InUse(i)' => cat'[i].name # n
  PROVE  FilesOnVolume'[n] = FilesOnVolume[n]
<1>1. EntriesAreFiles /\ EntriesAreFiles'
  BY FilesByEntry, PTL
<1>2. ASSUME NEW j \in Slot, InUse(j), cat[j].name = n
      PROVE  FilesOnVolume'[n] = FilesOnVolume[n]
  <2>1. j # i /\ Kept(j) /\ InUse(j)'
    BY <1>2, OthersOf
  <2>2. FileOf(j)' = FileOf(j) /\ cat'[j].name = n
    BY <1>2, <2>1, KeptPayload DEF Kept
  <2>3. FilesOnVolume[n] = FileOf(j)
    BY <1>1, <1>2 DEF EntriesAreFiles, IInv
  <2>4. FilesOnVolume'[n] = FileOf(j)'
    BY <1>1, <2>1, <2>2 DEF EntriesAreFiles, IInv
  <2> QED BY <2>2, <2>3, <2>4
<1>3. ASSUME \A j \in Slot : InUse(j) => cat[j].name # n
      PROVE  FilesOnVolume'[n] = FilesOnVolume[n]
  <2>1. \A j \in Slot : InUse(j)' => cat'[j].name # n
    <3> TAKE j \in Slot
    <3>1. CASE j = i
      BY <3>1
    <3>2. CASE j # i
      BY <1>3, <3>2, OthersOf DEF Kept
    <3> QED BY <3>1, <3>2
  <2>2. FilesOnVolume[n] = Missing
    BY <1>1, <1>3 DEF EntriesAreFiles, IInv
  <2>3. FilesOnVolume'[n] = Missing
    BY <1>1, <2>1 DEF EntriesAreFiles, IInv
  <2> QED BY <2>2, <2>3
<1> QED BY <1>2, <1>3

(* What a step makes of the files, seen by name.                           *)
LEMMA FileIsThere ==
  ASSUME TypeOK, NEW i \in Slot, InUse(i)
  PROVE  FileOf(i) # Missing
<1>1. cat[i].kind \in Kinds /\ cat[i].locked \in BOOLEAN
  BY FootprintType DEF Entry
<1>2. Payload(i) \in Payloads \cup {Garbled}
  BY PayloadType
<1> QED BY <1>1, <1>2, MissingAssumption DEF FileOf

LEMMA PutIsPut ==
  ASSUME LongNames = {}, \A p \in Payloads : Chunks(p) <= MaxPairs,
         IInv, IInv', UniqueNames, UniqueNames',
         NEW i, NEW f, NEW arg \in Typed, NEW k \in Kinds, NEW p \in Payloads,
         Puts(i, f, arg, k, p)
  PROVE  Store!Put(arg, k, p)
<1>1. arg \in Names /\ Stored(arg) = arg
  BY DEF Typed, Stored
<1>2. EntriesAreFiles /\ EntriesAreFiles'
  BY FilesByEntry, PTL
<1>3. /\ i \in Slot /\ InUse(i)'
      /\ cat'[i].name = arg /\ cat'[i].kind = k /\ cat'[i].locked = FALSE
      /\ \A j \in Slot \ {i} : InUse(j)' <=> InUse(j)
      /\ \A j \in Others(i) : Kept(j)
  BY <1>1, OthersOf DEF Puts, FileStored
<1>4. FilesOnVolume'[arg] = [kind |-> k, payload |-> p, locked |-> FALSE]
  <2>1. Payload(i)' = p
    BY PutPayload
  <2>2. FileOf(i)' = [kind |-> k, payload |-> p, locked |-> FALSE]
    BY <1>3, <2>1 DEF FileOf
  <2>3. FilesOnVolume'[arg] = FileOf(i)'
    BY <1>2, <1>3 DEF EntriesAreFiles, IInv
  <2> QED BY <2>2, <2>3
<1>5. \A n \in Names \ {arg} : FilesOnVolume'[n] = FilesOnVolume[n]
  <2> TAKE n \in Names \ {arg}
  <2>1. InUse(i) => cat[i].name # n
    BY NameLookup DEF Puts, Slot, NoSlot
  <2> QED BY <1>3, <2>1, OtherFiles
<1>6. FilesOnVolume' = [FilesOnVolume EXCEPT ![arg] = [kind |-> k, payload |-> p, locked |-> FALSE]]
  <2>1. /\ FilesOnVolume = [n \in Names |-> FilesOnVolume[n]]
        /\ FilesOnVolume' = [n \in Names |-> FilesOnVolume'[n]]
    BY <1>2 DEF EntriesAreFiles, IInv
  <2> QED BY <1>1, <1>4, <1>5, <2>1
<1>7. FilesOnVolume[arg] # Missing => FilesOnVolume[arg].kind = k
  <2>1. CASE NamedCatalogEntry(arg) = NoSlot
    <3>1. \A j \in Slot : InUse(j) => cat[j].name # arg
      BY <2>1, NameLookup
    <3> QED BY <1>1, <1>2, <3>1 DEF EntriesAreFiles, IInv
  <2>2. CASE NamedCatalogEntry(arg) = i /\ InUse(i) /\ cat[i].kind = k
    <3>1. cat[i].name = arg
      BY <1>3, <2>2, NameLookup DEF Slot, NoSlot
    <3>2. FilesOnVolume[arg] = FileOf(i)
      BY <1>2, <1>3, <2>2, <3>1 DEF EntriesAreFiles, IInv
    <3> QED BY <2>2, <3>2 DEF FileOf
  <2> QED BY <2>1, <2>2 DEF Puts
<1> QED BY <1>6, <1>7 DEF Store!Put, Store!Present, Store!MayGo

LEMMA ClearIsDrop ==
  ASSUME LongNames = {}, IInv, IInv', UniqueNames, UniqueNames',
         NEW i, NEW arg \in Typed, Clears(i, arg)
  PROVE  Store!Drop(arg)
<1>1. arg \in Names
  BY DEF Typed
<1>2. EntriesAreFiles /\ EntriesAreFiles'
  BY FilesByEntry, PTL
<1>3. /\ i \in Slot /\ InUse(i) /\ ~InUse(i)'
      /\ \A j \in Slot \ {i} : InUse(j)' <=> InUse(j)
      /\ \A j \in Others(i) : Kept(j)
  BY DEF Clears, InUse
<1>4. cat[i].name = arg
  BY NameLookup DEF Clears, Slot, NoSlot
<1>5. FilesOnVolume[arg] # Missing
  BY <1>2, <1>3, <1>4, FileIsThere DEF EntriesAreFiles, IInv
<1>6. FilesOnVolume'[arg] = Missing
  <2>1. \A j \in Slot : InUse(j)' => cat'[j].name # arg
    <3> TAKE j \in Slot
    <3> HAVE InUse(j)'
    <3>1. j # i /\ InUse(j) /\ cat'[j] = cat[j]
      BY <1>3 DEF Clears
    <3> QED BY <1>3, <1>4, <3>1 DEF UniqueNames
  <2> QED BY <1>1, <1>2, <2>1 DEF EntriesAreFiles, IInv
<1>7. \A n \in Names \ {arg} : FilesOnVolume'[n] = FilesOnVolume[n]
  BY <1>3, <1>4, OtherFiles
<1>8. FilesOnVolume' = [FilesOnVolume EXCEPT ![arg] = Missing]
  <2>1. /\ FilesOnVolume = [n \in Names |-> FilesOnVolume[n]]
        /\ FilesOnVolume' = [n \in Names |-> FilesOnVolume'[n]]
    BY <1>2 DEF EntriesAreFiles, IInv
  <2> QED BY <1>1, <1>6, <1>7, <2>1
<1> QED BY <1>5, <1>8 DEF Store!Drop, Store!Present, Store!MayGo

LEMMA LockIsSetLocked ==
  ASSUME LongNames = {}, IInv, IInv', UniqueNames, UniqueNames',
         NEW i, NEW e, NEW arg \in Typed, NEW lock \in BOOLEAN, Locks(i, e, arg, lock)
  PROVE  Store!SetLocked(arg, lock)
<1>1. arg \in Names
  BY DEF Typed
<1>2. EntriesAreFiles /\ EntriesAreFiles'
  BY FilesByEntry, PTL
<1>3. /\ i \in Slot /\ InUse(i) /\ cat[i] \in Entry /\ cat'[i] = e
      /\ Edits(i, e, arg) /\ InUse(i)'
      /\ \A j \in Slot \ {i} : InUse(j)' <=> InUse(j)
      /\ \A j \in Others(i) : Kept(j)
  BY UnusedAssumption DEF Locks, Edits, InUse
<1>4. cat[i].name = arg
  BY <1>3, NameLookup DEF Edits, Slot, NoSlot
<1>5. e.name = arg /\ e.kind = cat[i].kind /\ e.locked = lock
  BY <1>3, <1>4 DEF Locks, Entry
<1>6. FilesOnVolume[arg] = FileOf(i) /\ FilesOnVolume'[arg] = FileOf(i)' /\ FilesOnVolume[arg] # Missing
  BY <1>2, <1>3, <1>4, <1>5, FileIsThere DEF EntriesAreFiles, IInv
<1>7. FileOf(i)' = [FileOf(i) EXCEPT !.locked = lock]
  BY <1>3, <1>5, EditedPayload DEF FileOf
<1>8. \A n \in Names \ {arg} : FilesOnVolume'[n] = FilesOnVolume[n]
  BY <1>3, <1>4, <1>5, OtherFiles
<1>9. FilesOnVolume' = [FilesOnVolume EXCEPT ![arg].locked = lock]
  <2>1. /\ FilesOnVolume = [n \in Names |-> FilesOnVolume[n]]
        /\ FilesOnVolume' = [n \in Names |-> FilesOnVolume'[n]]
    BY <1>2 DEF EntriesAreFiles, IInv
  <2>2. FilesOnVolume'[arg] = [FilesOnVolume[arg] EXCEPT !.locked = lock]
    BY <1>6, <1>7
  <2> QED BY <1>1, <1>8, <2>1, <2>2
<1> QED BY <1>6, <1>9 DEF Store!SetLocked, Store!Present

LEMMA RenameIsRename ==
  ASSUME LongNames = {}, IInv, IInv', UniqueNames, UniqueNames',
         NEW i, NEW e, NEW arg \in Typed, NEW newarg \in Typed, Renames(i, e, arg, newarg)
  PROVE  Store!Rename(arg, newarg)
<1>1. arg \in Names /\ newarg \in Names /\ Stored(newarg) = newarg
  BY DEF Typed, Stored
<1>2. EntriesAreFiles /\ EntriesAreFiles'
  BY FilesByEntry, PTL
<1>3. /\ i \in Slot /\ InUse(i) /\ cat[i] \in Entry /\ cat'[i] = e
      /\ Edits(i, e, arg) /\ InUse(i)'
      /\ \A j \in Slot \ {i} : InUse(j)' <=> InUse(j)
      /\ \A j \in Others(i) : Kept(j)
  BY UnusedAssumption DEF Renames, Edits, InUse
<1>4. cat[i].name = arg
  BY <1>3, NameLookup DEF Edits, Slot, NoSlot
<1>5. e.name = newarg /\ e.kind = cat[i].kind /\ e.locked = cat[i].locked
  BY <1>1, <1>3 DEF Renames, Entry
<1>6. \A j \in Slot : InUse(j) => cat[j].name # newarg
  BY NameLookup DEF Renames
<1>7. newarg # arg
  BY <1>3, <1>4, <1>6
<1>8. FilesOnVolume[newarg] = Missing
  BY <1>1, <1>2, <1>6 DEF EntriesAreFiles, IInv
<1>9. FilesOnVolume[arg] = FileOf(i) /\ FilesOnVolume[arg] # Missing /\ FilesOnVolume'[newarg] = FileOf(i)'
  BY <1>2, <1>3, <1>4, <1>5, FileIsThere DEF EntriesAreFiles, IInv
<1>10. FileOf(i)' = FileOf(i)
  BY <1>3, <1>5, EditedPayload DEF FileOf
<1>11. FilesOnVolume'[arg] = Missing
  <2>1. \A j \in Slot : InUse(j)' => cat'[j].name # arg
    <3> TAKE j \in Slot
    <3> HAVE InUse(j)'
    <3>1. CASE j = i
      BY <1>3, <1>5, <1>7, <3>1
    <3>2. CASE j # i
      <4>1. InUse(j) /\ cat'[j] = cat[j]
        BY <1>3, <3>2 DEF Edits
      <4> QED BY <1>3, <1>4, <3>2, <4>1 DEF UniqueNames
    <3> QED BY <3>1, <3>2
  <2> QED BY <1>1, <1>2, <2>1 DEF EntriesAreFiles, IInv
<1>12. \A n \in Names \ {arg, newarg} : FilesOnVolume'[n] = FilesOnVolume[n]
  BY <1>3, <1>4, <1>5, OtherFiles
<1>13. FilesOnVolume' = [FilesOnVolume EXCEPT ![newarg] = FilesOnVolume[arg], ![arg] = Missing]
  <2>1. /\ FilesOnVolume = [n \in Names |-> FilesOnVolume[n]]
        /\ FilesOnVolume' = [n \in Names |-> FilesOnVolume'[n]]
    BY <1>2 DEF EntriesAreFiles, IInv
  <2> QED BY <1>1, <1>7, <1>9, <1>10, <1>11, <1>12, <2>1
<1> QED BY <1>8, <1>9, <1>13 DEF Store!Rename, Store!Present

LEMMA LeaveIsStutter ==
  ASSUME IInv, IInv', UniqueNames, UniqueNames', Leaves
  PROVE  UNCHANGED FilesOnVolume
<1>1. EntriesAreFiles /\ EntriesAreFiles'
  BY FilesByEntry, PTL
<1>2. PICK i : i = NoSlot
  OBVIOUS
<1>3. i \notin Slot
  BY <1>2 DEF Slot, NoSlot
<1>4. (\A j \in Slot : InUse(j)' <=> InUse(j)) /\ \A j \in Others(i) : Kept(j)
  BY OthersOf DEF Leaves, InUse, Others
<1>5. \A n \in Names : FilesOnVolume'[n] = FilesOnVolume[n]
  BY <1>3, <1>4, OtherFiles
<1>6. /\ FilesOnVolume = [n \in Names |-> FilesOnVolume[n]]
      /\ FilesOnVolume' = [n \in Names |-> FilesOnVolume'[n]]
  BY <1>1 DEF EntriesAreFiles, IInv
<1> QED BY <1>5, <1>6

(* A DOS 3.3 volume is a file store: every command of the program puts,    *)
(* drops, locks or renames the one file it names, and the reader finds     *)
(* every other file as it was.  It is so when nobody types a name of more  *)
(* than 30 characters and every file fits one T/S list; the code loses     *)
(* files beyond either.                                                    *)
THEOREM VolumeIsFileStore ==
  ASSUME LongNames = {}, \A p \in Payloads : Chunks(p) <= MaxPairs
  PROVE  Spec => ImplementsFileStore
<1>1. Init /\ IInv /\ UniqueNames => Store!Init
  <2> SUFFICES ASSUME Init, IInv, UniqueNames PROVE Store!Init
    OBVIOUS
  <2>1. \A i \in Slot : ~InUse(i)
    BY DEF Init, InUse
  <2>2. EntriesAreFiles
    BY FilesByEntry
  <2>3. \A n \in Names : FilesOnVolume[n] = Missing
    BY <2>1, <2>2 DEF EntriesAreFiles, IInv
  <2>4. FilesOnVolume = [n \in Names |-> FilesOnVolume[n]]
    BY <2>2 DEF EntriesAreFiles, IInv
  <2> QED BY <2>3, <2>4 DEF Store!Init
<1>2. IInv /\ IInv' /\ UniqueNames /\ UniqueNames' /\ [Next]_vars => [Store!Next]_FilesOnVolume
  <2> SUFFICES ASSUME IInv, IInv', UniqueNames, UniqueNames', [Next]_vars
               PROVE  Store!Next \/ UNCHANGED FilesOnVolume
    OBVIOUS
  <2>1. \A arg \in Typed : arg \in Names
    BY DEF Typed
  <2>2. ASSUME NEW i, NEW f, NEW arg \in Typed, NEW k \in Kinds, NEW p \in Payloads, Puts(i, f, arg, k, p)
        PROVE  Store!Next
    BY <2>1, <2>2, PutIsPut DEF Store!Next
  <2>3. ASSUME NEW i, NEW arg \in Typed, Clears(i, arg)
        PROVE  Store!Next
    BY <2>1, <2>3, ClearIsDrop DEF Store!Next
  <2>4. ASSUME NEW i, NEW e, NEW arg \in Typed, NEW lock \in BOOLEAN, Locks(i, e, arg, lock)
        PROVE  Store!Next
    BY <2>1, <2>4, LockIsSetLocked DEF Store!Next
  <2>5. ASSUME NEW i, NEW e, NEW arg \in Typed, NEW newarg \in Typed, Renames(i, e, arg, newarg)
        PROVE  Store!Next
    BY <2>1, <2>5, RenameIsRename DEF Store!Next
  <2>6. ASSUME Leaves PROVE UNCHANGED FilesOnVolume
    BY <2>6, LeaveIsStutter
  <2> QED BY <2>2, <2>3, <2>4, <2>5, <2>6, StepCases
<1> QED BY <1>1, <1>2, Invariance, NamesAlways, PTL DEF Spec, ImplementsFileStore, Store!Spec
================================================================================
