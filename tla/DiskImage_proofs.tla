--------------------------- MODULE DiskImage_proofs ---------------------------
(***************************************************************************)
(* Images of disks from mount to mount, for every set of disks in the      *)
(* layouts, sizes, names and headers that they can have, and up to twelve  *)
(* files: the files survive every session, an image that was saved is      *)
(* taken for what it was, and sectors and blocks do not overlap.           *)
(***************************************************************************)
EXTENDS DiskImage, NumberLemmas

------------------------------------------------------------------------------
(* Where sectors and blocks are.                                           *)

\* An order keeps the sectors of a track of 16 on the track.
LEMMA MapperRange ==
  ASSUME NEW l \in Layouts, NEW s \in 0 .. 15
  PROVE  Mapped(l, s) \in 0 .. 15
<1>1. CASE l \notin Interleaved
  BY <1>1 DEF Mapped
<1>2. CASE l \in Interleaved
  BY <1>2 DEF Mapped, Interleaved, SectorMapper
<1> QED BY <1>1, <1>2

\* No two of them change to one (the tables of SetSectorPointer).
LEMMA MapperInjective ==
  ASSUME NEW l \in Layouts, NEW s \in 0 .. 15, NEW r \in 0 .. 15, Mapped(l, s) = Mapped(l, r)
  PROVE  r = s
<1>1. CASE l \notin Interleaved
  BY <1>1 DEF Mapped
<1>2. CASE l = "DOS33Alt"
  BY <1>2 DEF Mapped, Interleaved, SectorMapper
<1>3. CASE l = "ProDOS"
  BY <1>3 DEF Mapped, Interleaved, SectorMapper
<1>4. CASE l = "DiversiDOS"
  BY <1>4 DEF Mapped, Interleaved, SectorMapper
<1> QED BY <1>1, <1>2, <1>3, <1>4 DEF Interleaved

\* A disk that is what its format says, in an order that its tracks can have.
KnownShape(dsk) ==
  /\ dsk.format \in DOMAIN DiskFormat \ {"NONE"} /\ dsk.shape = DiskFormat[dsk.format]
  /\ dsk.layout \in Layouts
  /\ dsk.layout \in Interleaved => dsk.shape.spt = 16
  /\ dsk.sectors \in Nat
  /\ \/ dsk.shape.spt * dsk.shape.tpd <= dsk.sectors
     \/ dsk.sectors = Sectors113K /\ dsk.shape.spt = 16
  /\ dsk.format = "PRODOS_400" => dsk.layout = "Linear"

\* The shapes there are.
LEMMA Shapes ==
  ASSUME NEW dsk, KnownShape(dsk)
  PROVE  \/ /\ dsk.shape.spt = 16 /\ dsk.shape.uspt \in {13, 16} /\ dsk.shape.tpd = 35
            /\ dsk.format \notin {"DOS_13", "PRODOS_400", "PRODOS_800"}
            /\ dsk.shape.uspt = 13 => dsk.format = "RDOS_3"
         \/ dsk.shape.spt = 13 /\ dsk.shape.uspt = 13 /\ dsk.shape.tpd = 35 /\ dsk.format \in {"DOS_13", "RDOS_32"}
         \/ /\ dsk.shape.spt = 20 /\ dsk.shape.uspt = 20 /\ dsk.shape.tpd = 80
            /\ dsk.format = "PRODOS_400"
         \/ /\ dsk.shape.spt = 40 /\ dsk.shape.uspt = 40 /\ dsk.shape.tpd = 80
            /\ dsk.format = "PRODOS_800"
BY DEF KnownShape, DiskFormat, Shape

\* A sector stays on its track,
LEMMA MappedFits ==
  ASSUME NEW dsk, KnownShape(dsk), NEW s \in 0 .. dsk.shape.uspt - 1
  PROVE  Mapped(dsk.layout, s) \in 0 .. dsk.shape.spt - 1
<1>1. CASE dsk.layout \notin Interleaved
  <2>1. Mapped(dsk.layout, s) = s
    BY <1>1 DEF Mapped
  <2> QED BY <2>1, Shapes
<1>2. CASE dsk.layout \in Interleaved
  BY <1>2, Shapes, MapperRange DEF KnownShape
<1> QED BY <1>1, <1>2

\* and no two come to one place on it.
LEMMA MappedApart ==
  ASSUME NEW dsk, KnownShape(dsk), NEW s \in 0 .. dsk.shape.uspt - 1, NEW r \in 0 .. dsk.shape.uspt - 1,
         Mapped(dsk.layout, s) = Mapped(dsk.layout, r)
  PROVE  s = r
<1>1. CASE dsk.layout \notin Interleaved
  BY <1>1 DEF Mapped
<1>2. CASE dsk.layout \in Interleaved
  BY <1>2, Shapes, MapperInjective DEF KnownShape
<1> QED BY <1>1, <1>2

\* Two sectors of a disk are at two places, whatever their tracks.
LEMMA SectorsHavePlaces ==
  ASSUME NEW dsk, KnownShape(dsk),
         NEW t \in Nat, NEW s \in 0 .. dsk.shape.uspt - 1,
         NEW u \in Nat, NEW r \in 0 .. dsk.shape.uspt - 1,
         SectorPointer(dsk, t, s) = SectorPointer(dsk, u, r)
  PROVE  t = u /\ s = r
<1>1. PICK m : m = Mapped(dsk.layout, s) OBVIOUS
<1>2. PICK n : n = Mapped(dsk.layout, r) OBVIOUS
<1>3. m \in 0 .. dsk.shape.spt - 1 /\ n \in 0 .. dsk.shape.spt - 1
  BY <1>1, <1>2, MappedFits
<1>4. t * dsk.shape.spt + m = u * dsk.shape.spt + n
  BY <1>1, <1>2 DEF SectorPointer
<1>5. t = u /\ m = n
  BY <1>3, <1>4, Shapes
<1> QED BY <1>5, <1>1, <1>2, MappedApart

\* All are within the tracks of the disk.
LEMMA PlacesFit ==
  ASSUME NEW dsk, KnownShape(dsk),
         NEW t \in 0 .. dsk.shape.tpd - 1, NEW s \in 0 .. dsk.shape.uspt - 1
  PROVE  SectorPointer(dsk, t, s) \in 0 .. dsk.shape.spt * dsk.shape.tpd - 1
<1>1. PICK m : m = Mapped(dsk.layout, s) OBVIOUS
<1>2. m \in 0 .. dsk.shape.spt - 1
  BY <1>1, MappedFits
<1>3. SectorPointer(dsk, t, s) = t * dsk.shape.spt + m
  BY <1>1 DEF SectorPointer
<1> QED BY <1>2, <1>3, Shapes

Pair(dsk, k) == GetBlockSectors(dsk, k).pair

\* The blocks of a track are made of its sectors, each once
\* (PRODOSGetBlockSectors, by its table and by its rule).
LEMMA PairsOfTrack ==
  ASSUME NEW dsk, KnownShape(dsk), IsProDOS(dsk)
  PROVE  /\ \A k \in 0 .. BlocksPerTrack(dsk) - 1, h \in {1, 2} : Pair(dsk, k)[h] \in 0 .. dsk.shape.uspt - 1
         /\ \A k, l \in 0 .. BlocksPerTrack(dsk) - 1, g, h \in {1, 2} :
              Pair(dsk, k)[g] = Pair(dsk, l)[h] => k = l /\ g = h
         /\ \A s \in 0 .. dsk.shape.uspt - 1 :
              \E k \in 0 .. BlocksPerTrack(dsk) - 1, h \in {1, 2} : Pair(dsk, k)[h] = s
<1>1. BlocksPerTrack(dsk) \in {8, 10, 20} /\ dsk.shape.uspt = 2 * BlocksPerTrack(dsk)
  BY Shapes DEF BlocksPerTrack, IsProDOS
<1>2. CASE dsk.layout = "Linear" \/ dsk.sectors >= Sectors800K
  <2>1. \A k \in 0 .. BlocksPerTrack(dsk) - 1 : Pair(dsk, k) = <<2 * k, 2 * k + 1>>
    BY <1>1, <1>2 DEF Pair, GetBlockSectors
  <2>2. ASSUME NEW s \in 0 .. dsk.shape.uspt - 1
        PROVE  \E k \in 0 .. BlocksPerTrack(dsk) - 1, h \in {1, 2} : Pair(dsk, k)[h] = s
    <3>1. PICK k \in Int : s = 2 * k \/ s = 2 * k + 1
      <4>1. s = 2 * (s \div 2) \/ s = 2 * (s \div 2) + 1
        OBVIOUS
      <4> QED BY <4>1
    <3>2. k \in 0 .. BlocksPerTrack(dsk) - 1
      BY <1>1, <3>1
    <3>3. Pair(dsk, k)[1] = s \/ Pair(dsk, k)[2] = s
      BY <2>1, <3>1, <3>2
    <3> QED BY <3>2, <3>3
  <2>3. \A k \in 0 .. BlocksPerTrack(dsk) - 1 : Pair(dsk, k)[1] = 2 * k /\ Pair(dsk, k)[2] = 2 * k + 1
    BY <2>1
  <2>4. \A k \in 0 .. BlocksPerTrack(dsk) - 1, h \in {1, 2} : Pair(dsk, k)[h] \in 0 .. dsk.shape.uspt - 1
    BY <1>1, <2>3
  <2>5. \A k, l \in 0 .. BlocksPerTrack(dsk) - 1, g, h \in {1, 2} :
          Pair(dsk, k)[g] = Pair(dsk, l)[h] => k = l /\ g = h
    BY <1>1, <2>3
  <2> QED BY <2>2, <2>4, <2>5
<1>3. CASE ~(dsk.layout = "Linear" \/ dsk.sectors >= Sectors800K)
  <2>0. dsk.sectors \in Nat /\ dsk.format # "PRODOS_400"
    BY <1>3 DEF KnownShape
  <2>1. BlocksPerTrack(dsk) = 8
    BY <1>3, Shapes, <2>0 DEF KnownShape, IsProDOS, BlocksPerTrack, Sectors800K
  <2>2. \A k \in 0 .. 7 : Pair(dsk, k) = Halves[k + 1]
    BY <1>3, <2>1 DEF Pair, GetBlockSectors
  <2>3. /\ \A k \in 0 .. 7, h \in {1, 2} : Halves[k + 1][h] \in 0 .. 15
        /\ \A k, l \in 0 .. 7, g, h \in {1, 2} : Halves[k + 1][g] = Halves[l + 1][h] => k = l /\ g = h
    BY DEF Halves
  <2>4. ASSUME NEW s \in 0 .. 15
        PROVE  \E k \in 0 .. 7, h \in {1, 2} : Halves[k + 1][h] = s
    BY DEF Halves
  <2>5. BlocksPerTrack(dsk) - 1 = 7 /\ dsk.shape.uspt - 1 = 15
    BY <1>1, <2>1
  <2>6. \A k \in 0 .. 7, h \in {1, 2} : Pair(dsk, k)[h] \in 0 .. 15
    BY <2>2, <2>3
  <2>7. \A k, l \in 0 .. 7, g, h \in {1, 2} : Pair(dsk, k)[g] = Pair(dsk, l)[h] => k = l /\ g = h
    BY <2>2, <2>3
  <2>8. \A s \in 0 .. 15 : \E k \in 0 .. 7, h \in {1, 2} : Pair(dsk, k)[h] = s
    <3> SUFFICES ASSUME NEW s \in 0 .. 15 PROVE \E k \in 0 .. 7, h \in {1, 2} : Pair(dsk, k)[h] = s
      OBVIOUS
    <3>1. PICK k \in 0 .. 7, h \in {1, 2} : Halves[k + 1][h] = s
      BY <2>4
    <3>2. Pair(dsk, k)[h] = s
      BY <3>1, <2>2
    <3> QED BY <3>2
  <2>9. PICK K, U : K = BlocksPerTrack(dsk) - 1 /\ U = dsk.shape.uspt - 1
    OBVIOUS
  <2>10. 0 .. K = 0 .. 7 /\ 0 .. U = 0 .. 15
    BY <2>5, <2>9
  <2>11. \A k \in 0 .. K, h \in {1, 2} : Pair(dsk, k)[h] \in 0 .. U
    BY <2>6, <2>10
  <2>12. \A k, l \in 0 .. K, g, h \in {1, 2} : Pair(dsk, k)[g] = Pair(dsk, l)[h] => k = l /\ g = h
    BY <2>7, <2>10
  <2>13. \A s \in 0 .. U : \E k \in 0 .. K, h \in {1, 2} : Pair(dsk, k)[h] = s
    BY <2>8, <2>10
  <2> QED BY <2>9, <2>11, <2>12, <2>13, Zenon
<1> QED BY <1>2, <1>3

\* The block of a track has the sectors of the pair at its number in the track.
LEMMA BlockPlace ==
  ASSUME NEW dsk, KnownShape(dsk), IsProDOS(dsk), NEW t \in Nat, NEW k \in 0 .. BlocksPerTrack(dsk) - 1,
         NEW h \in {1, 2}
  PROVE  BlockPlaces(dsk, t * BlocksPerTrack(dsk) + k)[h] = SectorPointer(dsk, t, Pair(dsk, k)[h])
<1> PICK n : n = BlocksPerTrack(dsk) OBVIOUS
<1> PICK b : b = t * n + k OBVIOUS
<1>1. n \in {8, 10, 20}
  BY Shapes DEF BlocksPerTrack, IsProDOS
<1>2. b \div n = t /\ b % n = k /\ k % n = k
  BY <1>1
<1>4. GetBlockSectors(dsk, b).track = t /\ GetBlockSectors(dsk, b).pair = Pair(dsk, k)
  BY <1>2 DEF GetBlockSectors, Pair
<1>3. BlockPlaces(dsk, b)[h] = SectorPointer(dsk, t, Pair(dsk, k)[h])
  BY <1>4 DEF BlockPlaces
<1> QED BY <1>3

\* Two halves of blocks are at two places, whatever their tracks.
LEMMA BlocksApart ==
  ASSUME NEW dsk, KnownShape(dsk), IsProDOS(dsk),
         NEW t \in Nat, NEW k \in 0 .. BlocksPerTrack(dsk) - 1, NEW g \in {1, 2},
         NEW u \in Nat, NEW l \in 0 .. BlocksPerTrack(dsk) - 1, NEW h \in {1, 2},
         NEW b, b = t * BlocksPerTrack(dsk) + k, NEW c, c = u * BlocksPerTrack(dsk) + l,
         BlockPlaces(dsk, b)[g] = BlockPlaces(dsk, c)[h]
  PROVE  t = u /\ k = l /\ g = h
<1>1. SectorPointer(dsk, t, Pair(dsk, k)[g]) = SectorPointer(dsk, u, Pair(dsk, l)[h])
  BY BlockPlace
<1>2. Pair(dsk, k)[g] \in 0 .. dsk.shape.uspt - 1 /\ Pair(dsk, l)[h] \in 0 .. dsk.shape.uspt - 1
  BY PairsOfTrack
<1>3. t = u /\ Pair(dsk, k)[g] = Pair(dsk, l)[h]
  BY <1>1, <1>2, SectorsHavePlaces
<1> QED BY <1>3, PairsOfTrack

\* On all tracks of such a disk, however many are looked at: no two sectors are
\* at one place, all are in the image, and the blocks are made of all sectors.
LEMMA ApartWhereKnown ==
  ASSUME NEW dsk, KnownShape(dsk), NEW tracks \in SUBSET (0 .. dsk.shape.tpd - 1)
  PROVE  PlacesApart(dsk, tracks)
<1> DEFINE places == SectorPlaces(dsk, tracks)
           halves == HalfPlaces(dsk, tracks)
           sectors == 0 .. dsk.shape.uspt - 1
<1>0. tracks \subseteq Nat
  BY Shapes
<1>1. IsInjective(places)
  <2> SUFFICES ASSUME NEW a \in tracks \X sectors, NEW b \in tracks \X sectors, places[a] = places[b]
               PROVE  a = b
    BY DEF IsInjective, SectorPlaces
  <2>1. PICK t \in tracks, s \in sectors : a = <<t, s>>
    <3>1. a = <<a[1], a[2]>> /\ a[1] \in tracks /\ a[2] \in sectors
      OBVIOUS
    <3> QED BY <3>1
  <2>2. PICK u \in tracks, r \in sectors : b = <<u, r>>
    <3>1. b = <<b[1], b[2]>> /\ b[1] \in tracks /\ b[2] \in sectors
      OBVIOUS
    <3> QED BY <3>1
  <2>3. SectorPointer(dsk, t, s) = SectorPointer(dsk, u, r)
    BY <2>1, <2>2 DEF SectorPlaces
  <2>4. t = u /\ s = r
    BY <2>3, <1>0, SectorsHavePlaces
  <2> QED BY <2>1, <2>2, <2>4
<1>2. \/ Range(places) \subseteq 0 .. dsk.sectors - 1
      \/ dsk.sectors = Sectors113K /\ dsk.format # "DOS_13"
  <2>1. CASE dsk.sectors = Sectors113K /\ dsk.shape.spt = 16
    BY <2>1, Shapes
  <2>2. CASE dsk.shape.spt * dsk.shape.tpd <= dsk.sectors
    <3>1. ASSUME NEW t \in tracks, NEW s \in sectors
          PROVE  SectorPointer(dsk, t, s) \in 0 .. dsk.sectors - 1
      <4>1. SectorPointer(dsk, t, s) \in 0 .. dsk.shape.spt * dsk.shape.tpd - 1
        BY PlacesFit
      <4>2. dsk.shape.spt * dsk.shape.tpd \in Nat /\ dsk.sectors \in Nat
        BY Shapes DEF KnownShape
      <4> QED BY <4>1, <4>2, <2>2
    <3>2. Range(places) \subseteq 0 .. dsk.sectors - 1
      BY <3>1 DEF Range, SectorPlaces
    <3> QED BY <3>2
  <2> QED BY <2>1, <2>2 DEF KnownShape
<1>3. ASSUME NEW t \in tracks, NEW s \in sectors
      PROVE  SectorPointer(dsk, t, s) \in Range(places)
  <2>1. <<t, s>> \in DOMAIN places /\ places[<<t, s>>] = SectorPointer(dsk, t, s)
    BY DEF SectorPlaces
  <2> QED BY <2>1 DEF Range
<1>4. ASSUME IsProDOS(dsk)
      PROVE  IsInjective(halves) /\ Range(halves) = Range(places)
  <2> DEFINE n == BlocksPerTrack(dsk)
             blocks == BlocksOn(dsk, tracks)
  <2>1. \A b \in blocks : \E t \in tracks, k \in 0 .. n - 1 : b = t * n + k
    BY DEF BlocksOn
  <2>2. \A t \in tracks, k \in 0 .. n - 1 : t * n + k \in blocks
    BY DEF BlocksOn
  <2> HIDE DEF n, blocks
  <2>3. IsInjective(halves)
    <3> SUFFICES ASSUME NEW a \in blocks \X {1, 2}, NEW b \in blocks \X {1, 2}, halves[a] = halves[b]
                 PROVE  a = b
      BY DEF IsInjective, HalfPlaces, blocks
    <3>1. PICK t \in tracks, k \in 0 .. n - 1 : a[1] = t * n + k
      BY <2>1
    <3>2. PICK u \in tracks, l \in 0 .. n - 1 : b[1] = u * n + l
      BY <2>1
    <3>3. a[2] \in {1, 2} /\ b[2] \in {1, 2}
      OBVIOUS
    <3>4. BlockPlaces(dsk, a[1])[a[2]] = BlockPlaces(dsk, b[1])[b[2]]
      BY DEF HalfPlaces, blocks
    <3>5. t = u /\ k = l /\ a[2] = b[2]
      BY <3>1, <3>2, <3>3, <3>4, <1>0, <1>4, BlocksApart DEF n
    <3> QED BY <3>1, <3>2, <3>5
  <2>4. ASSUME NEW b \in blocks, NEW h \in {1, 2}
        PROVE  BlockPlaces(dsk, b)[h] \in Range(places)
    <3>1. PICK t \in tracks, k \in 0 .. n - 1 : b = t * n + k
      BY <2>1
    <3>2. BlockPlaces(dsk, b)[h] = SectorPointer(dsk, t, Pair(dsk, k)[h])
      BY <3>1, <1>0, <1>4, BlockPlace DEF n
    <3>3. Pair(dsk, k)[h] \in sectors
      BY <1>4, PairsOfTrack DEF n
    <3> QED BY <3>2, <3>3, <1>3
  <2>5. ASSUME NEW t \in tracks, NEW s \in sectors
        PROVE  SectorPointer(dsk, t, s) \in Range(halves)
    <3>1. PICK k \in 0 .. n - 1, h \in {1, 2} : Pair(dsk, k)[h] = s
      BY <1>4, PairsOfTrack DEF n
    <3>2. BlockPlaces(dsk, t * n + k)[h] = SectorPointer(dsk, t, s)
      BY <3>1, <1>0, <1>4, BlockPlace DEF n
    <3>3. <<t * n + k, h>> \in blocks \X {1, 2}
      BY <2>2
    <3>4. halves[<<t * n + k, h>>] = SectorPointer(dsk, t, s)
      BY <3>2, <3>3 DEF HalfPlaces, blocks
    <3> QED BY <3>3, <3>4 DEF Range, HalfPlaces, blocks
  <2>6. Range(halves) \subseteq Range(places)
    <3> SUFFICES ASSUME NEW x \in blocks \X {1, 2} PROVE halves[x] \in Range(places)
      BY DEF Range, HalfPlaces, blocks
    <3>1. PICK b \in blocks, h \in {1, 2} : x = <<b, h>>
      <4>1. x = <<x[1], x[2]>> /\ x[1] \in blocks /\ x[2] \in {1, 2}
        OBVIOUS
      <4> QED BY <4>1
    <3>2. halves[x] = BlockPlaces(dsk, b)[h]
      BY <3>1 DEF HalfPlaces, blocks
    <3> QED BY <3>2, <2>4
  <2>7. Range(places) \subseteq Range(halves)
    <3> SUFFICES ASSUME NEW x \in tracks \X sectors PROVE places[x] \in Range(halves)
      BY DEF Range, SectorPlaces
    <3>1. PICK t \in tracks, s \in sectors : x = <<t, s>>
      <4>1. x = <<x[1], x[2]>> /\ x[1] \in tracks /\ x[2] \in sectors
        OBVIOUS
      <4> QED BY <4>1
    <3>2. places[x] = SectorPointer(dsk, t, s)
      BY <3>1 DEF SectorPlaces
    <3> QED BY <3>2, <2>5
  <2> QED BY <2>3, <2>6, <2>7
<1> QED BY <1>1, <1>2, <1>4 DEF PlacesApart

------------------------------------------------------------------------------
(* What is at the places of an image. *)

Cell(at, p) == IF p \in DOMAIN at THEN at[p] ELSE Blank

\* A record with the fields of a disk.
IsDisk(dsk) ==
  dsk = [format |-> dsk.format, shape |-> dsk.shape, layout |-> dsk.layout,
         sectors |-> dsk.sectors, ext |-> dsk.ext, boot |-> dsk.boot, at |-> dsk.at]

\* The same but for what is at its places.
SameDisk(x, y) ==
  /\ IsDisk(x) /\ IsDisk(y)
  /\ x.format = y.format /\ x.shape = y.shape /\ x.layout = y.layout
  /\ x.sectors = y.sectors /\ x.ext = y.ext /\ x.boot = y.boot

\* Where things are does not depend on what is there.
LEMMA SameGeometry ==
  ASSUME NEW x, NEW y, SameDisk(x, y)
  PROVE  /\ \A t, s : SectorPointer(x, t, s) = SectorPointer(y, t, s)
         /\ \A b : GetBlockSectors(x, b) = GetBlockSectors(y, b)
         /\ \A b : BlockPlaces(x, b) = BlockPlaces(y, b)
         /\ \A t, s : CanSeek(x, t, s) <=> CanSeek(y, t, s)
<1>1. \A t, s : SectorPointer(x, t, s) = SectorPointer(y, t, s)
  BY DEF SectorPointer, SameDisk
<1>2. \A b : GetBlockSectors(x, b) = GetBlockSectors(y, b)
  BY DEF GetBlockSectors, SameDisk, BlocksPerTrack
<1>3. \A b : BlockPlaces(x, b) = BlockPlaces(y, b)
  BY <1>1, <1>2 DEF BlockPlaces
<1>4. \A t, s : CanSeek(x, t, s) <=> CanSeek(y, t, s)
  BY DEF CanSeek, SameDisk
<1> QED BY <1>1, <1>2, <1>3, <1>4

\* The cells of a disk are what is read of it.
LEMMA AtIsCell ==
  ASSUME NEW dsk, NEW p
  PROVE  At(dsk, p) = Cell(dsk.at, p)
BY DEF At, Cell

\* Writing a sector changes one cell,
LEMMA WrittenSector ==
  ASSUME NEW dsk, IsDisk(dsk), NEW t, NEW s, NEW value
  PROVE  /\ SameDisk(Written(dsk, t, s, value), dsk)
         /\ DOMAIN Written(dsk, t, s, value).at = DOMAIN dsk.at \cup {SectorPointer(dsk, t, s)}
         /\ \A p : Cell(Written(dsk, t, s, value).at, p) =
                     IF p = SectorPointer(dsk, t, s) THEN value ELSE Cell(dsk.at, p)
<1> PICK q : q = SectorPointer(dsk, t, s) OBVIOUS
<1> PICK at : at = Merge(dsk.at, [p \in {q} |-> value]) OBVIOUS
<1>1. Written(dsk, t, s, value) = [dsk EXCEPT !.at = at]
  BY DEF Written
<1>2. [dsk EXCEPT !.at = at] =
        [format |-> dsk.format, shape |-> dsk.shape, layout |-> dsk.layout,
         sectors |-> dsk.sectors, ext |-> dsk.ext, boot |-> dsk.boot, at |-> at]
  BY DEF IsDisk
<1>3. SameDisk(Written(dsk, t, s, value), dsk) /\ Written(dsk, t, s, value).at = at
  BY <1>1, <1>2 DEF SameDisk, IsDisk
<1>4. DOMAIN at = DOMAIN dsk.at \cup {q}
  BY DEF Merge
<1>5. \A p \in DOMAIN at : at[p] = IF p = q THEN value ELSE dsk.at[p]
  BY DEF Merge
<1>6. \A p : Cell(at, p) = IF p = q THEN value ELSE Cell(dsk.at, p)
  BY <1>4, <1>5 DEF Cell
<1> QED BY <1>3, <1>4, <1>6

\* and writing a block two.
LEMMA WrittenPair ==
  ASSUME NEW dsk, IsDisk(dsk), NEW b, NEW values
  PROVE  LET w == WrittenBlock(dsk, b, values)
             places == BlockPlaces(dsk, b) IN
         /\ SameDisk(w, dsk)
         /\ DOMAIN w.at = DOMAIN dsk.at \cup {places[1], places[2]}
         /\ \A p : Cell(w.at, p) = IF p = places[2] THEN values[2]
                                   ELSE IF p = places[1] THEN values[1] ELSE Cell(dsk.at, p)
<1> PICK bs : bs = GetBlockSectors(dsk, b) OBVIOUS
<1> PICK x : x = Written(dsk, bs.track, bs.pair[1], values[1]) OBVIOUS
<1> PICK w : w = Written(x, bs.track, bs.pair[2], values[2]) OBVIOUS
<1>1. WrittenBlock(dsk, b, values) = w
  BY DEF WrittenBlock
<1>2. /\ SameDisk(x, dsk)
      /\ DOMAIN x.at = DOMAIN dsk.at \cup {SectorPointer(dsk, bs.track, bs.pair[1])}
      /\ \A p : Cell(x.at, p) = IF p = SectorPointer(dsk, bs.track, bs.pair[1]) THEN values[1]
                                ELSE Cell(dsk.at, p)
  BY WrittenSector
<1>3. IsDisk(x)
  BY <1>2 DEF SameDisk
<1>4. /\ SameDisk(w, x)
      /\ DOMAIN w.at = DOMAIN x.at \cup {SectorPointer(x, bs.track, bs.pair[2])}
      /\ \A p : Cell(w.at, p) = IF p = SectorPointer(x, bs.track, bs.pair[2]) THEN values[2]
                                ELSE Cell(x.at, p)
  BY <1>3, WrittenSector
<1>5. SectorPointer(x, bs.track, bs.pair[2]) = SectorPointer(dsk, bs.track, bs.pair[2])
  BY <1>2, SameGeometry
<1>6. /\ BlockPlaces(dsk, b)[1] = SectorPointer(dsk, bs.track, bs.pair[1])
      /\ BlockPlaces(dsk, b)[2] = SectorPointer(dsk, bs.track, bs.pair[2])
  BY DEF BlockPlaces
<1>7. SameDisk(w, dsk)
  BY <1>2, <1>4 DEF SameDisk
<1>8. DOMAIN w.at = DOMAIN dsk.at \cup {BlockPlaces(dsk, b)[1], BlockPlaces(dsk, b)[2]}
  BY <1>2, <1>4, <1>5, <1>6
<1>9. \A p : Cell(w.at, p) = IF p = BlockPlaces(dsk, b)[2] THEN values[2]
                             ELSE IF p = BlockPlaces(dsk, b)[1] THEN values[1] ELSE Cell(dsk.at, p)
  BY <1>2, <1>4, <1>5, <1>6
<1> QED BY <1>1, <1>7, <1>8, <1>9

\* A set of numbers that is not empty has a least one.
LEMMA LeastOfSome ==
  ASSUME NEW S \in SUBSET Nat, S # {}
  PROVE  Least(S) \in S /\ \A k \in S : Least(S) <= k
BY LeastElement DEF Least

Imaged(d) == d \in Disk /\ IsImage(d)

OfDOS(d) == d.system = "DOS" /\ d.sectors # SectorsNIB
OfProDOS(d) == d.system = "ProDOS" /\ d.sectors # SectorsNIB

\* What the disks of each system can be.
LEMMA DiskCases ==
  ASSUME NEW d, Imaged(d)
  PROVE  /\ d.layout \in Layouts /\ d.sectors \in Nat /\ d.ext \in {"dsk", "po", "do"}
         /\ OfDOS(d) =>
              \/ d.format = "DOS_16" /\ d.sectors = 560
              \/ d.format = "DOS_13" /\ d.sectors = 455 /\ d.layout \notin Interleaved
         /\ OfProDOS(d) =>
              \/ d.format = "PRODOS" /\ d.sectors = 560 /\ d.layout \in {"DOS33", "DOS33Alt", "ProDOS", "Linear"}
              \/ d.format = "PRODOS_400" /\ d.sectors = 1600 /\ d.layout = "Linear"
              \/ d.format = "PRODOS_800" /\ d.sectors = 3200 /\ d.layout = "Linear"
         /\ d.system = "Pascal" => d.format = "PASCAL" /\ d.sectors \in {560, SectorsNIB}
         /\ d.system = "RDOS" =>
              /\ d.format \in {"RDOS_3", "RDOS_32", "RDOS_33"}
              /\ d.sectors \in {560, 455, SectorsNIB}
         /\ d.system \in {"DOS", "ProDOS", "Pascal", "RDOS"}
<1>1. d \in Disk /\ IsImage(d)
  BY DEF Imaged
<1>2. /\ d.layout \in Layouts /\ d.sectors \in Nat /\ d.ext \in {"dsk", "po", "do"}
      /\ d.system \in {"DOS", "ProDOS", "Pascal", "RDOS"}
  BY <1>1 DEF Disk
<1>3. d.format \in FormatsOf[d.system]
  BY <1>1 DEF IsImage
<1>4. d.sectors = DiskFormat[d.format].spt * DiskFormat[d.format].tpd \/ d.sectors = SectorsNIB
  BY <1>1 DEF IsImage
<1>5. /\ d.system = "ProDOS" => d.layout \in {"DOS33", "DOS33Alt", "ProDOS", "Linear"}
      /\ d.format \in {"PRODOS_400", "PRODOS_800"} => d.layout = "Linear"
      /\ d.format = "DOS_13" => d.layout \notin Interleaved
  BY <1>1 DEF IsImage, FourLayouts
<1>6. /\ d.format = "DOS_16" => d.sectors = 560 \/ d.sectors = SectorsNIB
      /\ d.format = "DOS_13" => d.sectors = 455 \/ d.sectors = SectorsNIB
      /\ d.format = "PRODOS" => d.sectors = 560 \/ d.sectors = SectorsNIB
      /\ d.format = "PASCAL" => d.sectors = 560 \/ d.sectors = SectorsNIB
      /\ d.format \in {"RDOS_3", "RDOS_33"} => d.sectors = 560 \/ d.sectors = SectorsNIB
      /\ d.format = "RDOS_32" => d.sectors = 455 \/ d.sectors = SectorsNIB
      /\ d.format = "PRODOS_400" => d.sectors = 1600 \/ d.sectors = SectorsNIB
      /\ d.format = "PRODOS_800" => d.sectors = 3200 \/ d.sectors = SectorsNIB
  BY <1>4 DEF DiskFormat, Shape
<1>7. CASE d.system = "DOS"
  BY <1>2, <1>3, <1>5, <1>6, <1>7 DEF FormatsOf, OfDOS, OfProDOS
<1>8. CASE d.system = "ProDOS"
  BY <1>2, <1>3, <1>5, <1>6, <1>8 DEF FormatsOf, OfDOS, OfProDOS
<1>9. CASE d.system \in {"Pascal", "RDOS"}
  BY <1>2, <1>3, <1>6, <1>9 DEF FormatsOf, OfDOS, OfProDOS
<1> QED BY <1>2, <1>7, <1>8, <1>9

\* What its boot sector can be.
LEMMA Boots ==
  ASSUME NEW d, Imaged(d)
  PROVE  /\ d.boot \in {"NONE", "DOS_13", "DOS_16", "PRODOS"}
         /\ d.boot = "DOS_13" => d.format = "DOS_13" /\ d.sectors \in {455, SectorsNIB}
<1>1. d.boot \in {"NONE", "DOS_13", "DOS_16", "PRODOS"}
  BY DEF Imaged, Disk
<1>2. d.boot = "DOS_13" => d.format = "DOS_13"
  BY DEF Imaged, IsImage
<1>3. d.sectors = DiskFormat[d.format].spt * DiskFormat[d.format].tpd \/ d.sectors = SectorsNIB
  BY DEF Imaged, IsImage
<1>4. d.format = "DOS_13" => d.sectors \in {455, SectorsNIB}
  BY <1>3 DEF DiskFormat, Shape
<1> QED BY <1>1, <1>2, <1>4

------------------------------------------------------------------------------
(* What is on an image of a disk of each system, whatever was done to it. *)

IsData(cell) == cell.tag \in {"file", "blank"}

IsCatalog(cell, s) ==
  cell = [tag |-> "catalog", next |-> s - 1, file |-> cell.file] /\ cell.file \in Names \cup {NoFile}

IsVDH(cell, blocks) ==
  cell = [tag |-> "vdh", blocks |-> blocks, files |-> cell.files] /\ cell.files \subseteq Names

\* Sectors of a track of a DOS disk, and where its sectors are.
Spt(d) == IF d.format = "DOS_13" THEN 13 ELSE 16
Place(d, t, s) == t * Spt(d) + Mapped(d.layout, s)

\* The VTOC, and a chain of catalog sectors through the rest of its track.
DOSVolume(d, at) ==
  /\ Cell(at, 17 * Spt(d)) = [tag |-> "vtoc", spt |-> Spt(d)]
  /\ \A s \in 1 .. Spt(d) - 1 : IsCatalog(Cell(at, Place(d, 17, s)), s)
  /\ \A p \in Int : p \notin 17 * Spt(d) .. 18 * Spt(d) - 1 => IsData(Cell(at, p))

\* The volume header, which begins block 2.
HeaderPlace(d) == IF d.sectors = 560 /\ d.layout # "Linear" THEN Mapped(d.layout, 11) ELSE 4

Blocks(d) == d.sectors \div 2

ProDOSVolume(d, at) ==
  /\ IsVDH(Cell(at, HeaderPlace(d)), Blocks(d))
  /\ \A p \in Int : p # HeaderPlace(d) => IsData(Cell(at, p))

\* What has no directory that the shell writes.
Closed(at) == \A p : Cell(at, p).tag \in {"blank", "pascal", "rdos32", "rdos33"}

Volume(d, at) ==
  /\ DOMAIN at \subseteq 0 .. d.sectors - 1
  /\ OfDOS(d) => DOSVolume(d, at)
  /\ OfProDOS(d) => ProDOSVolume(d, at)
  /\ ~OfDOS(d) /\ ~OfProDOS(d) => Closed(at)

\* There is nothing at what is not a place.
LEMMA OffImage ==
  ASSUME NEW d, NEW at, Volume(d, at), NEW p, p \notin Int
  PROVE  Cell(at, p) = Blank
BY DEF Volume, Cell

\* On the track of the catalog of a DOS disk every sector has its place.
LEMMA PlaceRange ==
  ASSUME NEW d, Imaged(d), OfDOS(d), NEW s \in 0 .. Spt(d) - 1
  PROVE  /\ Mapped(d.layout, s) \in 0 .. Spt(d) - 1
         /\ Mapped(d.layout, s) = 0 <=> s = 0
<1>1. d.layout \in Layouts /\ (d.format = "DOS_16" \/ d.layout \notin Interleaved)
  BY DiskCases
<1>2. CASE d.layout \notin Interleaved
  BY <1>2 DEF Mapped
<1>3. CASE d.layout \in Interleaved
  BY <1>1, <1>3 DEF Mapped, Interleaved, SectorMapper, Spt
<1> QED BY <1>2, <1>3

\* Every place on it is that of a sector.
LEMMA PlaceOnto ==
  ASSUME NEW d, Imaged(d), OfDOS(d), NEW m \in 1 .. Spt(d) - 1
  PROVE  \E s \in 1 .. Spt(d) - 1 : Mapped(d.layout, s) = m
<1>1. d.layout \in Layouts /\ (d.format = "DOS_16" \/ d.layout \notin Interleaved)
  BY DiskCases
<1>2. CASE d.layout \notin Interleaved
  BY <1>2 DEF Mapped
<1>3. CASE d.layout \in Interleaved
  <2>1. Spt(d) = 16
    BY <1>1, <1>3 DEF Spt
  <2>2. CASE d.layout = "DOS33Alt"
    BY <2>1, <2>2 DEF Mapped, Interleaved, SectorMapper
  <2>3. CASE d.layout = "ProDOS"
    BY <2>1, <2>3 DEF Mapped, Interleaved, SectorMapper
  <2>4. CASE d.layout = "DiversiDOS"
    BY <2>1, <2>4 DEF Mapped, Interleaved, SectorMapper
  <2> QED BY <1>3, <2>2, <2>3, <2>4 DEF Interleaved
<1> QED BY <1>2, <1>3

\* What the cells of a DOS volume can be.
LEMMA DOSCells ==
  ASSUME NEW d, Imaged(d), OfDOS(d), NEW at, Volume(d, at), NEW p
  PROVE  \/ p = 17 * Spt(d) /\ Cell(at, p) = [tag |-> "vtoc", spt |-> Spt(d)]
         \/ \E s \in 1 .. Spt(d) - 1 : p = Place(d, 17, s) /\ IsCatalog(Cell(at, p), s)
         \/ IsData(Cell(at, p))
<1>1. DOSVolume(d, at)
  BY DEF Volume
<1>2. CASE p \notin Int
  BY <1>2, OffImage DEF IsData, Blank
<1>3. CASE p \in Int /\ p \notin 17 * Spt(d) .. 18 * Spt(d) - 1
  BY <1>1, <1>3 DEF DOSVolume
<1>4. CASE p = 17 * Spt(d)
  BY <1>1, <1>4 DEF DOSVolume
<1>5. CASE p \in 17 * Spt(d) + 1 .. 18 * Spt(d) - 1
  <2>1. p - 17 * Spt(d) \in 1 .. Spt(d) - 1
    BY <1>5 DEF Spt
  <2>2. PICK s \in 1 .. Spt(d) - 1 : Mapped(d.layout, s) = p - 17 * Spt(d)
    BY <2>1, PlaceOnto
  <2>3. p = Place(d, 17, s)
    BY <2>2, <1>5 DEF Place, Spt
  <2> QED BY <2>3, <1>1 DEF DOSVolume
<1> QED BY <1>2, <1>3, <1>4, <1>5 DEF Spt

\* What the cells of a ProDOS volume can be.
LEMMA ProDOSCells ==
  ASSUME NEW d, Imaged(d), OfProDOS(d), NEW at, Volume(d, at), NEW p
  PROVE  \/ p = HeaderPlace(d) /\ IsVDH(Cell(at, p), Blocks(d))
         \/ IsData(Cell(at, p))
BY OffImage DEF Volume, ProDOSVolume, IsData, Blank

------------------------------------------------------------------------------
(* Disks that are read for what they are, and what is written on them.     *)

\* A disk as it is mounted that has the directory of the disk d where d has it.
Fits(d, dsk) ==
  /\ IsDisk(dsk) /\ dsk.shape = DiskFormat[dsk.format] /\ dsk.format = d.format
  /\ dsk.sectors = d.sectors /\ dsk.ext = d.ext /\ dsk.boot = d.boot
  /\ \/ /\ OfDOS(d) /\ dsk.layout \in Layouts
        /\ d.layout = "DOS33" /\ d.ext # "po" => dsk.layout \notin Interleaved
     \/ /\ OfProDOS(d)
        /\ dsk.layout = d.layout \/ (d.sectors = 3200 /\ dsk.layout = "DOS33")

\* Writing does not change it.
LEMMA FitsStays ==
  ASSUME NEW d, NEW x, NEW y, Fits(d, x), SameDisk(y, x)
  PROVE  Fits(d, y)
BY DEF Fits, SameDisk

\* The geometry of a DOS disk as it is mounted.
LEMMA FitsDOS ==
  ASSUME NEW d, Imaged(d), OfDOS(d), NEW dsk, Fits(d, dsk)
  PROVE  /\ IsDOS(dsk) /\ ~IsProDOS(dsk) /\ dsk.layout \in Layouts
         /\ dsk.shape.spt = Spt(d) /\ dsk.shape.uspt = Spt(d) /\ dsk.shape.tpd = 35
         /\ \A t, s : SectorPointer(dsk, t, s) = t * Spt(d) + Mapped(dsk.layout, s)
         /\ SectorPointer(dsk, 17, 0) = 17 * Spt(d)
         /\ d.layout = "DOS33" /\ d.ext # "po" => dsk.layout \notin Interleaved
<1>1. dsk.format = d.format /\ (d.format = "DOS_16" \/ d.format = "DOS_13")
  BY DiskCases DEF Fits
<1>2. IsDOS(dsk) /\ ~IsProDOS(dsk)
  BY <1>1 DEF IsDOS, IsProDOS
<1>3. dsk.layout \in Layouts /\ (d.layout = "DOS33" /\ d.ext # "po" => dsk.layout \notin Interleaved)
  BY DEF Fits, OfDOS, OfProDOS
<1>4. dsk.shape.spt = Spt(d) /\ dsk.shape.uspt = Spt(d) /\ dsk.shape.tpd = 35
  BY <1>1 DEF Fits, DiskFormat, Shape, Spt
<1>5. \A t, s : SectorPointer(dsk, t, s) = t * Spt(d) + Mapped(dsk.layout, s)
  BY <1>4 DEF SectorPointer
<1>6. Mapped(dsk.layout, 0) = 0
  BY <1>3 DEF Mapped, Layouts, Interleaved, SectorMapper
<1>7. SectorPointer(dsk, 17, 0) = 17 * Spt(d)
  BY <1>5, <1>6 DEF Spt
<1> QED BY <1>2, <1>3, <1>4, <1>5, <1>7

\* Writing an entry of the catalog leaves a DOS volume a DOS volume.
LEMMA EntryWritten ==
  ASSUME NEW d, Imaged(d), OfDOS(d), NEW dsk, Fits(d, dsk), Volume(d, dsk.at),
         NEW e, IsCatalogSector(dsk, e), NEW file \in Names \cup {NoFile}
  PROVE  LET w == WithCatalogEntry(dsk, e, file) IN
         /\ SameDisk(w, dsk)
         /\ Volume(d, w.at)
         /\ \E s \in 1 .. Spt(d) - 1 :
              /\ SectorPointer(dsk, 17, e) = Place(d, 17, s)
              /\ Cell(w.at, Place(d, 17, s)).file = file
         /\ \A p : p # SectorPointer(dsk, 17, e) => Cell(w.at, p) = Cell(dsk.at, p)
<1> PICK p : p = SectorPointer(dsk, 17, e) OBVIOUS
<1> PICK c : c = Cell(dsk.at, p) OBVIOUS
<1> PICK w : w = WithCatalogEntry(dsk, e, file) OBVIOUS
<1> PICK v : v = [c EXCEPT !.file = file] OBVIOUS
<1>1. Sector(dsk, VTOCTrack, e) = c
  BY AtIsCell DEF Sector, VTOCTrack
<1>2. c.tag = "catalog"
  BY <1>1 DEF IsCatalogSector
<1>3. PICK s \in 1 .. Spt(d) - 1 : p = Place(d, 17, s) /\ IsCatalog(c, s)
  BY <1>2, DOSCells DEF IsData
<1>4. v = [tag |-> "catalog", next |-> s - 1, file |-> file]
  BY <1>3 DEF IsCatalog
<1>5. IsCatalog(v, s) /\ v.file = file
  BY <1>4 DEF IsCatalog
<1>6. w = Written(dsk, 17, e, v)
  BY <1>1 DEF WithCatalogEntry, VTOCTrack
<1>7. /\ SameDisk(w, dsk) /\ DOMAIN w.at = DOMAIN dsk.at \cup {p}
      /\ \A q : Cell(w.at, q) = IF q = p THEN v ELSE Cell(dsk.at, q)
  BY <1>6, WrittenSector DEF Fits
<1>8. Mapped(d.layout, s) \in 1 .. Spt(d) - 1
  BY PlaceRange DEF Spt
<1>9. p \in 17 * Spt(d) + 1 .. 18 * Spt(d) - 1 /\ p \in 0 .. d.sectors - 1
  BY <1>3, <1>8, DiskCases DEF Place, Spt
<1>10. DOSVolume(d, w.at)
  <2>1. DOSVolume(d, dsk.at)
    BY DEF Volume
  <2>2. Cell(w.at, 17 * Spt(d)) = [tag |-> "vtoc", spt |-> Spt(d)]
    BY <2>1, <1>7, <1>9 DEF DOSVolume, Spt
  <2>3. ASSUME NEW r \in 1 .. Spt(d) - 1
        PROVE  IsCatalog(Cell(w.at, Place(d, 17, r)), r)
    <3>1. CASE Place(d, 17, r) = p
      <4>1. Place(d, 17, r) = Place(d, 17, s) => Mapped(d.layout, r) = Mapped(d.layout, s)
        BY PlaceRange DEF Place, Spt
      <4>2. d.layout \in Layouts
        BY DiskCases
      <4>3. r = s
        BY <4>1, <4>2, <3>1, <1>3, MapperInjective DEF Spt
      <4> QED BY <4>3, <3>1, <1>5, <1>7
    <3>2. CASE Place(d, 17, r) # p
      BY <3>2, <1>7, <2>1 DEF DOSVolume
    <3> QED BY <3>1, <3>2
  <2>4. ASSUME NEW q \in Int, q \notin 17 * Spt(d) .. 18 * Spt(d) - 1
        PROVE  IsData(Cell(w.at, q))
    <3>1. q # p
      BY <1>9, <2>4 DEF Spt
    <3> QED BY <3>1, <1>7, <2>1, <2>4 DEF DOSVolume
  <2> QED BY <2>2, <2>3, <2>4 DEF DOSVolume
<1>11. Volume(d, w.at)
  BY <1>7, <1>9, <1>10 DEF Volume, OfDOS, OfProDOS
<1> QED BY <1>3, <1>5, <1>7, <1>11

\* So does writing the data of a file.
DataIn(d, dsk, n) ==
  LET w == Written(dsk, 18, HomeOf[n], Contents(n)[1])
      q == 18 * Spt(d) + Mapped(dsk.layout, HomeOf[n]) IN
  /\ SameDisk(w, dsk)
  /\ Volume(d, w.at)
  /\ q \in Int /\ q \notin 17 * Spt(d) .. 18 * Spt(d) - 1
  /\ \A p : Cell(w.at, p) = IF p = q THEN Contents(n)[1] ELSE Cell(dsk.at, p)

\* It is so.
LEMMA DataWritten ==
  ASSUME NEW d, Imaged(d), OfDOS(d), NEW dsk, Fits(d, dsk), Volume(d, dsk.at), NEW n \in Names
  PROVE  DataIn(d, dsk, n)
<1> PICK m : m = Mapped(dsk.layout, HomeOf[n]) OBVIOUS
<1> PICK w : w = Written(dsk, 18, HomeOf[n], Contents(n)[1]) OBVIOUS
<1> PICK q : q = 18 * Spt(d) + m OBVIOUS
<1>1. HomeOf[n] \in 0 .. 15 /\ dsk.layout \in Layouts
  BY HomeAssumption, FitsDOS
<1>2. m \in 0 .. 15
  BY <1>1, MapperRange
<1>3. q = SectorPointer(dsk, 18, HomeOf[n])
  BY FitsDOS
<1>4. /\ SameDisk(w, dsk) /\ DOMAIN w.at = DOMAIN dsk.at \cup {q}
      /\ \A p : Cell(w.at, p) = IF p = q THEN Contents(n)[1] ELSE Cell(dsk.at, p)
  BY <1>3, WrittenSector DEF Fits
<1>5. q \in 0 .. d.sectors - 1 /\ q \notin 17 * Spt(d) .. 18 * Spt(d) - 1
  BY <1>2, DiskCases DEF Spt
<1>6. IsData(Contents(n)[1])
  BY DEF IsData, Contents
<1>7. DOSVolume(d, dsk.at)
  BY DEF Volume
<1>8. Cell(w.at, 17 * Spt(d)) = [tag |-> "vtoc", spt |-> Spt(d)]
  BY <1>4, <1>5, <1>7 DEF DOSVolume, Spt
<1>9. ASSUME NEW r \in 1 .. Spt(d) - 1
      PROVE  IsCatalog(Cell(w.at, Place(d, 17, r)), r)
  <2>1. Mapped(d.layout, r) \in 0 .. Spt(d) - 1
    BY PlaceRange DEF Spt
  <2>2. Place(d, 17, r) # q
    BY <2>1, <1>5 DEF Place, Spt
  <2> QED BY <2>2, <1>4, <1>7 DEF DOSVolume
<1>10. \A p \in Int : p \notin 17 * Spt(d) .. 18 * Spt(d) - 1 => IsData(Cell(w.at, p))
  BY <1>4, <1>6, <1>7 DEF DOSVolume
<1>11. Volume(d, w.at)
  BY <1>4, <1>5, <1>8, <1>9, <1>10 DEF Volume, DOSVolume, OfDOS, OfProDOS
<1> QED BY <1>4, <1>5, <1>11 DEF DataIn

\* The geometry of a ProDOS disk as it is mounted.
LEMMA FitsProDOS ==
  ASSUME NEW d, Imaged(d), OfProDOS(d), NEW dsk, Fits(d, dsk)
  PROVE  /\ IsProDOS(dsk) /\ ~IsDOS(dsk) /\ KnownShape(dsk)
         /\ dsk.shape.tpd * BlocksPerTrack(dsk) = Blocks(d)
         /\ dsk.shape.spt = 2 * BlocksPerTrack(dsk) /\ dsk.shape.uspt = dsk.shape.spt
         /\ BlocksPerTrack(dsk) \in {8, 10, 20}
<1>1. \/ dsk.format = "PRODOS" /\ d.sectors = 560
      \/ dsk.format = "PRODOS_400" /\ d.sectors = 1600 /\ dsk.layout = "Linear"
      \/ dsk.format = "PRODOS_800" /\ d.sectors = 3200 /\ dsk.layout \in {"Linear", "DOS33"}
  BY DiskCases DEF Fits, OfDOS, OfProDOS
<1>2. dsk.layout \in Layouts
  BY DiskCases DEF Fits, OfDOS, OfProDOS, Layouts
<1>3. dsk.layout \in Interleaved => dsk.format = "PRODOS"
  BY <1>1 DEF Interleaved
<1>4. dsk.shape = DiskFormat[dsk.format] /\ dsk.sectors = d.sectors
  BY DEF Fits
<1>5. /\ dsk.format = "PRODOS" => dsk.shape.spt = 16 /\ dsk.shape.uspt = 16 /\ dsk.shape.tpd = 35
      /\ dsk.format = "PRODOS_400" => dsk.shape.spt = 20 /\ dsk.shape.uspt = 20 /\ dsk.shape.tpd = 80
      /\ dsk.format = "PRODOS_800" => dsk.shape.spt = 40 /\ dsk.shape.uspt = 40 /\ dsk.shape.tpd = 80
  BY <1>4 DEF DiskFormat, Shape
<1>6. dsk.format \in DOMAIN DiskFormat \ {"NONE"}
  BY <1>1 DEF DiskFormat
<1>7. KnownShape(dsk)
  BY <1>1, <1>2, <1>3, <1>4, <1>5, <1>6 DEF KnownShape
<1> QED BY <1>1, <1>4, <1>5, <1>7 DEF IsProDOS, IsDOS, BlocksPerTrack, Blocks

\* Where block 2 begins.
LEMMA HeaderIsThere ==
  ASSUME NEW d, Imaged(d), OfProDOS(d), NEW dsk, Fits(d, dsk)
  PROVE  BlockPlaces(dsk, 2)[1] = HeaderPlace(d)
<1>0. dsk.sectors = d.sectors
  BY DEF Fits
<1>1. CASE d.sectors = 560
  <2>1. dsk.format = "PRODOS" /\ d.layout \in {"DOS33", "DOS33Alt", "ProDOS", "Linear"} /\ dsk.layout = d.layout
    BY <1>1, DiskCases DEF Fits, OfDOS, OfProDOS
  <2>2. dsk.shape.spt = 16 /\ BlocksPerTrack(dsk) = 8
    BY <2>1 DEF Fits, DiskFormat, Shape, BlocksPerTrack
  <2>3. GetBlockSectors(dsk, 2).track = 0
    BY <2>2 DEF GetBlockSectors
  <2>4. GetBlockSectors(dsk, 2).pair[1] = IF d.layout = "Linear" THEN 4 ELSE 11
    BY <2>1, <2>2, <1>0, <1>1 DEF GetBlockSectors, Halves, Sectors800K
  <2>5. BlockPlaces(dsk, 2)[1] = Mapped(d.layout, IF d.layout = "Linear" THEN 4 ELSE 11)
    <3>1. BlockPlaces(dsk, 2)[1] = SectorPointer(dsk, 0, IF d.layout = "Linear" THEN 4 ELSE 11)
      BY <2>3, <2>4 DEF BlockPlaces
    <3>2. Mapped(d.layout, IF d.layout = "Linear" THEN 4 ELSE 11) \in 0 .. 15
      BY MapperRange, DiskCases
    <3> QED BY <3>1, <3>2, <2>1, <2>2 DEF SectorPointer
  <2>6. Mapped(d.layout, IF d.layout = "Linear" THEN 4 ELSE 11) = HeaderPlace(d)
    BY <1>1 DEF Mapped, HeaderPlace, Interleaved
  <2> QED BY <2>5, <2>6
<1>2. CASE d.sectors # 560
  <2>1. /\ (d.sectors = 1600 /\ dsk.layout = "Linear") \/ d.sectors = 3200
        /\ dsk.layout \notin Interleaved
    BY <1>2, DiskCases DEF Fits, OfDOS, OfProDOS, Interleaved
  <2>2. BlocksPerTrack(dsk) \in {10, 20}
    BY <1>2, FitsProDOS, DiskCases DEF Fits, DiskFormat, Shape, BlocksPerTrack, OfDOS, OfProDOS
  <2>3. GetBlockSectors(dsk, 2).track = 0 /\ GetBlockSectors(dsk, 2).pair[1] = 4
    BY <2>1, <2>2, <1>0 DEF GetBlockSectors, Sectors800K
  <2>4. BlockPlaces(dsk, 2)[1] = SectorPointer(dsk, 0, 4)
    BY <2>3 DEF BlockPlaces
  <2>5. SectorPointer(dsk, 0, 4) = 4
    BY <2>1, FitsProDOS DEF SectorPointer, Mapped
  <2> QED BY <2>4, <2>5, <1>2 DEF HeaderPlace
<1> QED BY <1>1, <1>2

\* A block is of a track and has a number on it.
LEMMA NumberOfBlock ==
  ASSUME NEW n \in {8, 10, 20}, NEW b \in Nat
  PROVE  \E t \in Nat, k \in 0 .. n - 1 : b = t * n + k
<1>1. b \div n \in Nat /\ b % n \in 0 .. n - 1 /\ b = (b \div n) * n + (b % n)
  OBVIOUS
<1> QED BY <1>1

\* Two halves of blocks of a volume are at two places of the image.
LEMMA HalvesApart ==
  ASSUME NEW d, Imaged(d), OfProDOS(d), NEW dsk, Fits(d, dsk),
         NEW b \in Nat, NEW c \in Nat, NEW g \in {1, 2}, NEW h \in {1, 2},
         BlockPlaces(dsk, b)[g] = BlockPlaces(dsk, c)[h]
  PROVE  b = c /\ g = h
<1>1. BlocksPerTrack(dsk) \in {8, 10, 20} /\ KnownShape(dsk) /\ IsProDOS(dsk)
  BY FitsProDOS
<1>2. PICK t \in Nat, k \in 0 .. BlocksPerTrack(dsk) - 1 : b = t * BlocksPerTrack(dsk) + k
  BY <1>1, NumberOfBlock
<1>3. PICK u \in Nat, l \in 0 .. BlocksPerTrack(dsk) - 1 : c = u * BlocksPerTrack(dsk) + l
  BY <1>1, NumberOfBlock
<1>0. KnownShape(dsk) /\ IsProDOS(dsk)
  BY <1>1
<1>4. t = u /\ k = l /\ g = h
  BY <1>0, <1>2, <1>3, BlocksApart
<1> QED BY <1>2, <1>3, <1>4

\* Blocks are in the image.
LEMMA HalvesFit ==
  ASSUME NEW d, Imaged(d), OfProDOS(d), NEW dsk, Fits(d, dsk),
         NEW b \in 0 .. Blocks(d) - 1, NEW h \in {1, 2}
  PROVE  BlockPlaces(dsk, b)[h] \in 0 .. d.sectors - 1
<1> PICK n : n = BlocksPerTrack(dsk) OBVIOUS
<1>1. n \in {8, 10, 20} /\ KnownShape(dsk) /\ IsProDOS(dsk) /\ dsk.shape.tpd * n = Blocks(d) /\ dsk.shape.spt = 2 * n
  BY FitsProDOS
<1>2. Blocks(d) \in {280, 800, 1600} /\ d.sectors = 2 * Blocks(d)
  BY DiskCases DEF Blocks
<1>3. b \in Nat
  BY <1>2
<1>4. PICK t \in Nat, k \in 0 .. n - 1 : b = t * n + k
  BY <1>1, <1>3, NumberOfBlock
<1>5. dsk.shape.tpd \in Nat
  BY <1>1, Shapes
<1>6. t \in 0 .. dsk.shape.tpd - 1
  BY <1>1, <1>2, <1>4, <1>5
<1>7. BlockPlaces(dsk, b)[h] = SectorPointer(dsk, t, Pair(dsk, k)[h])
  BY <1>1, <1>4, BlockPlace
<1>8. Pair(dsk, k)[h] \in 0 .. dsk.shape.uspt - 1
  BY <1>1, PairsOfTrack
<1>9. SectorPointer(dsk, t, Pair(dsk, k)[h]) \in 0 .. dsk.shape.spt * dsk.shape.tpd - 1
  BY <1>1, <1>6, <1>8, PlacesFit
<1>10. dsk.shape.spt * dsk.shape.tpd = d.sectors
  BY <1>1, <1>2, <1>5
<1> QED BY <1>7, <1>9, <1>10

\* A disk has its own directory where it is.
LEMMA TrueFits ==
  ASSUME NEW d, Imaged(d), OfDOS(d) \/ OfProDOS(d), NEW at
  PROVE  Fits(d, TrueDisk(d, at)) /\ TrueDisk(d, at).at = at
<1> PICK dsk : dsk = TrueDisk(d, at) OBVIOUS
<1>1. /\ IsDisk(dsk) /\ dsk.shape = DiskFormat[d.format] /\ dsk.format = d.format /\ dsk.at = at
      /\ dsk.sectors = d.sectors /\ dsk.ext = d.ext /\ dsk.layout = d.layout /\ dsk.boot = d.boot
  BY DEF TrueDisk, IsDisk
<1> QED BY <1>1, DiskCases DEF Fits, Interleaved

\* A disk of 800K has its blocks at the same places in linear and in DOS order.
LEMMA SameBlocks ==
  ASSUME NEW d, Imaged(d), OfProDOS(d), NEW x, Fits(d, x), NEW y, Fits(d, y)
  PROVE  /\ \A b : BlockPlaces(x, b) = BlockPlaces(y, b)
         /\ \A t, s : SectorPointer(x, t, s) = SectorPointer(y, t, s)
<1>1. x.shape = y.shape /\ x.sectors = y.sectors /\ x.sectors = d.sectors
  BY DEF Fits
<1>2. \/ x.layout = y.layout
      \/ /\ d.sectors = 3200 /\ x.layout \notin Interleaved /\ y.layout \notin Interleaved
  BY DiskCases DEF Fits, OfDOS, OfProDOS, Interleaved
<1>3. \A t, s : SectorPointer(x, t, s) = SectorPointer(y, t, s)
  BY <1>1, <1>2 DEF SectorPointer, Mapped
<1>4. \A b : GetBlockSectors(x, b) = GetBlockSectors(y, b)
  BY <1>1, <1>2 DEF GetBlockSectors, BlocksPerTrack, Sectors800K
<1> QED BY <1>3, <1>4 DEF BlockPlaces

\* The volume header is read where it is.
LEMMA HeaderOf ==
  ASSUME NEW d, Imaged(d), OfProDOS(d), NEW dsk, Fits(d, dsk)
  PROVE  Header(dsk, 2) = Cell(dsk.at, HeaderPlace(d))
<1>1. KnownShape(dsk) /\ IsProDOS(dsk) /\ BlocksPerTrack(dsk) \in {8, 10, 20}
  BY FitsProDOS
<1>2. GetBlockSectors(dsk, 2).track = 0
  BY <1>1 DEF GetBlockSectors
<1>3. GetBlockSectors(dsk, 2).pair[1] \in 0 .. dsk.shape.uspt - 1
  BY <1>1, PairsOfTrack DEF Pair
<1>4. dsk.shape.tpd \in {35, 80}
  BY <1>1, Shapes
<1>5. CanSeek(dsk, GetBlockSectors(dsk, 2).track, GetBlockSectors(dsk, 2).pair[1])
  BY <1>2, <1>3, <1>4 DEF CanSeek
<1>6. SectorPointer(dsk, GetBlockSectors(dsk, 2).track, GetBlockSectors(dsk, 2).pair[1]) = HeaderPlace(d)
  BY HeaderIsThere DEF BlockPlaces
<1> QED BY <1>5, <1>6, AtIsCell DEF Header, Sector

\* The volume header with other files in it.
WithHeader(dsk, in) ==
  WrittenBlock(dsk, 2, <<VDH(Header(dsk, 2).blocks, in), At(dsk, BlockPlaces(dsk, 2)[2])>>)

\* Writing it leaves a ProDOS volume a ProDOS volume.
LEMMA HeaderWritten ==
  ASSUME NEW d, Imaged(d), OfProDOS(d), NEW dsk, Fits(d, dsk), Volume(d, dsk.at), NEW in \in SUBSET Names
  PROVE  LET w == WithHeader(dsk, in) IN
         /\ SameDisk(w, dsk)
         /\ Volume(d, w.at)
         /\ Cell(w.at, HeaderPlace(d)).files = in
         /\ \A p : p # HeaderPlace(d) => Cell(w.at, p) = Cell(dsk.at, p)
<1> PICK P : P = HeaderPlace(d) OBVIOUS
<1> PICK Q : Q = BlockPlaces(dsk, 2)[2] OBVIOUS
<1> PICK v : v = VDH(Header(dsk, 2).blocks, in) OBVIOUS
<1> PICK w : w = WithHeader(dsk, in) OBVIOUS
<1>1. BlockPlaces(dsk, 2)[1] = P
  BY HeaderIsThere
<1>2. /\ SameDisk(w, dsk) /\ DOMAIN w.at = DOMAIN dsk.at \cup {P, Q}
      /\ \A p : Cell(w.at, p) = IF p = Q THEN Cell(dsk.at, Q) ELSE IF p = P THEN v ELSE Cell(dsk.at, p)
  BY <1>1, WrittenPair, AtIsCell DEF Fits, WithHeader
<1>3. P # Q
  <2>1. BlockPlaces(dsk, 2)[1] = BlockPlaces(dsk, 2)[2] => 1 = 2
    BY HalvesApart
  <2> QED BY <2>1, <1>1
<1>4. IsVDH(Cell(dsk.at, P), Blocks(d)) /\ \A p \in Int : p # P => IsData(Cell(dsk.at, p))
  BY DEF Volume, ProDOSVolume
<1>5. Header(dsk, 2).blocks = Blocks(d)
  BY <1>4, HeaderOf DEF IsVDH
<1>6. IsVDH(v, Blocks(d)) /\ v.files = in
  BY <1>5 DEF IsVDH, VDH
<1>7. Blocks(d) \in {280, 800, 1600}
  BY DiskCases DEF Blocks
<1>8. P \in 0 .. d.sectors - 1 /\ Q \in 0 .. d.sectors - 1
  BY <1>1, <1>7, HalvesFit
<1>9. Cell(w.at, P) = v /\ \A p : p # P => Cell(w.at, p) = Cell(dsk.at, p)
  BY <1>2, <1>3
<1>10. Volume(d, w.at)
  BY <1>2, <1>4, <1>6, <1>8, <1>9 DEF Volume, ProDOSVolume, OfDOS, OfProDOS
<1> QED BY <1>2, <1>6, <1>9, <1>10

\* So does writing the data of a file.
LEMMA BlockWritten ==
  ASSUME NEW d, Imaged(d), OfProDOS(d), NEW dsk, Fits(d, dsk), Volume(d, dsk.at), NEW n \in Names
  PROVE  LET w == WrittenBlock(dsk, HomeBlock(n), Contents(n))
             places == BlockPlaces(dsk, HomeBlock(n)) IN
         /\ SameDisk(w, dsk)
         /\ Volume(d, w.at)
         /\ \A h \in {1, 2} : Cell(w.at, places[h]) = Contents(n)[h] /\ places[h] # HeaderPlace(d)
         /\ \A p : p \notin {places[1], places[2]} => Cell(w.at, p) = Cell(dsk.at, p)
<1> PICK b : b = HomeBlock(n) OBVIOUS
<1> PICK P : P = BlockPlaces(dsk, b)[1] OBVIOUS
<1> PICK Q : Q = BlockPlaces(dsk, b)[2] OBVIOUS
<1> PICK w : w = WrittenBlock(dsk, b, Contents(n)) OBVIOUS
<1>1. /\ SameDisk(w, dsk) /\ DOMAIN w.at = DOMAIN dsk.at \cup {P, Q}
      /\ \A p : Cell(w.at, p) = IF p = Q THEN Contents(n)[2] ELSE IF p = P THEN Contents(n)[1] ELSE Cell(dsk.at, p)
  BY WrittenPair DEF Fits
<1>2. b \in 7 .. 18
  BY HomeAssumption DEF HomeBlock
<1>3. P # Q
  <2>1. BlockPlaces(dsk, b)[1] = BlockPlaces(dsk, b)[2] => 1 = 2
    BY <1>2, HalvesApart
  <2> QED BY <2>1
<1>4. P # HeaderPlace(d) /\ Q # HeaderPlace(d)
  <2>1. ASSUME NEW h \in {1, 2} PROVE BlockPlaces(dsk, b)[h] # BlockPlaces(dsk, 2)[1]
    <3>1. BlockPlaces(dsk, b)[h] = BlockPlaces(dsk, 2)[1] => b = 2
      BY <1>2, HalvesApart
    <3> QED BY <3>1, <1>2
  <2> QED BY <2>1, HeaderIsThere
<1>5. Blocks(d) \in {280, 800, 1600}
  BY DiskCases DEF Blocks
<1>6. P \in 0 .. d.sectors - 1 /\ Q \in 0 .. d.sectors - 1
  BY <1>2, <1>5, HalvesFit
<1>7. IsData(Contents(n)[1]) /\ IsData(Contents(n)[2])
  BY DEF IsData, Contents
<1>8. Volume(d, w.at)
  BY <1>1, <1>4, <1>6, <1>7 DEF Volume, ProDOSVolume, OfDOS, OfProDOS
<1> QED BY <1>1, <1>3, <1>4, <1>8

\* The entry that is looked for is found, if there is one.
LEMMA EntryFound ==
  ASSUME NEW dsk, NEW file, EntriesWith(dsk, file) # {}
  PROVE  EntryWith(dsk, file) \in EntriesWith(dsk, file)
<1> PICK sector : sector = CatalogChain(dsk) OBVIOUS
<1> PICK K : K = {k \in 1 .. 15 : sector[k] \in EntriesWith(dsk, file)} OBVIOUS
<1>1. \A s \in EntriesWith(dsk, file) : \E k \in 1 .. 15 : s = sector[k]
  BY DEF EntriesWith, CatalogSectors
<1>2. K \in SUBSET Nat /\ K # {}
  BY <1>1
<1>3. Least(K) \in K
  BY <1>2, LeastOfSome
<1>4. EntryWith(dsk, file) = sector[Least(K)]
  BY DEF EntryWith
<1> QED BY <1>3, <1>4

\* A look at a DOS disk that was made in DOS order, in an order that is the same.
Straight(d, dsk) ==
  /\ OfDOS(d) /\ d.layout = "DOS33"
  /\ dsk.layout \notin Interleaved /\ dsk.shape.spt = Spt(d) /\ Volume(d, dsk.at)

\* What is read of it.
LEMMA StraightSectors ==
  ASSUME NEW d, Imaged(d), NEW dsk, Straight(d, dsk)
  PROVE  /\ \A t, s : Sector(dsk, t, s) = Cell(dsk.at, t * Spt(d) + s)
         /\ Sector(dsk, 17, 0) = [tag |-> "vtoc", spt |-> Spt(d)]
         /\ \A s \in 1 .. Spt(d) - 1 : IsCatalog(Sector(dsk, 17, s), s)
<1>1. \A t, s : Sector(dsk, t, s) = Cell(dsk.at, t * Spt(d) + s)
  BY AtIsCell DEF Sector, SectorPointer, Mapped, Interleaved, Straight
<1>2. DOSVolume(d, dsk.at)
  BY DEF Straight, Volume
<1>3. Spt(d) \in {13, 16} /\ 17 * Spt(d) + 0 = 17 * Spt(d)
  BY DEF Spt
<1>4. \A s : Place(d, 17, s) = 17 * Spt(d) + s
  BY DEF Place, Straight, Mapped, Interleaved
<1> QED BY <1>1, <1>2, <1>3, <1>4 DEF DOSVolume

\* The links lead through all catalog sectors, from the last to the first.
LEMMA ChainIsWhole ==
  ASSUME NEW d, Imaged(d), NEW dsk, Straight(d, dsk)
  PROVE  CatalogSectors(dsk) = 1 .. Spt(d) - 1
<1> DEFINE Step(h) == [k \in 1 .. 15 |->
              IF k = 1 THEN Sector(dsk, VTOCTrack, 0).spt - 1
              ELSE LET s == h[k - 1] IN
                   IF IsCatalogSector(dsk, s) THEN Sector(dsk, VTOCTrack, s).next ELSE 0]
           down == [k \in 1 .. 15 |-> IF k < Spt(d) THEN Spt(d) - k ELSE 0]
           c == CatalogChain(dsk)
<1>1. Spt(d) \in {13, 16}
  BY DEF Spt
<1>2. /\ Sector(dsk, VTOCTrack, 0).spt - 1 = Spt(d) - 1
      /\ \A s \in 1 .. Spt(d) - 1 : IsCatalogSector(dsk, s) /\ Sector(dsk, VTOCTrack, s).next = s - 1
      /\ ~IsCatalogSector(dsk, 0)
  BY <1>1, StraightSectors DEF IsCatalogSector, IsCatalog, VTOCTrack
<1>3. ASSUME NEW h, NEW k \in 1 .. 15, k > 1 => h[k - 1] = down[k - 1]
      PROVE  Step(h)[k] = down[k]
  BY <1>1, <1>2, <1>3
<1>4. down = Step(down)
  <2>1. \A k \in 1 .. 15 : Step(down)[k] = down[k]
    BY <1>3
  <2> QED BY <2>1
<1>5. c = CHOOSE h : h = Step(h)
  BY DEF CatalogChain
<1>6. c = Step(c)
  BY <1>4, <1>5
<1> HIDE DEF Step, down, c
<1>7. \A k \in 1 .. 15 : c[k] = down[k]
  <2> PICK S : S = {0} OBVIOUS
  <2> PICK gap : gap = [k \in 0 .. 14 |-> IF c[k + 1] = down[k + 1] THEN 0 ELSE 1] OBVIOUS
  <2>0. \A k \in 0 .. 14 : gap[k] \in S <=> c[k + 1] = down[k + 1]
    OBVIOUS
  <2>1. gap[0] \in S
    <3>1. Step(c)[1] = down[1]
      BY <1>3
    <3>2. c[1] = down[1]
      BY <3>1, <1>6
    <3> QED BY <3>2, <2>0
  <2>2. ASSUME NEW k \in 1 .. 14, gap[k - 1] \in S
        PROVE  gap[k] \in S
    <3>1. k - 1 \in 0 .. 14 /\ (k - 1) + 1 = k
      OBVIOUS
    <3>2. c[k] = down[k]
      BY <3>1, <2>0, <2>2
    <3>3. k + 1 \in 1 .. 15 /\ (k + 1) - 1 = k
      OBVIOUS
    <3>4. Step(c)[k + 1] = down[k + 1]
      BY <3>2, <3>3, <1>3
    <3>5. c[k + 1] = down[k + 1]
      BY <3>4, <1>6
    <3> QED BY <3>5, <2>0
  <2>3. \A k \in 0 .. 14 : gap[k] \in S
    <3>1. 14 \in Nat
      OBVIOUS
    <3> QED BY <3>1, <2>1, <2>2, RecursionInside
  <2>4. ASSUME NEW k \in 1 .. 15
        PROVE  c[k] = down[k]
    <3>1. k - 1 \in 0 .. 14 /\ (k - 1) + 1 = k
      OBVIOUS
    <3> QED BY <3>1, <2>0, <2>3
  <2> QED BY <2>4
<1>8. \A k \in 1 .. 15 : down[k] = IF k < Spt(d) THEN Spt(d) - k ELSE 0
  BY DEF down
<1>9. CatalogSectors(dsk) = {s \in {c[k] : k \in 1 .. 15} : IsCatalogSector(dsk, s)}
  BY DEF CatalogSectors, c
<1>10. ASSUME NEW s \in CatalogSectors(dsk)
       PROVE  s \in 1 .. Spt(d) - 1
  <2>1. PICK k \in 1 .. 15 : s = c[k]
    BY <1>9
  <2>2. s # 0
    BY <1>9 DEF IsCatalogSector
  <2> QED BY <2>1, <2>2, <1>1, <1>7, <1>8
<1>11. ASSUME NEW s \in 1 .. Spt(d) - 1
       PROVE  s \in CatalogSectors(dsk)
  <2>1. Spt(d) - s \in 1 .. 15 /\ Spt(d) - s < Spt(d) /\ Spt(d) - (Spt(d) - s) = s
    BY <1>1
  <2>2. c[Spt(d) - s] = s
    BY <2>1, <1>7, <1>8
  <2> QED BY <2>1, <2>2, <1>2, <1>9
<1> QED BY <1>10, <1>11

\* The catalog of a DOS volume in DOS order names each file once, and its data
\* are where they were put.
DOSHolds(d, at, in) ==
  /\ \A s \in 1 .. Spt(d) - 1 : Cell(at, 17 * Spt(d) + s).file \in in \cup {NoFile}
  /\ \A n \in in : \E s \in 1 .. Spt(d) - 1 : Cell(at, 17 * Spt(d) + s).file = n
  /\ \A r, s \in 1 .. Spt(d) - 1 :
       Cell(at, 17 * Spt(d) + r).file = Cell(at, 17 * Spt(d) + s).file =>
         r = s \/ Cell(at, 17 * Spt(d) + r).file = NoFile
  /\ \A n \in in : Cell(at, 18 * Spt(d) + HomeOf[n]) = Contents(n)[1]

\* The header of a ProDOS volume names the files, and so on.
Halved(d, n, h) == BlockPlaces(TrueDisk(d, <<>>), HomeBlock(n))[h]

ProDOSHolds(d, at, in) ==
  /\ Cell(at, HeaderPlace(d)).files = in
  /\ \A n \in in, h \in {1, 2} : Cell(at, Halved(d, n, h)) = Contents(n)[h]

Holds(d, at, in) ==
  /\ in \subseteq Names
  /\ (OfDOS(d) /\ d.layout = "DOS33" /\ d.ext # "po") => DOSHolds(d, at, in)
  /\ OfProDOS(d) => ProDOSHolds(d, at, in)

\* So is every disk that is taken for it.
LEMMA FitsStraight ==
  ASSUME NEW d, Imaged(d), OfDOS(d), d.layout = "DOS33", d.ext # "po",
         NEW dsk, Fits(d, dsk), Volume(d, dsk.at)
  PROVE  Straight(d, dsk)
BY FitsDOS DEF Straight

\* A DOS disk has a directory,
LEMMA DOSDirectory ==
  ASSUME NEW d, Imaged(d), OfDOS(d), NEW dsk, Fits(d, dsk), Volume(d, dsk.at)
  PROVE  HasDirectory(dsk) /\ Listed(dsk) = CatalogFiles(dsk)
<1>1. Sector(dsk, 17, 0) = Cell(dsk.at, 17 * Spt(d))
  BY AtIsCell, FitsDOS DEF Sector
<1>2. Cell(dsk.at, 17 * Spt(d)) = [tag |-> "vtoc", spt |-> Spt(d)]
  BY DEF Volume, DOSVolume
<1>3. HasDirectory(dsk)
  BY <1>1, <1>2, FitsDOS DEF HasDirectory, HasVTOC, VTOCTrack
<1> QED BY <1>3, FitsDOS DEF Listed

\* which in DOS order lists what the disk holds;
LEMMA DOSListed ==
  ASSUME NEW d, Imaged(d), NEW dsk, Straight(d, dsk), NEW in \in SUBSET Names, DOSHolds(d, dsk.at, in)
  PROVE  CatalogFiles(dsk) = in
<1>1. CatalogSectors(dsk) = 1 .. Spt(d) - 1
  BY ChainIsWhole
<1>2. \A s : Sector(dsk, VTOCTrack, s) = Cell(dsk.at, 17 * Spt(d) + s)
  BY StraightSectors DEF VTOCTrack
<1>3. CatalogFiles(dsk) = {Cell(dsk.at, 17 * Spt(d) + s).file : s \in 1 .. Spt(d) - 1} \ {NoFile}
  BY <1>1, <1>2 DEF CatalogFiles
<1> QED BY <1>3, ModelValues DEF DOSHolds

\* so has a ProDOS disk.
LEMMA ProDOSDirectory ==
  ASSUME NEW d, Imaged(d), OfProDOS(d), NEW dsk, Fits(d, dsk), Volume(d, dsk.at)
  PROVE  /\ HasDirectory(dsk) /\ Listed(dsk) = Cell(dsk.at, HeaderPlace(d)).files
         /\ Listed(dsk) \subseteq Names
<1>1. IsVDH(Cell(dsk.at, HeaderPlace(d)), Blocks(d))
  BY DEF Volume, ProDOSVolume
<1>2. Header(dsk, 2) = Cell(dsk.at, HeaderPlace(d))
  BY HeaderOf
<1>3. HasDirectory(dsk)
  BY <1>1, <1>2, FitsProDOS DEF HasDirectory, IsVDH
<1> QED BY <1>1, <1>2, <1>3, FitsProDOS DEF Listed, IsVDH

\* What a disk holds is what is listed, and reads back.
LEMMA HeldIsRead ==
  ASSUME NEW d, Imaged(d), NEW dsk, Fits(d, dsk), Volume(d, dsk.at), NEW in, Holds(d, dsk.at, in),
         OfProDOS(d) \/ (OfDOS(d) /\ d.layout = "DOS33" /\ d.ext # "po")
  PROVE  Listed(dsk) = in /\ \A n \in in : Intact(dsk, n)
<1>1. CASE OfProDOS(d)
  <2>1. ProDOSHolds(d, dsk.at, in)
    BY <1>1 DEF Holds
  <2>2. Listed(dsk) = in
    BY <1>1, <2>1, ProDOSDirectory DEF ProDOSHolds
  <2>3. ASSUME NEW n \in in, NEW h \in {1, 2}
        PROVE  At(dsk, BlockPlaces(dsk, HomeBlock(n))[h]) = Contents(n)[h]
    <3>1. Fits(d, TrueDisk(d, <<>>))
      BY <1>1, TrueFits
    <3>2. BlockPlaces(dsk, HomeBlock(n)) = BlockPlaces(TrueDisk(d, <<>>), HomeBlock(n))
      BY <1>1, <3>1, SameBlocks
    <3> QED BY <3>2, <2>1, AtIsCell DEF ProDOSHolds, Halved
  <2>4. ~IsDOS(dsk)
    BY <1>1, FitsProDOS
  <2> QED BY <2>2, <2>3, <2>4 DEF Intact
<1>2. CASE OfDOS(d) /\ d.layout = "DOS33" /\ d.ext # "po"
  <2>1. DOSHolds(d, dsk.at, in) /\ in \subseteq Names
    BY <1>2 DEF Holds
  <2>2. Straight(d, dsk)
    BY <1>2, FitsStraight
  <2>3. Listed(dsk) = in
    BY <1>2, <2>1, <2>2, DOSListed, DOSDirectory
  <2>4. ASSUME NEW n \in in
        PROVE  Sector(dsk, VTOCTrack + 1, HomeOf[n]) = Contents(n)[1]
    BY <2>1, <2>2, StraightSectors DEF DOSHolds, VTOCTrack
  <2>5. IsDOS(dsk)
    BY <1>2, FitsDOS
  <2> QED BY <2>3, <2>4, <2>5 DEF Intact
<1> QED BY <1>1, <1>2

\* On a DOS volume: an entry is changed.
LEMMA DOSEntryChanged ==
  ASSUME NEW d, Imaged(d), NEW dsk, Fits(d, dsk), Straight(d, dsk), NEW e, IsCatalogSector(dsk, e),
         NEW file \in Names \cup {NoFile}
  PROVE  LET w == WithCatalogEntry(dsk, e, file) IN
         \E r \in 1 .. Spt(d) - 1 :
           /\ Sector(dsk, 17, e) = Cell(dsk.at, 17 * Spt(d) + r)
           /\ Cell(w.at, 17 * Spt(d) + r).file = file
           /\ \A p : p # 17 * Spt(d) + r => Cell(w.at, p) = Cell(dsk.at, p)
<1> PICK w : w = WithCatalogEntry(dsk, e, file) OBVIOUS
<1>1. OfDOS(d) /\ Volume(d, dsk.at)
  BY DEF Straight
<1>2. \A s : Place(d, 17, s) = 17 * Spt(d) + s
  BY DEF Place, Straight, Mapped, Interleaved
<1>3. Sector(dsk, 17, e) = Cell(dsk.at, SectorPointer(dsk, 17, e))
  BY AtIsCell DEF Sector
<1>4. /\ \E s \in 1 .. Spt(d) - 1 :
           /\ SectorPointer(dsk, 17, e) = Place(d, 17, s)
           /\ Cell(w.at, Place(d, 17, s)).file = file
      /\ \A p : p # SectorPointer(dsk, 17, e) => Cell(w.at, p) = Cell(dsk.at, p)
  BY <1>1, EntryWritten
<1>5. PICK r \in 1 .. Spt(d) - 1 :
        SectorPointer(dsk, 17, e) = Place(d, 17, r) /\ Cell(w.at, Place(d, 17, r)).file = file
  BY <1>4
<1>6. SectorPointer(dsk, 17, e) = 17 * Spt(d) + r
  BY <1>2, <1>5
<1>7. Cell(w.at, 17 * Spt(d) + r).file = file
  BY <1>5, <1>6
<1>8. \A p : p # 17 * Spt(d) + r => Cell(w.at, p) = Cell(dsk.at, p)
  BY <1>4, <1>6
<1> QED BY <1>3, <1>6, <1>7, <1>8

\* A file is put (the entry, then the data), and the disk holds one file more.
LEMMA PutDOS ==
  ASSUME NEW d, Imaged(d), OfDOS(d), NEW dsk, Fits(d, dsk), Volume(d, dsk.at), NEW n \in Names, CanTake(dsk, n),
         NEW in, Holds(d, dsk.at, in)
  PROVE  LET w == WithFile(dsk, n) IN
         SameDisk(w, dsk) /\ Volume(d, w.at) /\ Holds(d, w.at, in \cup {n})
<1> PICK e : e = EntryWith(dsk, NoFile) OBVIOUS
<1> PICK x : x = WithCatalogEntry(dsk, e, n) OBVIOUS
<1> PICK w : w = Written(x, 18, HomeOf[n], Contents(n)[1]) OBVIOUS
<1>1. IsDOS(dsk)
  BY FitsDOS
<1>2. WithFile(dsk, n) = w
  BY <1>1 DEF WithFile, VTOCTrack
<1>3. e \in EntriesWith(dsk, NoFile)
  BY <1>1, EntryFound DEF CanTake
<1>4. IsCatalogSector(dsk, e) /\ Sector(dsk, 17, e).file = NoFile
  BY <1>3 DEF EntriesWith, CatalogSectors, VTOCTrack
<1>5. SameDisk(x, dsk) /\ Volume(d, x.at)
  BY <1>4, EntryWritten
<1>6. Fits(d, x)
  BY <1>5, FitsStays
<1> PICK q : q = 18 * Spt(d) + Mapped(x.layout, HomeOf[n]) OBVIOUS
<1>7. /\ SameDisk(w, x) /\ Volume(d, w.at)
      /\ q \in Int /\ q \notin 17 * Spt(d) .. 18 * Spt(d) - 1
      /\ \A p : Cell(w.at, p) = IF p = q THEN Contents(n)[1] ELSE Cell(x.at, p)
  <2>1. DataIn(d, x, n)
    BY <1>5, <1>6, DataWritten
  <2> QED BY <2>1 DEF DataIn
<1>8. SameDisk(w, dsk)
  BY <1>5, <1>7 DEF SameDisk
<1>9. ASSUME d.layout = "DOS33", d.ext # "po"
      PROVE  DOSHolds(d, w.at, in \cup {n})
  <2>1. Straight(d, dsk) /\ DOSHolds(d, dsk.at, in) /\ in \subseteq Names
    BY <1>9, FitsStraight DEF Holds
  <2>2. PICK r \in 1 .. Spt(d) - 1 :
          /\ Sector(dsk, 17, e) = Cell(dsk.at, 17 * Spt(d) + r)
          /\ Cell(x.at, 17 * Spt(d) + r).file = n
          /\ \A p : p # 17 * Spt(d) + r => Cell(x.at, p) = Cell(dsk.at, p)
    BY <1>4, <2>1, DOSEntryChanged
  <2>3. x.layout \notin Interleaved
    BY <1>6, <1>9, FitsDOS
  <2>4. q = 18 * Spt(d) + HomeOf[n]
    BY <2>3 DEF Mapped, Interleaved
  <2>5. n \notin in
    <3>1. Listed(dsk) = in
      BY <2>1, DOSListed, DOSDirectory
    <3> QED BY <3>1 DEF CanTake
  <2>6. Spt(d) \in {13, 16}
    BY DEF Spt
  <2>7. \A s \in 1 .. Spt(d) - 1 :
          Cell(w.at, 17 * Spt(d) + s).file = IF s = r THEN n ELSE Cell(dsk.at, 17 * Spt(d) + s).file
    <3> SUFFICES ASSUME NEW s \in 1 .. Spt(d) - 1
                 PROVE  Cell(w.at, 17 * Spt(d) + s).file =
                          IF s = r THEN n ELSE Cell(dsk.at, 17 * Spt(d) + s).file
      OBVIOUS
    <3>1. 17 * Spt(d) + s # q
      BY <1>7, <2>6
    <3>2. Cell(w.at, 17 * Spt(d) + s) = Cell(x.at, 17 * Spt(d) + s)
      BY <3>1, <1>7
    <3>3. s # r => 17 * Spt(d) + s # 17 * Spt(d) + r
      BY <2>6
    <3> QED BY <2>2, <3>2, <3>3
  <2>8. Cell(dsk.at, 17 * Spt(d) + r).file = NoFile
    BY <1>4, <2>2
  <2>9. \A s \in 1 .. Spt(d) - 1 : Cell(w.at, 17 * Spt(d) + s).file \in (in \cup {n}) \cup {NoFile}
    BY <2>1, <2>7 DEF DOSHolds
  <2>10. \A m \in in \cup {n} : \E s \in 1 .. Spt(d) - 1 : Cell(w.at, 17 * Spt(d) + s).file = m
    <3> SUFFICES ASSUME NEW m \in in \cup {n}
                 PROVE  \E s \in 1 .. Spt(d) - 1 : Cell(w.at, 17 * Spt(d) + s).file = m
      OBVIOUS
    <3>1. CASE m = n
      BY <3>1, <2>7
    <3>2. CASE m # n
      <4>1. PICK s \in 1 .. Spt(d) - 1 : Cell(dsk.at, 17 * Spt(d) + s).file = m
        BY <3>2, <2>1 DEF DOSHolds
      <4>2. s # r
        BY <4>1, <3>2, <2>1, <2>8, ModelValues
      <4> QED BY <4>1, <4>2, <2>7
    <3> QED BY <3>1, <3>2
  <2>11. \A s, t \in 1 .. Spt(d) - 1 :
           Cell(w.at, 17 * Spt(d) + s).file = Cell(w.at, 17 * Spt(d) + t).file =>
             s = t \/ Cell(w.at, 17 * Spt(d) + s).file = NoFile
    <3> SUFFICES ASSUME NEW s \in 1 .. Spt(d) - 1, NEW t \in 1 .. Spt(d) - 1,
                        Cell(w.at, 17 * Spt(d) + s).file = Cell(w.at, 17 * Spt(d) + t).file, s # t
                 PROVE  Cell(w.at, 17 * Spt(d) + s).file = NoFile
      OBVIOUS
    <3>1. \A k \in 1 .. Spt(d) - 1 : Cell(dsk.at, 17 * Spt(d) + k).file # n
      BY <2>1, <2>5, ModelValues DEF DOSHolds
    <3>2. s # r /\ t # r
      BY <3>1, <2>7
    <3> QED BY <3>2, <2>1, <2>7 DEF DOSHolds
  <2>12. \A m \in in \cup {n} : Cell(w.at, 18 * Spt(d) + HomeOf[m]) = Contents(m)[1]
    <3> SUFFICES ASSUME NEW m \in in \cup {n}
                 PROVE  Cell(w.at, 18 * Spt(d) + HomeOf[m]) = Contents(m)[1]
      OBVIOUS
    <3>1. CASE m = n
      BY <3>1, <2>4, <1>7
    <3>2. CASE m # n
      <4>1. m \in Names /\ HomeOf[m] \in 1 .. 12 /\ HomeOf[n] \in 1 .. 12 /\ HomeOf[m] # HomeOf[n]
        BY <3>2, <2>1, HomeAssumption
      <4>2. 18 * Spt(d) + HomeOf[m] # q /\ 18 * Spt(d) + HomeOf[m] # 17 * Spt(d) + r
        BY <4>1, <2>4, <2>6
      <4>3. Cell(w.at, 18 * Spt(d) + HomeOf[m]) = Cell(dsk.at, 18 * Spt(d) + HomeOf[m])
        BY <4>2, <1>7, <2>2
      <4> QED BY <4>3, <3>2, <2>1 DEF DOSHolds
    <3> QED BY <3>1, <3>2
  <2> QED BY <2>9, <2>10, <2>11, <2>12 DEF DOSHolds
<1>10. Holds(d, w.at, in \cup {n})
  BY <1>9 DEF Holds, OfDOS, OfProDOS
<1> QED BY <1>2, <1>7, <1>8, <1>10

\* A file is deleted, and the disk holds one file less.
LEMMA DeleteDOS ==
  ASSUME NEW d, Imaged(d), OfDOS(d), NEW dsk, Fits(d, dsk), Volume(d, dsk.at), NEW n \in Names, n \in Listed(dsk),
         NEW in, Holds(d, dsk.at, in)
  PROVE  LET w == WithoutFile(dsk, n) IN
         SameDisk(w, dsk) /\ Volume(d, w.at) /\ Holds(d, w.at, in \ {n})
<1> PICK e : e = EntryWith(dsk, n) OBVIOUS
<1> PICK w : w = WithCatalogEntry(dsk, e, NoFile) OBVIOUS
<1>1. IsDOS(dsk)
  BY FitsDOS
<1>2. WithoutFile(dsk, n) = w
  BY <1>1 DEF WithoutFile
<1>3. EntriesWith(dsk, n) # {}
  BY DOSDirectory DEF CatalogFiles, EntriesWith
<1>4. e \in EntriesWith(dsk, n)
  BY <1>3, EntryFound
<1>5. IsCatalogSector(dsk, e) /\ Sector(dsk, 17, e).file = n
  BY <1>4 DEF EntriesWith, CatalogSectors, VTOCTrack
<1>6. SameDisk(w, dsk) /\ Volume(d, w.at)
  BY <1>5, EntryWritten
<1>9. ASSUME d.layout = "DOS33", d.ext # "po"
      PROVE  DOSHolds(d, w.at, in \ {n})
  <2>1. Straight(d, dsk) /\ DOSHolds(d, dsk.at, in) /\ in \subseteq Names
    BY <1>9, FitsStraight DEF Holds
  <2>2. PICK r \in 1 .. Spt(d) - 1 :
          /\ Sector(dsk, 17, e) = Cell(dsk.at, 17 * Spt(d) + r)
          /\ Cell(w.at, 17 * Spt(d) + r).file = NoFile
          /\ \A p : p # 17 * Spt(d) + r => Cell(w.at, p) = Cell(dsk.at, p)
    BY <1>5, <2>1, DOSEntryChanged
  <2>6. Spt(d) \in {13, 16}
    BY DEF Spt
  <2>7. \A s \in 1 .. Spt(d) - 1 :
          Cell(w.at, 17 * Spt(d) + s).file = IF s = r THEN NoFile ELSE Cell(dsk.at, 17 * Spt(d) + s).file
    <3> SUFFICES ASSUME NEW s \in 1 .. Spt(d) - 1
                 PROVE  Cell(w.at, 17 * Spt(d) + s).file =
                          IF s = r THEN NoFile ELSE Cell(dsk.at, 17 * Spt(d) + s).file
      OBVIOUS
    <3>3. s # r => 17 * Spt(d) + s # 17 * Spt(d) + r
      BY <2>6
    <3> QED BY <2>2, <3>3
  <2>8. Cell(dsk.at, 17 * Spt(d) + r).file = n
    BY <1>5, <2>2
  <2>3. \A s \in 1 .. Spt(d) - 1 : s # r => Cell(dsk.at, 17 * Spt(d) + s).file # n
    BY <2>1, <2>8, ModelValues DEF DOSHolds
  <2>9. \A s \in 1 .. Spt(d) - 1 : Cell(w.at, 17 * Spt(d) + s).file \in (in \ {n}) \cup {NoFile}
    BY <2>1, <2>3, <2>7 DEF DOSHolds
  <2>10. \A m \in in \ {n} : \E s \in 1 .. Spt(d) - 1 : Cell(w.at, 17 * Spt(d) + s).file = m
    <3> SUFFICES ASSUME NEW m \in in \ {n}
                 PROVE  \E s \in 1 .. Spt(d) - 1 : Cell(w.at, 17 * Spt(d) + s).file = m
      OBVIOUS
    <3>1. PICK s \in 1 .. Spt(d) - 1 : Cell(dsk.at, 17 * Spt(d) + s).file = m
      BY <2>1 DEF DOSHolds
    <3>2. s # r
      BY <3>1, <2>8
    <3> QED BY <3>1, <3>2, <2>7
  <2>11. \A s, t \in 1 .. Spt(d) - 1 :
           Cell(w.at, 17 * Spt(d) + s).file = Cell(w.at, 17 * Spt(d) + t).file =>
             s = t \/ Cell(w.at, 17 * Spt(d) + s).file = NoFile
    BY <2>1, <2>7 DEF DOSHolds
  <2>12. \A m \in in \ {n} : Cell(w.at, 18 * Spt(d) + HomeOf[m]) = Contents(m)[1]
    <3> SUFFICES ASSUME NEW m \in in \ {n}
                 PROVE  Cell(w.at, 18 * Spt(d) + HomeOf[m]) = Contents(m)[1]
      OBVIOUS
    <3>1. m \in Names /\ HomeOf[m] \in 1 .. 12
      BY <2>1, HomeAssumption
    <3>2. 18 * Spt(d) + HomeOf[m] # 17 * Spt(d) + r
      BY <3>1, <2>6
    <3>3. Cell(w.at, 18 * Spt(d) + HomeOf[m]) = Cell(dsk.at, 18 * Spt(d) + HomeOf[m])
      BY <3>2, <2>2
    <3> QED BY <3>3, <2>1 DEF DOSHolds
  <2> QED BY <2>9, <2>10, <2>11, <2>12 DEF DOSHolds
<1>10. Holds(d, w.at, in \ {n})
  BY <1>9 DEF Holds, OfDOS, OfProDOS
<1> QED BY <1>2, <1>6, <1>10

\* The blocks of two files are at different places, and none where the header is.
LEMMA HalvedPlaces ==
  ASSUME NEW d, Imaged(d), OfProDOS(d), NEW dsk, Fits(d, dsk)
  PROVE  /\ \A n, h : Halved(d, n, h) = BlockPlaces(dsk, HomeBlock(n))[h]
         /\ \A n \in Names, h \in {1, 2} : Halved(d, n, h) # HeaderPlace(d)
         /\ \A m, n \in Names, g, h \in {1, 2} : m # n => Halved(d, m, g) # Halved(d, n, h)
<1>1. Fits(d, TrueDisk(d, <<>>))
  BY TrueFits
<1>2. \A n, h : Halved(d, n, h) = BlockPlaces(dsk, HomeBlock(n))[h]
  BY <1>1, SameBlocks DEF Halved
<1>3. \A n \in Names : HomeBlock(n) \in Nat /\ HomeBlock(n) # 2
  BY HomeAssumption DEF HomeBlock
<1>4. \A m, n \in Names : m # n => HomeBlock(m) # HomeBlock(n)
  <2> SUFFICES ASSUME NEW m \in Names, NEW n \in Names, m # n PROVE HomeBlock(m) # HomeBlock(n)
    OBVIOUS
  <2>1. HomeOf[m] \in 1 .. 12 /\ HomeOf[n] \in 1 .. 12 /\ HomeOf[m] # HomeOf[n]
    BY HomeAssumption
  <2> QED BY <2>1 DEF HomeBlock
<1>5. ASSUME NEW n \in Names, NEW h \in {1, 2}
      PROVE  Halved(d, n, h) # HeaderPlace(d)
  <2>1. BlockPlaces(dsk, HomeBlock(n))[h] = BlockPlaces(dsk, 2)[1] => HomeBlock(n) = 2
    BY <1>3, HalvesApart
  <2> QED BY <2>1, <1>2, <1>3, HeaderIsThere
<1>6. ASSUME NEW m \in Names, NEW n \in Names, NEW g \in {1, 2}, NEW h \in {1, 2}, m # n
      PROVE  Halved(d, m, g) # Halved(d, n, h)
  <2>1. BlockPlaces(dsk, HomeBlock(m))[g] = BlockPlaces(dsk, HomeBlock(n))[h] => HomeBlock(m) = HomeBlock(n)
    BY <1>3, HalvesApart
  <2> QED BY <2>1, <1>2, <1>4, <1>6
<1> QED BY <1>2, <1>5, <1>6

HeaderIn(d, dsk, in) ==
  LET w == WithHeader(dsk, in) IN
  /\ SameDisk(w, dsk)
  /\ Volume(d, w.at)
  /\ Cell(w.at, HeaderPlace(d)).files = in
  /\ \A p : p # HeaderPlace(d) => Cell(w.at, p) = Cell(dsk.at, p)

\* The same on a ProDOS volume: a file is put,
LEMMA PutProDOS ==
  ASSUME NEW d, Imaged(d), OfProDOS(d), NEW dsk, Fits(d, dsk), Volume(d, dsk.at), NEW n \in Names,
         NEW in, Holds(d, dsk.at, in)
  PROVE  LET w == WithFile(dsk, n) IN
         SameDisk(w, dsk) /\ Volume(d, w.at) /\ Holds(d, w.at, in \cup {n})
<1> PICK new : new = in \cup {n} OBVIOUS
<1> PICK x : x = WithHeader(dsk, new) OBVIOUS
<1> PICK w : w = WrittenBlock(x, HomeBlock(n), Contents(n)) OBVIOUS
<1>1. in \subseteq Names /\ ProDOSHolds(d, dsk.at, in)
  BY DEF Holds
<1>2. new \in SUBSET Names
  BY <1>1
<1>3. Header(dsk, 2).files = in
  BY <1>1, HeaderOf DEF ProDOSHolds
<1>4. WithFile(dsk, n) = w
  BY <1>3, FitsProDOS DEF WithFile, WithHeader
<1>5. /\ SameDisk(x, dsk) /\ Volume(d, x.at)
      /\ Cell(x.at, HeaderPlace(d)).files = new
      /\ \A p : p # HeaderPlace(d) => Cell(x.at, p) = Cell(dsk.at, p)
  <2>1. HeaderIn(d, dsk, new)
    BY <1>2, HeaderWritten DEF HeaderIn
  <2> QED BY <2>1 DEF HeaderIn
<1>6. Fits(d, x)
  BY <1>5, FitsStays
<1>7. /\ SameDisk(w, x) /\ Volume(d, w.at)
      /\ \A h \in {1, 2} : Cell(w.at, Halved(d, n, h)) = Contents(n)[h]
      /\ \A p : p \notin {Halved(d, n, 1), Halved(d, n, 2)} => Cell(w.at, p) = Cell(x.at, p)
  <2>1. \A h : Halved(d, n, h) = BlockPlaces(x, HomeBlock(n))[h]
    BY <1>6, HalvedPlaces
  <2> QED BY <2>1, <1>5, <1>6, BlockWritten
<1>8. SameDisk(w, dsk)
  BY <1>5, <1>7 DEF SameDisk
<1>9. \A m \in Names, h \in {1, 2} : Halved(d, m, h) # HeaderPlace(d)
  BY HalvedPlaces
<1>10. Cell(w.at, HeaderPlace(d)).files = new
  BY <1>5, <1>7, <1>9
<1>11. ASSUME NEW m \in new, NEW h \in {1, 2}
       PROVE  Cell(w.at, Halved(d, m, h)) = Contents(m)[h]
  <2>1. CASE m = n
    BY <2>1, <1>7
  <2>2. CASE m # n
    <3>1. m \in in /\ m \in Names
      BY <2>2, <1>1
    <3>2. Halved(d, m, h) # Halved(d, n, 1) /\ Halved(d, m, h) # Halved(d, n, 2) /\ Halved(d, m, h) # HeaderPlace(d)
      BY <3>1, <2>2, HalvedPlaces
    <3>3. Cell(w.at, Halved(d, m, h)) = Cell(dsk.at, Halved(d, m, h))
      BY <3>2, <1>5, <1>7
    <3> QED BY <3>1, <3>3, <1>1 DEF ProDOSHolds
  <2> QED BY <2>1, <2>2
<1>12. Holds(d, w.at, new)
  BY <1>2, <1>10, <1>11 DEF Holds, ProDOSHolds, OfDOS, OfProDOS
<1> QED BY <1>4, <1>7, <1>8, <1>12

\* and a file is deleted.
LEMMA DeleteProDOS ==
  ASSUME NEW d, Imaged(d), OfProDOS(d), NEW dsk, Fits(d, dsk), Volume(d, dsk.at), NEW n \in Names,
         NEW in, Holds(d, dsk.at, in)
  PROVE  LET w == WithoutFile(dsk, n) IN
         SameDisk(w, dsk) /\ Volume(d, w.at) /\ Holds(d, w.at, in \ {n})
<1> PICK new : new = in \ {n} OBVIOUS
<1> PICK w : w = WithHeader(dsk, new) OBVIOUS
<1>1. in \subseteq Names /\ ProDOSHolds(d, dsk.at, in)
  BY DEF Holds
<1>2. new \in SUBSET Names
  BY <1>1
<1>3. Header(dsk, 2).files = in
  BY <1>1, HeaderOf DEF ProDOSHolds
<1>4. WithoutFile(dsk, n) = w
  BY <1>3, FitsProDOS DEF WithoutFile, WithHeader
<1>5. /\ SameDisk(w, dsk) /\ Volume(d, w.at)
      /\ Cell(w.at, HeaderPlace(d)).files = new
      /\ \A p : p # HeaderPlace(d) => Cell(w.at, p) = Cell(dsk.at, p)
  <2>1. HeaderIn(d, dsk, new)
    BY <1>2, HeaderWritten DEF HeaderIn
  <2> QED BY <2>1 DEF HeaderIn
<1>6. \A m \in Names, h \in {1, 2} : Halved(d, m, h) # HeaderPlace(d)
  BY HalvedPlaces
<1>7. ASSUME NEW m \in new, NEW h \in {1, 2}
      PROVE  Cell(w.at, Halved(d, m, h)) = Contents(m)[h]
  <2>1. m \in in /\ m \in Names
    BY <1>1
  <2>2. Cell(w.at, Halved(d, m, h)) = Cell(dsk.at, Halved(d, m, h))
    BY <2>1, <1>5, <1>6
  <2> QED BY <2>1, <2>2, <1>1 DEF ProDOSHolds
<1>8. Holds(d, w.at, new)
  BY <1>2, <1>5, <1>7 DEF Holds, ProDOSHolds, OfDOS, OfProDOS
<1> QED BY <1>4, <1>5, <1>8

\* What a command does to a disk that is read for what it is.
Kept(d, dsk, w, in) == SameDisk(w, dsk) /\ Fits(d, w) /\ Volume(d, w.at) /\ Holds(d, w.at, in)

\* Both commands do nothing else, whatever the system.
LEMMA FileKept ==
  ASSUME NEW d, Imaged(d), NEW dsk, Fits(d, dsk), Volume(d, dsk.at), NEW n \in Names, NEW in, Holds(d, dsk.at, in)
  PROVE  /\ CanTake(dsk, n) => Kept(d, dsk, WithFile(dsk, n), in \cup {n})
         /\ n \in Listed(dsk) => Kept(d, dsk, WithoutFile(dsk, n), in \ {n})
<1>1. OfDOS(d) \/ OfProDOS(d)
  BY DEF Fits
<1>2. ASSUME CanTake(dsk, n)
      PROVE  Kept(d, dsk, WithFile(dsk, n), in \cup {n})
  <2> PICK w : w = WithFile(dsk, n) OBVIOUS
  <2>1. SameDisk(w, dsk) /\ Volume(d, w.at) /\ Holds(d, w.at, in \cup {n})
    BY <1>1, <1>2, PutDOS, PutProDOS
  <2> QED BY <2>1, FitsStays DEF Kept
<1>3. ASSUME n \in Listed(dsk)
      PROVE  Kept(d, dsk, WithoutFile(dsk, n), in \ {n})
  <2> PICK w : w = WithoutFile(dsk, n) OBVIOUS
  <2>1. SameDisk(w, dsk) /\ Volume(d, w.at) /\ Holds(d, w.at, in \ {n})
    BY <1>1, <1>3, DeleteDOS, DeleteProDOS
  <2> QED BY <2>1, FitsStays DEF Kept
<1> QED BY <1>2, <1>3

------------------------------------------------------------------------------
(* A disk that was just initialised.                                       *)

\* A DOS disk that was just initialised has a VTOC and an empty catalog.
LEMMA InitialDOS ==
  ASSUME NEW d, Imaged(d), OfDOS(d)
  PROVE  LET at == Initialised(d) IN
         /\ DOMAIN at \subseteq 0 .. d.sectors - 1
         /\ \A s \in 0 .. Spt(d) - 1 :
              Cell(at, Place(d, 17, s)) =
                IF s = 0 THEN [tag |-> "vtoc", spt |-> Spt(d)]
                ELSE [tag |-> "catalog", next |-> s - 1, file |-> NoFile]
         /\ \A p : p \notin 17 * Spt(d) .. 18 * Spt(d) - 1 => Cell(at, p) = Blank
<1> PICK n : n = Spt(d) OBVIOUS
<1> PICK at : at = Initialised(d) OBVIOUS
<1> DEFINE Track == {Place(d, 17, s) : s \in 0 .. n - 1}
           Value(s) == IF s = 0 THEN [tag |-> "vtoc", spt |-> n]
                       ELSE [tag |-> "catalog", next |-> s - 1, file |-> NoFile]
<1>1. d.format \in {"DOS_13", "DOS_16"} /\ n \in {13, 16} /\ d.layout \in Layouts
  BY DiskCases DEF Spt
<1>2. DiskFormat[d.format].spt = n
  BY <1>1 DEF DiskFormat, Shape, Spt
<1> PICK dsk : dsk = TrueDisk(d, [p \in {} |-> Blank]) OBVIOUS
<1>3. \A t, s : SectorPointer(dsk, t, s) = Place(d, t, s)
  BY <1>2 DEF SectorPointer, TrueDisk, Place
<1>4. d.system = "DOS" /\ d.sectors # SectorsNIB
  BY DEF OfDOS
<1> DEFINE Sought(p) == CHOOSE s \in 0 .. n - 1 : SectorPointer(dsk, 17, s) = p
<1>13. {SectorPointer(dsk, 17, s) : s \in 0 .. n - 1} = Track
  BY <1>3
<1>5. at = [p \in Track |-> Value(Sought(p))]
  <2>1. at = [p \in {SectorPointer(dsk, 17, s) : s \in 0 .. n - 1} |-> Value(Sought(p))]
    BY <1>2, <1>4, ZenonT(40) DEF Initialised, VTOCTrack
  <2> QED BY <2>1, <1>13
<1> HIDE DEF Value
<1>6. \A s \in 0 .. n - 1 : Mapped(d.layout, s) \in 0 .. n - 1
  BY PlaceRange
<1>7. \A s \in 0 .. n - 1 : Place(d, 17, s) \in 17 * n .. 18 * n - 1
  <2> SUFFICES ASSUME NEW s \in 0 .. n - 1 PROVE Place(d, 17, s) \in 17 * n .. 18 * n - 1
    OBVIOUS
  <2> PICK m : m = Mapped(d.layout, s) OBVIOUS
  <2>1. m \in 0 .. n - 1
    BY <1>6
  <2>2. Place(d, 17, s) = 17 * n + m
    BY DEF Place
  <2> QED BY <1>1, <2>1, <2>2
<1>8. ASSUME NEW s \in 0 .. n - 1, NEW r \in 0 .. n - 1, Place(d, 17, r) = Place(d, 17, s)
      PROVE  r = s
  <2>1. Mapped(d.layout, r) = Mapped(d.layout, s)
    BY <1>1, <1>6, <1>8 DEF Place
  <2>2. r \in 0 .. 15 /\ s \in 0 .. 15
    BY <1>1
  <2> QED BY <1>1, <2>1, <2>2, MapperInjective
<1>9. ASSUME NEW s \in 0 .. n - 1
      PROVE  Cell(at, Place(d, 17, s)) = Value(s)
  <2> PICK r : r = Sought(Place(d, 17, s)) OBVIOUS
  <2>1. r \in 0 .. n - 1 /\ Place(d, 17, r) = Place(d, 17, s)
    BY <1>3
  <2>2. r = s
    BY <2>1, <1>8
  <2>3. Place(d, 17, s) \in Track
    OBVIOUS
  <2>4. at[Place(d, 17, s)] = Value(r)
    BY <2>3, <1>5
  <2> QED BY <2>2, <2>3, <2>4, <1>5 DEF Cell
<1>10. DOMAIN at = Track
  BY <1>5
<1>11. ASSUME NEW p, p \notin 17 * n .. 18 * n - 1
       PROVE  Cell(at, p) = Blank
  <2>1. p \notin Track
    BY <1>7, <1>11
  <2> QED BY <2>1, <1>10 DEF Cell
<1>12. DOMAIN at \subseteq 0 .. d.sectors - 1
  BY <1>1, <1>7, <1>10, DiskCases DEF Spt
<1> QED BY <1>9, <1>11, <1>12 DEF Value

\* An initialised disk is a volume of its system, and holds no file.
LEMMA InitialVolume ==
  ASSUME NEW d, Imaged(d)
  PROVE  Volume(d, Initialised(d)) /\ Holds(d, Initialised(d), {})
<1> PICK at : at = Initialised(d) OBVIOUS
<1>1. CASE OfDOS(d)
  <2>1. /\ DOMAIN at \subseteq 0 .. d.sectors - 1
        /\ \A s \in 0 .. Spt(d) - 1 :
             Cell(at, Place(d, 17, s)) =
               IF s = 0 THEN [tag |-> "vtoc", spt |-> Spt(d)]
               ELSE [tag |-> "catalog", next |-> s - 1, file |-> NoFile]
        /\ \A p : p \notin 17 * Spt(d) .. 18 * Spt(d) - 1 => Cell(at, p) = Blank
    BY <1>1, InitialDOS
  <2>2. Spt(d) \in {13, 16}
    BY DEF Spt
  <2>3. Place(d, 17, 0) = 17 * Spt(d)
    <3>1. Mapped(d.layout, 0) = 0
      BY <1>1, <2>2, PlaceRange
    <3> QED BY <3>1, <2>2 DEF Place
  <2>4. Cell(at, 17 * Spt(d)) = [tag |-> "vtoc", spt |-> Spt(d)]
    BY <2>1, <2>2, <2>3
  <2>5. \A s \in 1 .. Spt(d) - 1 :
          Cell(at, Place(d, 17, s)) = [tag |-> "catalog", next |-> s - 1, file |-> NoFile]
    BY <2>1, <2>2
  <2>6. DOSVolume(d, at)
    BY <2>1, <2>4, <2>5 DEF DOSVolume, IsCatalog, IsData, Blank
  <2>7. Volume(d, at)
    BY <1>1, <2>1, <2>6 DEF Volume, OfDOS, OfProDOS
  <2>8. ASSUME d.layout = "DOS33" PROVE DOSHolds(d, at, {})
    <3>1. \A s : Place(d, 17, s) = 17 * Spt(d) + s
      BY <2>8 DEF Place, Mapped, Interleaved
    <3>2. \A s \in 1 .. Spt(d) - 1 : Cell(at, 17 * Spt(d) + s).file = NoFile
      BY <2>5, <3>1
    <3> QED BY <3>2 DEF DOSHolds
  <2> QED BY <1>1, <2>7, <2>8 DEF Holds, OfDOS, OfProDOS
<1>2. CASE OfProDOS(d)
  <2> PICK dsk : dsk = TrueDisk(d, [p \in {} |-> Blank]) OBVIOUS
  <2>1. BlockPlaces(dsk, 2)[1] = HeaderPlace(d) /\ Fits(d, dsk)
    BY <1>2, TrueFits, HeaderIsThere
  <2>2. DiskFormat[d.format].bpd = Blocks(d)
    BY <1>2, DiskCases DEF Blocks, DiskFormat, Shape
  <2>3. at = [p \in {HeaderPlace(d)} |-> VDH(Blocks(d), {})]
    BY <1>2, <2>1, <2>2 DEF Initialised, OfProDOS
  <2>4. Cell(at, HeaderPlace(d)) = VDH(Blocks(d), {})
    BY <2>3 DEF Cell
  <2>5. \A p : p # HeaderPlace(d) => Cell(at, p) = Blank
    BY <2>3 DEF Cell
  <2>6. Blocks(d) \in {280, 800, 1600}
    BY <1>2, DiskCases DEF Blocks
  <2>7. HeaderPlace(d) \in 0 .. d.sectors - 1
    BY <1>2, <2>1, <2>6, HalvesFit
  <2>8. ProDOSVolume(d, at)
    BY <2>4, <2>5 DEF ProDOSVolume, IsVDH, VDH, IsData, Blank
  <2>9. Volume(d, at)
    BY <1>2, <2>3, <2>7, <2>8 DEF Volume, OfDOS, OfProDOS
  <2> QED BY <1>2, <2>4, <2>9 DEF Holds, ProDOSHolds, OfDOS, OfProDOS, VDH
<1>3. CASE ~OfDOS(d) /\ ~OfProDOS(d)
  <2>1. CASE d.sectors = SectorsNIB
    <3>1. at = [p \in {} |-> Blank]
      BY <2>1 DEF Initialised, TrueDisk
    <3>2. DOMAIN at = {} /\ Closed(at)
      BY <3>1 DEF Closed, Cell, Blank
    <3> QED BY <1>3, <3>2 DEF Volume, Holds
  <2>2. CASE d.sectors # SectorsNIB /\ d.system = "Pascal"
    <3> PICK dsk : dsk = TrueDisk(d, [p \in {} |-> Blank]) OBVIOUS
    <3>1. d.format = "PASCAL" /\ d.sectors = 560 /\ d.layout \in Layouts
      BY <2>2, DiskCases
    <3>2. dsk.shape.spt = 16 /\ BlocksPerTrack(dsk) = 8 /\ dsk.layout = d.layout
      BY <3>1 DEF TrueDisk, DiskFormat, Shape, BlocksPerTrack
    <3>3. GetBlockSectors(dsk, 2).track = 0 /\ GetBlockSectors(dsk, 2).pair[1] \in {4, 11}
      BY <3>2 DEF GetBlockSectors, Halves
    <3>4. Mapped(dsk.layout, GetBlockSectors(dsk, 2).pair[1]) \in 0 .. 15
      <4>1. GetBlockSectors(dsk, 2).pair[1] \in 0 .. 15
        BY <3>3
      <4> QED BY <4>1, <3>1, <3>2, MapperRange
    <3>5. BlockPlaces(dsk, 2)[1] \in 0 .. 15
      BY <3>2, <3>3, <3>4 DEF BlockPlaces, SectorPointer
    <3>6. at = [p \in {BlockPlaces(dsk, 2)[1]} |-> [tag |-> "pascal"]]
      BY <2>2 DEF Initialised
    <3>7. DOMAIN at \subseteq 0 .. d.sectors - 1 /\ Closed(at)
      BY <3>1, <3>5, <3>6 DEF Closed, Cell, Blank
    <3> QED BY <1>3, <3>7 DEF Volume, Holds
  <2>3. CASE d.sectors # SectorsNIB /\ d.system = "RDOS"
    <3>1. d.sectors \in {560, 455}
      BY <2>3, DiskCases
    <3> PICK tag : tag = IF d.format = "RDOS_33" THEN "rdos33" ELSE "rdos32" OBVIOUS
    <3>2. at = [p \in {d.sectors \div 35} |-> [tag |-> tag]] /\ tag \in {"rdos33", "rdos32"}
      BY <2>3 DEF Initialised
    <3>3. DOMAIN at = {d.sectors \div 35} /\ \A p : Cell(at, p) = IF p = d.sectors \div 35 THEN [tag |-> tag] ELSE Blank
      BY <3>2 DEF Cell
    <3>4. DOMAIN at \subseteq 0 .. d.sectors - 1
      BY <3>1, <3>3
    <3>5. Closed(at)
      BY <3>2, <3>3 DEF Closed, Blank
    <3> QED BY <1>3, <3>4, <3>5 DEF Volume, Holds
  <2> QED BY <1>3, <2>1, <2>2, <2>3, DiskCases DEF OfDOS, OfProDOS
<1> QED BY <1>1, <1>2, <1>3

------------------------------------------------------------------------------
(* What an image is taken for.                                             *)

\* No layout passes,
LEMMA FirstOfNone ==
  ASSUME NEW layouts, NEW passing, \A k \in DOMAIN layouts : layouts[k] \notin passing
  PROVE  FirstOf(layouts, passing) = "none"
BY DEF FirstOf

\* one passes,
LEMMA FirstOfOne ==
  ASSUME NEW layouts, NEW passing, DOMAIN layouts \subseteq Nat, NEW k \in DOMAIN layouts, layouts[k] \in passing,
         \A j \in DOMAIN layouts : layouts[j] \in passing => j = k
  PROVE  FirstOf(layouts, passing) = layouts[k]
<1> PICK good : good = {j \in DOMAIN layouts : layouts[j] \in passing} OBVIOUS
<1>1. good = {k}
  OBVIOUS
<1>2. Least(good) = k
  BY <1>1, LeastOfSome
<1> QED BY <1>1, <1>2 DEF FirstOf

\* or some do.
LEMMA FirstOfSome ==
  ASSUME NEW layouts, NEW passing, DOMAIN layouts \subseteq Nat, FirstOf(layouts, passing) # "none"
  PROVE  \E k \in DOMAIN layouts : FirstOf(layouts, passing) = layouts[k] /\ layouts[k] \in passing
<1> PICK good : good = {j \in DOMAIN layouts : layouts[j] \in passing} OBVIOUS
<1>1. good # {} /\ FirstOf(layouts, passing) = layouts[Least(good)]
  BY DEF FirstOf
<1>2. Least(good) \in good
  BY <1>1, LeastOfSome
<1> QED BY <1>1, <1>2

\* What a cell says of the disk.
LEMMA TagsOf ==
  ASSUME NEW d, Imaged(d), NEW at, Volume(d, at), NEW p
  PROVE  /\ Cell(at, p).tag = "vtoc" => OfDOS(d) /\ p = 17 * Spt(d) /\ Cell(at, p).spt = Spt(d)
         /\ Cell(at, p).tag = "vdh" => OfProDOS(d) /\ p = HeaderPlace(d) /\ Cell(at, p).blocks = Blocks(d)
         /\ Cell(at, p).tag \in {"pascal", "rdos32", "rdos33"} => ~OfDOS(d) /\ ~OfProDOS(d)
<1>1. CASE OfDOS(d)
  <2>1. ~OfProDOS(d)
    BY <1>1 DEF OfDOS, OfProDOS
  <2> QED BY <1>1, <2>1, DOSCells DEF IsCatalog, IsData
<1>2. CASE OfProDOS(d)
  <2>1. ~OfDOS(d)
    BY <1>2 DEF OfDOS, OfProDOS
  <2> QED BY <1>2, <2>1, ProDOSCells DEF IsVDH, IsData
<1>3. CASE ~OfDOS(d) /\ ~OfProDOS(d)
  BY <1>3 DEF Volume, Closed
<1> QED BY <1>1, <1>2, <1>3

\* What a sector of a disk holds.
LEMMA SectorIsCell ==
  ASSUME NEW dsk, NEW t, NEW s
  PROVE  Sector(dsk, t, s) = Cell(dsk.at, SectorPointer(dsk, t, s))
BY AtIsCell DEF Sector

\* Where block 2 is looked for on a disk of 16 sectors a track.
HeadAt(l, n) ==
  IF n >= 3200 THEN Mapped(l, 4) ELSE IF l = "Linear" THEN 4 ELSE Mapped(l, 11)

\* It is read there.
LEMMA Looked ==
  ASSUME NEW dsk, dsk.shape.spt = 16, dsk.shape.uspt = 16, dsk.shape.tpd = 35, NEW l, dsk.layout = l, l \in Layouts,
         NEW n \in Nat, dsk.sectors = n
  PROVE  Header(dsk, 2) = Cell(dsk.at, HeadAt(l, n))
<1>1. BlocksPerTrack(dsk) = 8
  BY DEF BlocksPerTrack
<1>2. GetBlockSectors(dsk, 2).track = 0
  BY <1>1 DEF GetBlockSectors
<1>3. GetBlockSectors(dsk, 2).pair[1] = IF l = "Linear" \/ n >= 3200 THEN 4 ELSE 11
  BY <1>1 DEF GetBlockSectors, Halves, Sectors800K
<1>4. CanSeek(dsk, GetBlockSectors(dsk, 2).track, GetBlockSectors(dsk, 2).pair[1])
  BY <1>2, <1>3 DEF CanSeek
<1>5. Mapped("Linear", 4) = 4
  BY DEF Mapped, Interleaved
<1>6. Mapped(l, 4) \in 0 .. 15 /\ Mapped(l, 11) \in 0 .. 15
  BY MapperRange
<1>7. SectorPointer(dsk, 0, IF l = "Linear" \/ n >= 3200 THEN 4 ELSE 11) = HeadAt(l, n)
  BY <1>5, <1>6 DEF SectorPointer, HeadAt
<1> QED BY <1>2, <1>3, <1>4, <1>7, SectorIsCell DEF Header

\* These places tell the layouts apart, which is why a ProDOS volume is never
\* found in an order that it was not made in.
LEMMA HeadsApart ==
  /\ \A k, l \in {"DOS33", "DOS33Alt", "ProDOS", "Linear"} : HeadAt(k, 560) = HeadAt(l, 560) => k = l
  /\ HeadAt("DOS33", 3200) = 4 /\ HeadAt("DOS33Alt", 3200) # 4 /\ HeadAt("ProDOS", 3200) # 4
<1>1. HeadAt("DOS33", 560) = 11 /\ HeadAt("DOS33Alt", 560) = 2 /\ HeadAt("ProDOS", 560) = 7 /\ HeadAt("Linear", 560) = 4
  BY DEF HeadAt, Mapped, Interleaved, SectorMapper
<1>2. HeadAt("DOS33", 3200) = 4 /\ HeadAt("DOS33Alt", 3200) = 13 /\ HeadAt("ProDOS", 3200) = 8
  BY DEF HeadAt, Mapped, Interleaved, SectorMapper
<1> QED BY <1>1, <1>2

\* The image file of a disk, with some files on it.
OnFile(d, img, in) ==
  /\ img.ext = d.ext /\ img.boot = d.boot /\ img.sectors = d.sectors /\ img.header \in {d.header, NoHeader}
  /\ Volume(d, img.at) /\ Holds(d, img.at, in)

\* The fields of a look at a file.
LEMMA Views ==
  ASSUME NEW img, NEW format \in DOMAIN DiskFormat, NEW layout
  PROVE  LET dsk == As(img, format, layout) IN
         /\ IsDisk(dsk) /\ dsk.format = format /\ dsk.shape = DiskFormat[format] /\ dsk.layout = layout
         /\ dsk.sectors = img.sectors /\ dsk.ext = img.ext /\ dsk.boot = img.boot /\ dsk.at = img.at
BY DEF As, IsDisk

\* Where a look at a file finds block 2.
LEMMA ViewOf16 ==
  ASSUME NEW img, NEW format \in {"NONE", "PRODOS", "PASCAL", "DOS_16"}, NEW layout \in Layouts, img.sectors \in Nat
  PROVE  Header(As(img, format, layout), 2) = Cell(img.at, HeadAt(layout, img.sectors))
<1> PICK dsk : dsk = As(img, format, layout) OBVIOUS
<1>1. format \in DOMAIN DiskFormat
  BY DEF DiskFormat
<1>2. dsk.shape = DiskFormat[format] /\ dsk.layout = layout /\ dsk.sectors = img.sectors /\ dsk.at = img.at
  BY <1>1, Views
<1>3. dsk.shape.spt = 16 /\ dsk.shape.uspt = 16 /\ dsk.shape.tpd = 35
  BY <1>2 DEF DiskFormat, Shape
<1> QED BY <1>2, <1>3, Looked

\* The order that the directory of a ProDOS volume is found in.
LEMMA ProDOSFound ==
  ASSUME NEW d, Imaged(d), NEW img, NEW in, OnFile(d, img, in)
  PROVE  /\ ~OfProDOS(d) => ProDOSLayout(img) = "none"
         /\ OfProDOS(d) => ProDOSLayout(img) = IF d.sectors = 3200 THEN "DOS33" ELSE d.layout
<1>1. img.sectors = d.sectors /\ d.sectors \in Nat /\ Volume(d, img.at)
  BY DiskCases DEF OnFile
<1> DEFINE tried == IF img.sectors = Sectors800K THEN SubSeq(FourLayouts, 1, 3) ELSE FourLayouts
           VDHAt(l) == Header(As(img, "NONE", l), 2)
           passing == {l \in Layouts : VDHAt(l).tag = "vdh" /\ VDHAt(l).blocks = img.sectors \div 2}
<1>2. ProDOSLayout(img) = FirstOf(tried, passing)
  BY DEF ProDOSLayout, HasVDH
<1>3. /\ d.sectors = 3200 => DOMAIN tried = 1 .. 3
      /\ d.sectors # 3200 => DOMAIN tried = 1 .. 4 /\ tried[4] = "Linear"
      /\ tried[1] = "DOS33" /\ tried[2] = "DOS33Alt" /\ tried[3] = "ProDOS"
  <2>1. CASE d.sectors = 3200
    <3>1. tried = SubSeq(<<"DOS33", "DOS33Alt", "ProDOS", "Linear">>, 1, 3)
      BY <1>1, <2>1 DEF Sectors800K, FourLayouts
    <3> QED BY <2>1, <3>1
  <2>2. CASE d.sectors # 3200
    BY <1>1, <2>2 DEF Sectors800K, FourLayouts
  <2> QED BY <2>1, <2>2
<1>4. \A l \in Layouts : VDHAt(l) = Cell(img.at, HeadAt(l, d.sectors))
  BY <1>1, ViewOf16
<1>5. \A l \in Layouts : l \in passing => OfProDOS(d) /\ HeadAt(l, d.sectors) = HeaderPlace(d)
  BY <1>1, <1>4, TagsOf
<1>6. CASE ~OfProDOS(d)
  <2>1. \A l \in passing : FALSE
    BY <1>5, <1>6
  <2> HIDE DEF passing, tried
  <2> QED BY <1>2, <1>6, <2>1, FirstOfNone
<1>7. CASE OfProDOS(d)
  <2>1. \A l \in Layouts : HeadAt(l, d.sectors) = HeaderPlace(d) => l \in passing
    <3>1. IsVDH(Cell(img.at, HeaderPlace(d)), Blocks(d))
      BY <1>1, <1>7 DEF Volume, ProDOSVolume
    <3> QED BY <3>1, <1>1, <1>4 DEF IsVDH, Blocks
  <2> PICK ls : ls = tried OBVIOUS
  <2> PICK ps : ps = passing OBVIOUS
  <2>2. \A l \in Layouts : l \in ps <=> HeadAt(l, d.sectors) = HeaderPlace(d)
    BY <1>5, <2>1
  <2>3. ProDOSLayout(img) = FirstOf(ls, ps)
    BY <1>2
  <2>9. /\ d.sectors = 3200 => DOMAIN ls = 1 .. 3
        /\ d.sectors # 3200 => DOMAIN ls = 1 .. 4 /\ ls[4] = "Linear"
        /\ ls[1] = "DOS33" /\ ls[2] = "DOS33Alt" /\ ls[3] = "ProDOS"
    BY <1>3
  <2> HIDE DEF tried, passing, VDHAt
  <2>4. CASE d.sectors = 3200
    <3>1. DOMAIN ls = 1 .. 3 /\ HeaderPlace(d) = 4
      BY <2>9, <2>4 DEF HeaderPlace
    <3>2. "DOS33" \in ps /\ "DOS33Alt" \notin ps /\ "ProDOS" \notin ps
      BY <2>2, <2>4, <3>1, HeadsApart DEF Layouts
    <3>3. FirstOf(ls, ps) = ls[1]
      BY <2>9, <3>1, <3>2, FirstOfOne
    <3> QED BY <2>9, <3>3, <2>3, <2>4, <1>7
  <2>5. CASE d.sectors = 560
    <3>1. DOMAIN ls = 1 .. 4 /\ d.layout \in {"DOS33", "DOS33Alt", "ProDOS", "Linear"}
      BY <2>9, <2>5, <1>7, DiskCases
    <3>2. HeaderPlace(d) = HeadAt(d.layout, 560)
      BY <2>5 DEF HeaderPlace, HeadAt
    <3>3. \A j \in 1 .. 4 : ls[j] \in ps <=> ls[j] = d.layout
    <4>1. \A j \in 1 .. 4 : ls[j] \in {"DOS33", "DOS33Alt", "ProDOS", "Linear"}
      BY <2>5, <2>9
    <4> QED BY <4>1, <2>2, <2>5, <3>1, <3>2, HeadsApart DEF Layouts
    <3>4. PICK k \in 1 .. 4 : ls[k] = d.layout
      BY <2>5, <2>9, <3>1
    <3>5. \A j \in 1 .. 4 : ls[j] \in ps => j = k
      BY <2>5, <2>9, <3>3, <3>4
    <3>6. FirstOf(ls, ps) = ls[k]
      BY <3>1, <3>3, <3>4, <3>5, FirstOfOne
    <3> QED BY <3>4, <3>6, <2>3, <2>5, <1>7
  <2>6. CASE d.sectors = 1600
    <3>1. DOMAIN ls = 1 .. 4 /\ d.layout = "Linear" /\ HeaderPlace(d) = 4
      BY <2>9, <2>6, <1>7, DiskCases DEF HeaderPlace
    <3>2. HeadAt("DOS33", 1600) = 11 /\ HeadAt("DOS33Alt", 1600) = 2 /\ HeadAt("ProDOS", 1600) = 7 /\ HeadAt("Linear", 1600) = 4
      BY DEF HeadAt, Mapped, Interleaved, SectorMapper
    <3>3. "Linear" \in ps /\ "DOS33" \notin ps /\ "DOS33Alt" \notin ps /\ "ProDOS" \notin ps
      BY <2>2, <2>6, <3>1, <3>2 DEF Layouts
    <3>4. FirstOf(ls, ps) = ls[4]
      BY <2>6, <2>9, <3>1, <3>3, FirstOfOne
    <3> QED BY <2>6, <2>9, <3>1, <3>4, <2>3, <1>7
  <2> QED BY <2>4, <2>5, <2>6, <1>7, DiskCases
<1> QED BY <1>6, <1>7

\* The first layout passes.
LEMMA FirstOfFirst ==
  ASSUME NEW layouts, NEW passing, DOMAIN layouts = 1 .. 4, layouts[1] \in passing
  PROVE  FirstOf(layouts, passing) = layouts[1]
<1> PICK good : good = {j \in DOMAIN layouts : layouts[j] \in passing} OBVIOUS
<1>1. 1 \in good /\ good \in SUBSET Nat /\ \A k \in good : 1 <= k
  OBVIOUS
<1>2. Least(good) \in good /\ Least(good) <= 1
  BY <1>1, LeastOfSome
<1>3. Least(good) = 1
  BY <1>1, <1>2
<1> QED BY <1>1, <1>3 DEF FirstOf

\* What a name can ask for.
LEMMA Hints ==
  ASSUME NEW d, NEW img, img.ext = d.ext, NEW l
  PROVE  /\ Hint(img) \in {"ProDOS", "DOS33", "none"}
         /\ WithHint(l, img) \in {l, "ProDOS", "DOS33"}
         /\ WithHint(l, img) = WithHint(l, d)
         /\ d.ext # "po" => WithHint("DOS33", img) = "DOS33"
BY DEF Hint, WithHint

\* Only an RDOS disk is taken for one.
LEMMA RDOSFound ==
  ASSUME NEW d, Imaged(d), NEW img, NEW in, OnFile(d, img, in)
  PROVE  /\ OfDOS(d) \/ OfProDOS(d) => RDOSFormat(img) = "none"
         /\ RDOSFormat(img) = "RDOS_32" => d.sectors = 455
         /\ RDOSFormat(img) \in {"RDOS_3", "RDOS_33"} => d.sectors = 560
         /\ RDOSFormat(img) \in {"none", "RDOS_3", "RDOS_32", "RDOS_33"}
<1> PICK id : id = At(img, img.sectors \div 35) OBVIOUS
<1>1. img.sectors = d.sectors /\ Volume(d, img.at) /\ d.sectors \in Nat
  BY DiskCases DEF OnFile
<1>2. id.tag \in {"rdos32", "rdos33"} => ~OfDOS(d) /\ ~OfProDOS(d)
  <2>1. id = Cell(img.at, img.sectors \div 35)
    BY AtIsCell
  <2> QED BY <1>1, <2>1, TagsOf
<1>3. RDOSFormat(img) =
        IF d.sectors \notin {560, 455} THEN "none"
        ELSE IF id.tag = "rdos32" THEN (IF d.sectors \div 35 = 13 THEN "RDOS_32" ELSE "RDOS_3")
        ELSE IF id.tag = "rdos33" /\ d.sectors \div 35 = 16 THEN "RDOS_33"
        ELSE "none"
  BY <1>1 DEF RDOSFormat, Sectors140K, Sectors113K
<1>4. CASE d.sectors = 560
  BY <1>2, <1>3, <1>4
<1>5. CASE d.sectors = 455
  BY <1>2, <1>3, <1>5
<1> QED BY <1>3, <1>4, <1>5

\* The order that is set when no directory was found.
LEMMA OrderLeft ==
  ASSUME NEW d, Imaged(d), NEW img, NEW in, OnFile(d, img, in),
         NEW found, found = IF ProDOSLayout(img) = "none" THEN "DOS33" ELSE ProDOSLayout(img)
  PROVE  /\ found \in Layouts
         /\ ~OfProDOS(d) => found = "DOS33"
         /\ OfProDOS(d) /\ d.sectors = 1600 => found = "Linear"
<1>1. CASE OfProDOS(d)
  <2>1. ProDOSLayout(img) = (IF d.sectors = 3200 THEN "DOS33" ELSE d.layout)
    BY <1>1, ProDOSFound
  <2>2. d.layout \in Layouts /\ d.layout # "none" /\ (d.sectors = 1600 => d.layout = "Linear")
    BY <1>1, DiskCases
  <2> QED BY <1>1, <2>1, <2>2 DEF Layouts
<1>2. CASE ~OfProDOS(d)
  BY <1>2, ProDOSFound DEF Layouts
<1> QED BY <1>1, <1>2

\* The VTOC is looked for where it is with as many sectors as the boot sector
\* says, or with 16.
LEMMA VTOCFound ==
  ASSUME NEW d, Imaged(d), NEW img, NEW in, OnFile(d, img, in), NEW layout \in Layouts
  PROVE  /\ HasVTOC(As(img, FormatByBoot(img), layout), 16) <=> OfDOS(d) /\ d.sectors = 560
         /\ HasVTOC(As(img, FormatByBoot(img), layout), 13) <=>
              OfDOS(d) /\ d.sectors = 455 /\ d.boot = "DOS_13"
<1> PICK format : format = FormatByBoot(img) OBVIOUS
<1> PICK dsk : dsk = As(img, format, layout) OBVIOUS
<1> PICK n : n = IF d.boot = "DOS_13" THEN 13 ELSE 16 OBVIOUS
<1> PICK c : c = Cell(img.at, 17 * n) OBVIOUS
<1>1. img.sectors = d.sectors /\ img.boot = d.boot /\ Volume(d, img.at) /\ d.sectors \in Nat
  BY DiskCases DEF OnFile
<1>2. format \in {"NONE", "DOS_13", "DOS_16", "PRODOS"} /\ (format = "DOS_13" <=> d.boot = "DOS_13")
  BY <1>1, Boots DEF FormatByBoot
<1>3. dsk.at = img.at /\ dsk.layout = layout /\ dsk.shape.spt = n
  BY <1>2 DEF As, DiskFormat, Shape
<1>4. Mapped(layout, 0) = 0
  BY DEF Mapped, Layouts, Interleaved, SectorMapper
<1>5. SectorPointer(dsk, 17, 0) = 17 * n
  BY <1>3, <1>4 DEF SectorPointer
<1>6. Sector(dsk, VTOCTrack, 0) = c
  BY <1>3, <1>5, SectorIsCell DEF VTOCTrack
<1>7. c.tag = "vtoc" => OfDOS(d) /\ Spt(d) = n /\ c.spt = n
  <2>1. c.tag = "vtoc" => OfDOS(d) /\ 17 * n = 17 * Spt(d) /\ c.spt = Spt(d)
    BY <1>1, TagsOf
  <2> QED BY <2>1 DEF Spt
<1>8. OfDOS(d) => (Spt(d) = 16 <=> d.sectors = 560) /\ (Spt(d) = 13 <=> d.sectors = 455)
  BY DiskCases DEF Spt
<1>9. OfDOS(d) /\ Spt(d) = n => c = [tag |-> "vtoc", spt |-> n]
  BY <1>1 DEF Volume, DOSVolume
<1>10. d.boot = "DOS_13" => d.sectors # 560
  BY Boots DEF SectorsNIB
<1> QED BY <1>6, <1>7, <1>8, <1>9, <1>10 DEF HasVTOC

\* The order that the catalog of a DOS volume is found in.
LEMMA DOSFound ==
  ASSUME NEW d, Imaged(d), NEW img, NEW in, OnFile(d, img, in)
  PROVE  /\ ~OfDOS(d) => AppleDOSLayout(img) = "none"
         /\ AppleDOSLayout(img) \in {"none", "DOS33", "DOS33Alt", "ProDOS", "Linear"}
         /\ OfDOS(d) /\ d.layout = "DOS33" /\ d.ext # "po" =>
              AppleDOSLayout(img) = IF in = {} THEN "none" ELSE "DOS33"
<1>1. img.sectors = d.sectors /\ Volume(d, img.at) /\ d.sectors \in Nat
  BY DiskCases DEF OnFile
<1> PICK format : format = IF d.sectors = 455 THEN "DOS_13" ELSE "NONE" OBVIOUS
<1> PICK n : n = IF d.sectors = 455 THEN 13 ELSE 16 OBVIOUS
<1> PICK passing : passing = {l \in Layouts : /\ HasVTOC(As(img, format, l), n)
                                             /\ CatalogFiles(As(img, format, l)) # {}} OBVIOUS
<1> PICK ls : ls = AppleDOSLayouts OBVIOUS
<1>2. AppleDOSLayout(img) = IF d.sectors \notin {560, 455} THEN "none" ELSE FirstOf(ls, passing)
  BY <1>1 DEF AppleDOSLayout, Sectors140K, Sectors113K
<1>3. ls = <<"DOS33", "DOS33Alt", "ProDOS", "Linear">>
  BY DEF AppleDOSLayouts
<1>4. DOMAIN ls = 1 .. 4
  BY <1>3
<1>5. \A l : /\ As(img, format, l).at = img.at /\ As(img, format, l).shape.spt = n
             /\ As(img, format, l).layout = l
  BY DEF As, DiskFormat, Shape
<1>6. ASSUME ~OfDOS(d)
      PROVE  AppleDOSLayout(img) = "none"
  <2>1. \A l : ~HasVTOC(As(img, format, l), n)
    BY <1>1, <1>5, <1>6, SectorIsCell, TagsOf DEF HasVTOC
  <2>2. passing = {}
    BY <2>1
  <2> QED BY <1>2, <2>2, FirstOfNone
<1>7. AppleDOSLayout(img) \in {"none", "DOS33", "DOS33Alt", "ProDOS", "Linear"}
  <2>1. \A k \in 1 .. 4 : ls[k] \in {"DOS33", "DOS33Alt", "ProDOS", "Linear"}
    BY <1>3
  <2>2. DOMAIN ls \subseteq Nat
    BY <1>4
  <2>3. CASE FirstOf(ls, passing) # "none"
    <3>1. \E k \in DOMAIN ls : FirstOf(ls, passing) = ls[k]
      BY <2>2, <2>3, FirstOfSome
    <3> QED BY <3>1, <1>2, <1>4, <2>1
  <2>4. CASE FirstOf(ls, passing) = "none"
    BY <2>4, <1>2
  <2> QED BY <2>3, <2>4
<1>8. ASSUME OfDOS(d), d.layout = "DOS33", d.ext # "po"
      PROVE  AppleDOSLayout(img) = IF in = {} THEN "none" ELSE "DOS33"
  <2>1. DOSHolds(d, img.at, in) /\ in \in SUBSET Names
    BY <1>8 DEF OnFile, Holds
  <2>2. d.sectors \in {560, 455} /\ n = Spt(d)
    BY <1>8, DiskCases DEF Spt
  <2>3. Straight(d, As(img, format, "DOS33"))
    BY <1>1, <1>5, <1>8, <2>2 DEF Straight, Interleaved
  <2>4. HasVTOC(As(img, format, "DOS33"), n)
    BY <2>2, <2>3, StraightSectors DEF HasVTOC, VTOCTrack
  <2>5. CatalogFiles(As(img, format, "DOS33")) = in
    <3> PICK dsk : dsk = As(img, format, "DOS33") OBVIOUS
    <3>1. Straight(d, dsk)
      BY <2>3
    <3>2. dsk.at = img.at
      BY <1>5
    <3>3. DOSHolds(d, dsk.at, in)
      BY <2>1, <3>2
    <3>4. CatalogFiles(dsk) = in
      BY <2>1, <3>1, <3>3, DOSListed
    <3> QED BY <3>4
  <2>6. ASSUME NEW l PROVE CatalogFiles(As(img, format, l)) \subseteq in
    <3> PICK dsk : dsk = As(img, format, l) OBVIOUS
    <3> SUFFICES ASSUME NEW s \in CatalogSectors(dsk), Sector(dsk, VTOCTrack, s).file # NoFile
                 PROVE  Sector(dsk, VTOCTrack, s).file \in in
      BY DEF CatalogFiles
    <3> PICK p : p = SectorPointer(dsk, VTOCTrack, s) OBVIOUS
    <3>1. Sector(dsk, VTOCTrack, s) = Cell(img.at, p)
      BY <1>5, SectorIsCell
    <3>2. Cell(img.at, p).tag = "catalog"
      BY <3>1 DEF CatalogSectors, IsCatalogSector
    <3>3. PICK r \in 1 .. Spt(d) - 1 : p = Place(d, 17, r)
      BY <1>1, <1>8, <3>2, DOSCells DEF IsData
    <3>4. p = 17 * Spt(d) + r
      BY <3>3, <1>8 DEF Place, Mapped, Interleaved
    <3>5. Cell(img.at, p).file \in in \cup {NoFile}
      BY <3>4, <2>1 DEF DOSHolds
    <3> QED BY <3>1, <3>5
  <2>7. CASE in = {}
    <3>1. passing = {}
      BY <2>6, <2>7
    <3> QED BY <1>2, <2>7, <3>1, FirstOfNone
  <2>8. CASE in # {}
    <3>1. "DOS33" \in passing
      BY <2>4, <2>5, <2>8 DEF Layouts
    <3>2. ls[1] = "DOS33"
      BY <1>3
    <3>3. FirstOf(ls, passing) = ls[1]
      BY <1>4, <3>1, <3>2, FirstOfFirst
    <3> QED BY <1>2, <2>2, <2>8, <3>2, <3>3
  <2> QED BY <2>7, <2>8
<1> QED BY <1>6, <1>7, <1>8

\* The sizes there are.
LEMMA SectorsKnown ==
  ASSUME NEW d, Imaged(d)
  PROVE  /\ d.sectors \in {455, 560, 910, 1600, 3200}
         /\ d.sectors \in {1600, 3200} => OfProDOS(d)
BY DiskCases DEF OfDOS, OfProDOS, SectorsNIB

\* A disk in an order that its tracks can have is what its format says.
Sound(dsk) ==
  (dsk.format \notin {"NONE", "CUSTOM"} /\ ~(dsk.shape.spt = 13 /\ dsk.layout \in Interleaved)) =>
    KnownShape(dsk)

GoodView(n, format, layout) ==
  /\ layout \in Layouts
  /\ \/ format = "NONE"
     \/ format \in {"DOS_16", "PRODOS", "PASCAL", "RDOS_3", "RDOS_33"} /\ (n >= 560 \/ n = 455)
     \/ format \in {"DOS_13", "RDOS_32"} /\ n >= 455
     \/ format = "PRODOS_400" /\ n = 1600 /\ layout = "Linear"
     \/ format = "PRODOS_800" /\ n = 3200 /\ layout \in {"DOS33", "Linear"}

\* What is mounted so is sound.
LEMMA GoodViewSound ==
  ASSUME NEW img, NEW format, NEW layout, NEW n \in Nat, img.sectors = n, GoodView(n, format, layout)
  PROVE  LET dsk == As(img, format, layout) IN
         /\ IsDisk(dsk) /\ dsk.at = img.at /\ dsk.format = format /\ dsk.layout = layout
         /\ dsk.shape = DiskFormat[format] /\ dsk.sectors = n /\ dsk.ext = img.ext /\ dsk.boot = img.boot
         /\ format \in DOMAIN DiskFormat /\ layout \in Layouts /\ Sound(dsk)
<1> PICK dsk : dsk = As(img, format, layout) OBVIOUS
<1>1. format \in DOMAIN DiskFormat /\ layout \in Layouts
  BY DEF GoodView, DiskFormat
<1>2. /\ IsDisk(dsk) /\ dsk.at = img.at /\ dsk.format = format /\ dsk.layout = layout
      /\ dsk.shape = DiskFormat[format] /\ dsk.sectors = n /\ dsk.ext = img.ext /\ dsk.boot = img.boot
  BY <1>1, Views
<1>3. ASSUME format # "NONE", ~(dsk.shape.spt = 13 /\ layout \in Interleaved)
      PROVE  KnownShape(dsk)
  <2>1. CASE format \in {"DOS_16", "PRODOS", "PASCAL", "RDOS_3", "RDOS_33"}
    <3>1. dsk.shape.spt = 16 /\ dsk.shape.tpd = 35 /\ (n >= 560 \/ n = 455)
      BY <1>2, <2>1 DEF DiskFormat, Shape, GoodView
    <3> QED BY <1>1, <1>2, <1>3, <2>1, <3>1 DEF KnownShape, Sectors113K
  <2>2. CASE format \in {"DOS_13", "RDOS_32"}
    <3>1. dsk.shape.spt = 13 /\ dsk.shape.tpd = 35 /\ n >= 455
      BY <1>2, <2>2 DEF DiskFormat, Shape, GoodView
    <3> QED BY <1>1, <1>2, <1>3, <2>2, <3>1 DEF KnownShape, Sectors113K
  <2>3. CASE format = "PRODOS_400"
    <3>1. dsk.shape.spt = 20 /\ dsk.shape.tpd = 80 /\ n = 1600 /\ layout = "Linear"
      BY <1>2, <2>3 DEF DiskFormat, Shape, GoodView
    <3> QED BY <1>1, <1>2, <1>3, <2>3, <3>1 DEF KnownShape, Interleaved
  <2>4. CASE format = "PRODOS_800"
    <3>1. dsk.shape.spt = 40 /\ dsk.shape.tpd = 80 /\ n = 3200 /\ layout \in {"DOS33", "Linear"}
      BY <1>2, <2>4 DEF DiskFormat, Shape, GoodView
    <3> QED BY <1>1, <1>2, <1>3, <2>4, <3>1 DEF KnownShape, Interleaved
  <2> QED BY <1>3, <2>1, <2>2, <2>3, <2>4 DEF GoodView
<1> QED BY <1>1, <1>2, <1>3 DEF Sound

\* Whose directory it is that a disk has.
LEMMA DirectoryOf ==
  ASSUME NEW d, Imaged(d), NEW img, NEW in, OnFile(d, img, in),
         NEW format, NEW layout, GoodView(d.sectors, format, layout), HasDirectory(As(img, format, layout))
  PROVE  \/ OfDOS(d) /\ format = d.format
         \/ /\ OfProDOS(d) /\ format \in {"PRODOS", "PRODOS_400", "PRODOS_800"}
            /\ format = "PRODOS" => HeadAt(layout, d.sectors) = HeaderPlace(d)
<1> PICK dsk : dsk = As(img, format, layout) OBVIOUS
<1>1. img.sectors = d.sectors /\ Volume(d, img.at) /\ d.sectors \in Nat
  BY DiskCases DEF OnFile
<1>2. /\ dsk.at = img.at /\ dsk.format = format /\ dsk.shape = DiskFormat[format]
      /\ format \in DOMAIN DiskFormat /\ layout \in Layouts
  BY <1>1, GoodViewSound
<1>3. CASE IsDOS(dsk) /\ HasVTOC(dsk, dsk.shape.spt)
  <2>1. OfDOS(d) /\ Spt(d) = dsk.shape.spt
    BY <1>1, <1>2, <1>3, SectorIsCell, TagsOf DEF HasVTOC
  <2>2. format \in {"DOS_13", "DOS_16"} /\ d.format \in {"DOS_13", "DOS_16"}
    BY <1>2, <1>3, <2>1, DiskCases DEF IsDOS
  <2>3. format = d.format
    BY <1>2, <2>1, <2>2 DEF Spt, DiskFormat, Shape
  <2> QED BY <2>1, <2>3
<1>4. CASE IsProDOS(dsk) /\ Header(dsk, 2).tag = "vdh"
  <2>1. OfProDOS(d)
    <3> PICK bs : bs = GetBlockSectors(dsk, 2) OBVIOUS
    <3>1. Header(dsk, 2) = Cell(img.at, SectorPointer(dsk, bs.track, bs.pair[1])) \/ Header(dsk, 2) = Blank
      BY <1>2, SectorIsCell DEF Header
    <3>2. Header(dsk, 2) = Cell(img.at, SectorPointer(dsk, bs.track, bs.pair[1]))
      BY <1>4, <3>1 DEF Blank
    <3> QED BY <1>1, <1>4, <3>2, TagsOf
  <2>2. format \in {"PRODOS", "PRODOS_400", "PRODOS_800"}
    BY <1>2, <1>4 DEF IsProDOS, DiskFormat
  <2>3. ASSUME format = "PRODOS" PROVE HeadAt(layout, d.sectors) = HeaderPlace(d)
    <3>1. Header(dsk, 2) = Cell(img.at, HeadAt(layout, d.sectors))
      BY <1>1, <1>2, <2>3, ViewOf16
    <3> QED BY <1>1, <1>4, <3>1, TagsOf
  <2> QED BY <2>1, <2>2, <2>3
<1> QED BY <1>3, <1>4 DEF HasDirectory

\* A ProDOS disk in the layout that its name does not overrule.
AsNamed(d) == d.sectors = 560 => WithHint(d.layout, d) = d.layout

\* What a mount makes of the image of a disk.
Mounted(d, img, dsk) ==
  /\ IsDisk(dsk) /\ dsk.at = img.at
  /\ dsk.format \in DOMAIN DiskFormat \cup {"CUSTOM"} /\ dsk.layout \in Layouts
  /\ Sound(dsk)
  /\ HasDirectory(dsk) => Fits(d, dsk) /\ (OfProDOS(d) => AsNamed(d))

\* When a look at a file is that.
LEMMA MountedView ==
  ASSUME NEW d, Imaged(d), NEW img, NEW in, OnFile(d, img, in),
         NEW format, NEW layout, GoodView(d.sectors, format, layout),
         (OfDOS(d) /\ format = d.format /\ d.layout = "DOS33" /\ d.ext # "po") => layout \notin Interleaved,
         (OfProDOS(d) /\ format \in {"PRODOS", "PRODOS_400", "PRODOS_800"}) =>
           /\ format = d.format
           /\ format = "PRODOS" => layout = WithHint(d.layout, d)
  PROVE  Mounted(d, img, As(img, format, layout))
<1> PICK dsk : dsk = As(img, format, layout) OBVIOUS
<1>1. img.sectors = d.sectors /\ img.ext = d.ext /\ img.boot = d.boot /\ d.sectors \in Nat
  BY DiskCases DEF OnFile
<1>2. /\ IsDisk(dsk) /\ dsk.at = img.at /\ dsk.format = format /\ dsk.layout = layout
      /\ dsk.shape = DiskFormat[format] /\ dsk.sectors = d.sectors /\ dsk.ext = d.ext /\ dsk.boot = d.boot
      /\ format \in DOMAIN DiskFormat /\ layout \in Layouts /\ Sound(dsk)
  BY <1>1, GoodViewSound
<1>3. ASSUME HasDirectory(dsk)
      PROVE  Fits(d, dsk) /\ (OfProDOS(d) => AsNamed(d))
  <2>1. CASE OfDOS(d) /\ format = d.format
    BY <2>1, <1>2 DEF Fits, OfDOS, OfProDOS
  <2>2. CASE /\ OfProDOS(d) /\ format \in {"PRODOS", "PRODOS_400", "PRODOS_800"}
             /\ format = "PRODOS" => HeadAt(layout, d.sectors) = HeaderPlace(d)
    <3>0. OfProDOS(d)
      BY <2>2
    <3>1. format = d.format /\ (format = "PRODOS" => layout = WithHint(d.layout, d))
      BY <2>2
    <3>5. \/ d.format = "PRODOS" /\ d.sectors = 560 /\ d.layout \in {"DOS33", "DOS33Alt", "ProDOS", "Linear"}
          \/ d.format = "PRODOS_400" /\ d.sectors = 1600 /\ d.layout = "Linear"
          \/ d.format = "PRODOS_800" /\ d.sectors = 3200 /\ d.layout = "Linear"
      BY <3>0, DiskCases
    <3>2. CASE format = "PRODOS"
      <4>1. /\ d.sectors = 560 /\ d.layout \in {"DOS33", "DOS33Alt", "ProDOS", "Linear"}
            /\ layout = WithHint(d.layout, d)
        BY <3>1, <3>2, <3>5
      <4>2. layout \in {d.layout, "ProDOS", "DOS33"}
        BY <4>1, Hints
      <4>3. HeaderPlace(d) = HeadAt(d.layout, 560)
        BY <4>1 DEF HeaderPlace, HeadAt
      <4>4. HeadAt(layout, 560) = HeadAt(d.layout, 560)
        BY <2>2, <3>2, <4>1, <4>3
      <4>5. layout = d.layout
        <5>1. layout \in {"DOS33", "DOS33Alt", "ProDOS", "Linear"}
          BY <4>1, <4>2
        <5> QED BY <4>1, <4>4, <5>1, HeadsApart
      <4> QED BY <1>2, <2>2, <3>1, <4>1, <4>5 DEF Fits, AsNamed, OfDOS, OfProDOS
    <3>3. CASE format = "PRODOS_400"
      <4>1. d.sectors = 1600 /\ d.layout = "Linear"
        BY <3>1, <3>3, <3>5
      <4>2. layout = "Linear"
        BY <3>3 DEF GoodView
      <4> QED BY <1>2, <2>2, <3>1, <4>1, <4>2 DEF Fits, AsNamed, OfDOS, OfProDOS
    <3>4. CASE format = "PRODOS_800"
      <4>1. d.sectors = 3200 /\ d.layout = "Linear"
        BY <3>1, <3>4, <3>5
      <4>2. layout \in {"Linear", "DOS33"}
        BY <3>4 DEF GoodView
      <4> QED BY <1>2, <2>2, <3>1, <4>1, <4>2 DEF Fits, AsNamed, OfDOS, OfProDOS
    <3> QED BY <2>2, <3>2, <3>3, <3>4
  <2> QED BY <1>3, <2>1, <2>2, DirectoryOf
<1> QED BY <1>2, <1>3 DEF Mounted

\* What is left when no directory was found.
LEMMA NoDirectoryView ==
  ASSUME NEW d, Imaged(d), NEW img, NEW in, OnFile(d, img, in)
  PROVE  \E format, layout :
           /\ NoDirectory(img) = As(img, format, layout)
           /\ GoodView(d.sectors, format, layout)
           /\ OfDOS(d) /\ d.sectors = 560 => format = "DOS_16" /\ layout = "DOS33"
           /\ OfDOS(d) /\ d.sectors = 455 =>
                IF d.boot = "DOS_13" THEN format = "DOS_13" /\ layout = "DOS32" ELSE format # "DOS_13"
           /\ OfProDOS(d) /\ d.sectors = 1600 => format = "NONE"
<1> PICK found : found = IF ProDOSLayout(img) = "none" THEN "DOS33" ELSE ProDOSLayout(img) OBVIOUS
<1> PICK dsk : dsk = As(img, FormatByBoot(img), found) OBVIOUS
<1>1. img.sectors = d.sectors /\ d.sectors \in {455, 560, 910, 1600, 3200}
  BY SectorsKnown DEF OnFile
<1>2. /\ found \in Layouts
      /\ OfProDOS(d) /\ d.sectors = 1600 => found = "Linear"
  BY OrderLeft
<1>3. /\ HasVTOC(dsk, 16) <=> OfDOS(d) /\ d.sectors = 560
      /\ HasVTOC(dsk, 13) <=> OfDOS(d) /\ d.sectors = 455 /\ d.boot = "DOS_13"
  BY <1>2, VTOCFound
<1>4. d.sectors \in {1600, 3200} => ~OfDOS(d)
  BY SectorsKnown DEF OfDOS, OfProDOS
<1>5. CASE d.sectors = 910
  <2>1. NoDirectory(img) = As(img, "DOS_16", found)
    BY <1>1, <1>5 DEF NoDirectory, SectorsNIB
  <2>2. GoodView(d.sectors, "DOS_16", found)
    BY <1>2, <1>5 DEF GoodView
  <2> QED BY <1>5, <2>1, <2>2
<1>6. CASE d.sectors = 1600
  <2>1. NoDirectory(img) = As(img, "NONE", found)
    BY <1>1, <1>6 DEF NoDirectory, SectorsNIB, Sectors140K, Sectors113K, Sectors800K
  <2>2. GoodView(d.sectors, "NONE", found)
    BY <1>2 DEF GoodView
  <2> QED BY <1>4, <1>6, <2>1, <2>2
<1>7. CASE d.sectors \in {455, 560, 3200}
  <2>0. NoDirectory(img) =
          IF HasVTOC(dsk, 16) THEN As(img, "DOS_16", "DOS33")
          ELSE IF HasVTOC(dsk, 13) THEN As(img, "DOS_13", "DOS32")
          ELSE NoVTOC(img, found)
    <3>1. img.sectors # SectorsNIB /\ img.sectors \in {Sectors140K, Sectors113K, Sectors800K}
      BY <1>1, <1>7 DEF SectorsNIB, Sectors140K, Sectors113K, Sectors800K
    <3> QED BY <3>1 DEF NoDirectory
  <2>1. d.sectors >= 560 \/ d.sectors = 455
    BY <1>7
  <2>2. CASE HasVTOC(dsk, 16)
    <3>1. NoDirectory(img) = As(img, "DOS_16", "DOS33")
      BY <2>0, <2>2
    <3>2. GoodView(d.sectors, "DOS_16", "DOS33")
      BY <2>1 DEF GoodView, Layouts
    <3> QED BY <1>3, <1>7, <2>2, <3>1, <3>2
  <2>3. CASE ~HasVTOC(dsk, 16) /\ HasVTOC(dsk, 13)
    <3>1. NoDirectory(img) = As(img, "DOS_13", "DOS32")
      BY <2>0, <2>3
    <3>2. GoodView(d.sectors, "DOS_13", "DOS32")
      BY <1>7 DEF GoodView, Layouts
    <3> QED BY <1>3, <1>7, <2>3, <3>1, <3>2
  <2>4. CASE ~HasVTOC(dsk, 16) /\ ~HasVTOC(dsk, 13)
    <3>1. \/ NoDirectory(img) = As(img, "PASCAL", "DOS33")
          \/ NoDirectory(img) = As(img, "PRODOS_800", "DOS33") /\ d.sectors = 3200
          \/ NoDirectory(img) = As(img, "PRODOS", "DOS33")
          \/ NoDirectory(img) = As(img, "PRODOS", "DOS33Alt")
          \/ NoDirectory(img) = As(img, "PRODOS", "ProDOS")
          \/ NoDirectory(img) = As(img, "DOS_16", "DOS33")
          \/ NoDirectory(img) = As(img, "NONE", "DOS33")
      <4> PICK view : view = NoVTOC(img, found) OBVIOUS
      <4>1. NoDirectory(img) = view
        BY <2>0, <2>4
      <4>2. img.sectors = Sectors800K <=> d.sectors = 3200
        BY <1>1 DEF Sectors800K
      <4>3. \/ view = As(img, "PASCAL", "DOS33")
            \/ view = As(img, "PRODOS_800", "DOS33") /\ d.sectors = 3200
            \/ view = As(img, "PRODOS", "DOS33")
            \/ view = As(img, "PRODOS", "DOS33Alt")
            \/ view = As(img, "PRODOS", "ProDOS")
            \/ view = As(img, "DOS_16", "DOS33")
            \/ view = As(img, "NONE", "DOS33")
        <5>1. CASE IsPascal(img, found)
          BY <5>1 DEF NoVTOC
        <5>2. CASE ~IsPascal(img, found)
          <6> PICK v, w, x, h, n : /\ v = As(img, "PRODOS_800", "DOS33") /\ w = As(img, "PRODOS", "DOS33")
                                   /\ x = As(img, "PRODOS", "DOS33Alt") /\ h = As(img, "PRODOS", "ProDOS")
                                   /\ n = As(img, "DOS_16", "DOS33")
            OBVIOUS
          <6>1. CASE img.sectors = Sectors800K /\ HasVDH(As(img, "PRODOS_800", found), 1600)
            <7>1. view = v
              BY <5>2, <6>1 DEF NoVTOC
            <7> QED BY <4>2, <6>1, <7>1
          <6>2. CASE ~(img.sectors = Sectors800K /\ HasVDH(As(img, "PRODOS_800", found), 1600))
            <7>1. view \in {w, x, h, n, As(img, "NONE", "DOS33")}
              BY <5>2, <6>2 DEF NoVTOC
            <7> QED BY <7>1
          <6> QED BY <6>1, <6>2
        <5> QED BY <5>1, <5>2
      <4> QED BY <4>1, <4>3
    <3>2. /\ GoodView(d.sectors, "DOS_16", "DOS33") /\ GoodView(d.sectors, "PASCAL", "DOS33")
          /\ d.sectors = 3200 => GoodView(d.sectors, "PRODOS_800", "DOS33")
          /\ GoodView(d.sectors, "PRODOS", "DOS33") /\ GoodView(d.sectors, "PRODOS", "DOS33Alt")
          /\ GoodView(d.sectors, "PRODOS", "ProDOS") /\ GoodView(d.sectors, "NONE", "DOS33")
      BY <2>1 DEF GoodView, Layouts
    <3>3. /\ ~(OfDOS(d) /\ d.sectors = 560) /\ ~(OfDOS(d) /\ d.sectors = 455 /\ d.boot = "DOS_13")
          /\ d.sectors # 1600
      BY <1>3, <1>7, <2>4
    <3> QED BY <3>1, <3>2, <3>3
  <2> QED BY <2>2, <2>3, <2>4
<1> QED BY <1>1, <1>5, <1>6, <1>7

\* What an image without a header is taken for.
LEMMA Recognised ==
  ASSUME NEW d, Imaged(d), NEW img, NEW in, OnFile(d, img, in), img.header = NoHeader
  PROVE  /\ OfProDOS(d) /\ d.sectors = 560 => Identified(img) = As(img, "PRODOS", WithHint(d.layout, d))
         /\ OfProDOS(d) /\ d.sectors = 3200 => Identified(img) = As(img, "PRODOS_800", "DOS33")
         /\ OfProDOS(d) /\ d.sectors = 1600 => Identified(img) = NoDirectory(img)
         /\ OfDOS(d) /\ AppleDOSLayout(img) # "none" =>
              Identified(img) = As(img, d.format, WithHint(AppleDOSLayout(img), img))
         /\ OfDOS(d) /\ AppleDOSLayout(img) = "none" => Identified(img) = NoDirectory(img)
         /\ ~OfDOS(d) /\ ~OfProDOS(d) =>
              IF RDOSFormat(img) = "none" THEN Identified(img) = NoDirectory(img)
              ELSE Identified(img) =
                     As(img, RDOSFormat(img), IF RDOSFormat(img) = "RDOS_33" THEN "ProDOS" ELSE "DOS33Alt")
<1>1. img.sectors = d.sectors /\ d.sectors \in {455, 560, 910, 1600, 3200} /\ img.ext = d.ext
  BY SectorsKnown DEF OnFile
<1> PICK pd : pd = ProDOSLayout(img) OBVIOUS
<1> PICK rdos : rdos = RDOSFormat(img) OBVIOUS
<1> PICK dos : dos = AppleDOSLayout(img) OBVIOUS
<1>2. Identified(img) =
        IF pd # "none" /\ d.sectors = 560 THEN As(img, "PRODOS", WithHint(pd, img))
        ELSE IF pd # "none" /\ d.sectors = 3200 THEN As(img, "PRODOS_800", pd)
        ELSE IF rdos # "none" THEN As(img, rdos, IF rdos = "RDOS_33" THEN "ProDOS" ELSE "DOS33Alt")
        ELSE IF dos # "none"
          THEN As(img, IF d.sectors = 455 THEN "DOS_13" ELSE "DOS_16", WithHint(dos, img))
        ELSE NoDirectory(img)
  BY <1>1 DEF Identified, Sectors140K, Sectors113K, Sectors800K
<1>3. CASE OfProDOS(d)
  <2>1. ~OfDOS(d) /\ rdos = "none" /\ dos = "none"
    BY <1>3, RDOSFound, DOSFound DEF OfDOS, OfProDOS
  <2>2. pd = IF d.sectors = 3200 THEN "DOS33" ELSE d.layout
    BY <1>3, ProDOSFound
  <2>3. d.layout # "none"
    BY <1>3, DiskCases
  <2>4. WithHint(d.layout, img) = WithHint(d.layout, d)
    BY <1>1, Hints
  <2> QED BY <1>2, <1>3, <2>1, <2>2, <2>3, <2>4
<1>4. CASE OfDOS(d)
  <2>1. ~OfProDOS(d) /\ rdos = "none" /\ pd = "none"
    BY <1>4, RDOSFound, ProDOSFound DEF OfDOS, OfProDOS
  <2>2. d.format = IF d.sectors = 455 THEN "DOS_13" ELSE "DOS_16"
    BY <1>4, DiskCases
  <2> QED BY <1>2, <1>4, <2>1, <2>2
<1>5. CASE ~OfDOS(d) /\ ~OfProDOS(d)
  <2>1. pd = "none" /\ dos = "none"
    BY <1>5, ProDOSFound, DOSFound
  <2> QED BY <1>2, <1>5, <2>1
<1> QED BY <1>3, <1>4, <1>5

\* A mount without a header makes that of the image.
LEMMA MountedBare ==
  ASSUME NEW d, Imaged(d), NEW img, NEW in, OnFile(d, img, in), img.header = NoHeader
  PROVE  Mounted(d, img, Identified(img))
<1>1. img.sectors = d.sectors /\ img.ext = d.ext /\ d.sectors \in {455, 560, 910, 1600, 3200}
  BY SectorsKnown DEF OnFile
<1>2. ~(OfDOS(d) /\ OfProDOS(d))
  BY DEF OfDOS, OfProDOS
<1>3. PICK nf, nl :
        /\ NoDirectory(img) = As(img, nf, nl)
        /\ GoodView(d.sectors, nf, nl)
        /\ OfDOS(d) /\ d.sectors = 560 => nf = "DOS_16" /\ nl = "DOS33"
        /\ OfDOS(d) /\ d.sectors = 455 =>
             IF d.boot = "DOS_13" THEN nf = "DOS_13" /\ nl = "DOS32" ELSE nf # "DOS_13"
        /\ OfProDOS(d) /\ d.sectors = 1600 => nf = "NONE"
  BY NoDirectoryView
<1>4. CASE OfProDOS(d)
  <2>1. \/ d.format = "PRODOS" /\ d.sectors = 560 /\ d.layout \in {"DOS33", "DOS33Alt", "ProDOS", "Linear"}
        \/ d.format = "PRODOS_400" /\ d.sectors = 1600 /\ d.layout = "Linear"
        \/ d.format = "PRODOS_800" /\ d.sectors = 3200 /\ d.layout = "Linear"
    BY <1>4, DiskCases
  <2>2. CASE d.sectors = 560
    <3> PICK l : l = WithHint(d.layout, d) OBVIOUS
    <3>1. Identified(img) = As(img, "PRODOS", l)
      BY <1>4, <2>2, Recognised
    <3>2. l \in Layouts
      BY <2>1, <2>2, Hints DEF Layouts
    <3>3. GoodView(d.sectors, "PRODOS", l) /\ d.format = "PRODOS"
      BY <2>1, <2>2, <3>2 DEF GoodView
    <3> QED BY <1>2, <1>4, <3>1, <3>3, MountedView
  <2>3. CASE d.sectors = 3200
    <3>1. Identified(img) = As(img, "PRODOS_800", "DOS33")
      BY <1>4, <2>3, Recognised
    <3>2. GoodView(d.sectors, "PRODOS_800", "DOS33") /\ d.format = "PRODOS_800"
      BY <2>1, <2>3 DEF GoodView, Layouts
    <3> QED BY <1>2, <1>4, <3>1, <3>2, MountedView
  <2>4. CASE d.sectors = 1600
    <3>1. Identified(img) = As(img, nf, nl) /\ nf = "NONE"
      BY <1>3, <1>4, <2>4, Recognised
    <3> QED BY <1>2, <1>3, <1>4, <3>1, MountedView
  <2> QED BY <2>1, <2>2, <2>3, <2>4
<1>5. CASE OfDOS(d)
  <2>1. \/ d.format = "DOS_16" /\ d.sectors = 560
        \/ d.format = "DOS_13" /\ d.sectors = 455
    BY <1>5, DiskCases
  <2>2. CASE AppleDOSLayout(img) = "none"
    <3>1. Identified(img) = As(img, nf, nl)
      BY <1>3, <1>5, <2>2, Recognised
    <3>2. nf = d.format => nl \notin Interleaved
      BY <1>3, <1>5, <2>1 DEF Interleaved
    <3> QED BY <1>2, <1>3, <1>5, <3>1, <3>2, MountedView
  <2>3. CASE AppleDOSLayout(img) # "none"
    <3> PICK dos : dos = AppleDOSLayout(img) OBVIOUS
    <3> PICK l : l = WithHint(dos, img) OBVIOUS
    <3>1. Identified(img) = As(img, d.format, l)
      BY <1>5, <2>3, Recognised
    <3>2. l \in {dos, "ProDOS", "DOS33"} /\ dos \in {"DOS33", "DOS33Alt", "ProDOS", "Linear"}
      BY <1>1, <2>3, Hints, DOSFound
    <3>3. GoodView(d.sectors, d.format, l)
      BY <2>1, <3>2 DEF GoodView, Layouts
    <3>4. ASSUME d.layout = "DOS33", d.ext # "po" PROVE l \notin Interleaved
      <4>1. dos = "DOS33"
        BY <1>5, <2>3, <3>4, DOSFound
      <4> QED BY <1>1, <3>4, <4>1, Hints DEF Interleaved
    <3> QED BY <1>2, <1>5, <3>1, <3>3, <3>4, MountedView
  <2> QED BY <2>2, <2>3
<1>6. CASE ~OfDOS(d) /\ ~OfProDOS(d)
  <2>1. CASE RDOSFormat(img) = "none"
    <3>1. Identified(img) = As(img, nf, nl)
      BY <1>3, <1>6, <2>1, Recognised
    <3> QED BY <1>3, <1>6, <3>1, MountedView
  <2>2. CASE RDOSFormat(img) # "none"
    <3> PICK rdos : rdos = RDOSFormat(img) OBVIOUS
    <3> PICK l : l = IF rdos = "RDOS_33" THEN "ProDOS" ELSE "DOS33Alt" OBVIOUS
    <3>1. Identified(img) = As(img, rdos, l)
      BY <1>6, <2>2, Recognised
    <3>2. \/ rdos = "RDOS_32" /\ d.sectors = 455
          \/ rdos \in {"RDOS_3", "RDOS_33"} /\ d.sectors = 560
      BY <2>2, RDOSFound
    <3>3. GoodView(d.sectors, rdos, l)
      BY <3>2 DEF GoodView, Layouts
    <3> QED BY <1>6, <3>1, <3>3, MountedView
  <2> QED BY <2>1, <2>2
<1> QED BY <1>4, <1>5, <1>6

\* A header is believed, and only of what it knows.
LEMMA MountedHeaded ==
  ASSUME NEW d, Imaged(d), NEW img, NEW in, OnFile(d, img, in), img.header # NoHeader
  PROVE  /\ Mounted(d, img, Identified(img))
         /\ OfDOS(d) /\ d.layout = "DOS33" => Fits(d, Identified(img))
         /\ OfProDOS(d) /\ d.sectors \in {1600, 3200} => Fits(d, Identified(img))
<1>1. /\ img.sectors = d.sectors /\ img.ext = d.ext /\ img.boot = d.boot
      /\ d.sectors \in {455, 560, 910, 1600, 3200}
      /\ Volume(d, img.at) /\ img.header = d.header /\ d.header # NoHeader
  BY SectorsKnown DEF OnFile
<1> PICK h : h = d.header OBVIOUS
<1> PICK I : I = Identified(img) OBVIOUS
<1>2. h.order \in {"dos", "prodos"}
  BY <1>1 DEF Imaged, Disk
<1>3. d.sectors \in {560, 1600, 3200} /\ h.blocks = d.sectors \div 2 /\ d.layout = IF h.order = "dos" THEN "DOS33" ELSE "Linear"
  BY <1>1 DEF Imaged, IsImage, Sectors140K, Sectors400K, Sectors800K
<1>4. I = From2MG(img)
  BY <1>1 DEF Identified
<1>5. ~(OfDOS(d) /\ OfProDOS(d))
  BY DEF OfDOS, OfProDOS
<1>6. /\ OfDOS(d) => d.format \in {"DOS_13", "DOS_16"} /\ (d.sectors = 560 => d.format = "DOS_16") /\ d.sectors \in {560, 455}
      /\ OfProDOS(d) =>
           \/ d.format = "PRODOS" /\ d.sectors = 560
           \/ d.format = "PRODOS_400" /\ d.sectors = 1600 /\ d.layout = "Linear"
           \/ d.format = "PRODOS_800" /\ d.sectors = 3200 /\ d.layout = "Linear"
  BY DiskCases
<1>7. CASE h.order = "dos"
  <2>1. I = As(img, "DOS_16", "DOS33") /\ d.layout = "DOS33"
    BY <1>1, <1>3, <1>4, <1>7 DEF From2MG
  <2>2. GoodView(d.sectors, "DOS_16", "DOS33") /\ "DOS33" \notin Interleaved
    BY <1>3 DEF GoodView, Layouts, Interleaved
  <2>3. Mounted(d, img, I)
    BY <2>1, <2>2, MountedView
  <2>4. ASSUME OfDOS(d) PROVE Fits(d, I)
    <3>1. d.format = "DOS_16"
      BY <1>3, <1>6, <2>4
    <3>2. IsDisk(I) /\ I.format = "DOS_16" /\ I.layout = "DOS33" /\ I.shape = DiskFormat["DOS_16"]
          /\ I.sectors = d.sectors /\ I.ext = d.ext /\ I.boot = d.boot
      BY <1>1, <2>1, <2>2, GoodViewSound
    <3> QED BY <2>4, <3>1, <3>2 DEF Fits, OfDOS, OfProDOS, Layouts, Interleaved
  <2>5. ~(OfProDOS(d) /\ d.sectors \in {1600, 3200})
    BY <1>6, <2>1
  <2> QED BY <2>3, <2>4, <2>5
<1>8. CASE h.order = "prodos" /\ d.sectors = 560
  <2>1. h.blocks = 280 /\ d.layout = "Linear"
    BY <1>3, <1>8
  <2>2. I = [format |-> "CUSTOM", shape |-> GetPDDiskFormat(280), layout |-> "Linear",
             sectors |-> img.sectors, ext |-> img.ext, boot |-> img.boot, at |-> img.at]
    BY <1>1, <1>4, <1>8, <2>1 DEF From2MG
  <2>3. /\ IsDisk(I) /\ I.format = "CUSTOM" /\ I.layout = "Linear" /\ I.at = img.at
        /\ I.shape = Shape(280, 3, 3, 80)
    <3>1. GetPDDiskFormat(280) = Shape(280, 3, 3, 80)
      <4>1. 280 \div 80 = 3
        OBVIOUS
      <4> QED BY <4>1 DEF GetPDDiskFormat
    <3> PICK s : s = Shape(280, 3, 3, 80) OBVIOUS
    <3>4. I = [format |-> "CUSTOM", shape |-> s, layout |-> "Linear",
               sectors |-> img.sectors, ext |-> img.ext, boot |-> img.boot, at |-> img.at]
      BY <2>2, <3>1
    <3> QED BY <3>4 DEF IsDisk
  <2>4. ~HasDirectory(I)
    <3>1. ~IsDOS(I)
      BY <2>3 DEF IsDOS
    <3>2. BlocksPerTrack(I) = 1
      BY <2>3 DEF BlocksPerTrack, Shape
    <3>3. GetBlockSectors(I, 2).track = 2 /\ GetBlockSectors(I, 2).pair[1] = 0
      BY <2>3, <3>2 DEF GetBlockSectors
    <3>4. SectorPointer(I, 2, 0) = 6
      BY <2>3 DEF SectorPointer, Mapped, Interleaved, Shape
    <3>5. Header(I, 2) \in {Cell(img.at, 6), Blank}
      BY <2>3, <3>3, <3>4, SectorIsCell DEF Header
    <3>6. Cell(img.at, 6).tag # "vdh"
      <4>1. HeaderPlace(d) = 4
        BY <2>1 DEF HeaderPlace
      <4> QED BY <1>1, <4>1, TagsOf
    <3> QED BY <3>1, <3>5, <3>6 DEF HasDirectory, Blank
  <2>5. Mounted(d, img, I)
    BY <2>3, <2>4 DEF Mounted, Sound, Layouts
  <2> QED BY <1>8, <2>1, <2>5
<1>9. CASE h.order = "prodos" /\ d.sectors \in {1600, 3200}
  <2>1. OfProDOS(d)
    BY <1>9, SectorsKnown
  <2> PICK format : format = IF d.sectors = 3200 THEN "PRODOS_800" ELSE "PRODOS_400" OBVIOUS
  <2>2. I = As(img, format, "Linear") /\ d.layout = "Linear" /\ d.format = format
    BY <1>1, <1>3, <1>4, <1>6, <1>9, <2>1 DEF From2MG
  <2>3. GoodView(d.sectors, format, "Linear")
    BY <1>9 DEF GoodView, Layouts
  <2>4. format # "PRODOS"
    OBVIOUS
  <2>5. Mounted(d, img, I)
    BY <1>5, <2>1, <2>2, <2>3, <2>4, MountedView
  <2>6. /\ IsDisk(I) /\ I.format = format /\ I.layout = "Linear" /\ I.shape = DiskFormat[format]
        /\ I.sectors = d.sectors /\ I.ext = d.ext /\ I.boot = d.boot
    BY <1>1, <2>2, <2>3, GoodViewSound
  <2>7. Fits(d, I)
    BY <2>1, <2>2, <2>6 DEF Fits
  <2> QED BY <1>5, <2>1, <2>5, <2>7
<1> QED BY <1>2, <1>3, <1>7, <1>8, <1>9

\* A look at a file in its own order finds the directory.
LEMMA FitsView ==
  ASSUME NEW d, Imaged(d), OfDOS(d) \/ OfProDOS(d), NEW img,
         img.sectors = d.sectors, img.ext = d.ext, img.boot = d.boot,
         NEW l \in Layouts, GoodView(d.sectors, d.format, l),
         OfDOS(d) => l \notin Interleaved,
         OfProDOS(d) => l = d.layout \/ (d.sectors = 3200 /\ l = "DOS33")
  PROVE  Fits(d, As(img, d.format, l))
<1> PICK dsk : dsk = As(img, d.format, l) OBVIOUS
<1>1. d.sectors \in Nat
  BY DiskCases
<1>2. /\ IsDisk(dsk) /\ dsk.format = d.format /\ dsk.shape = DiskFormat[d.format] /\ dsk.layout = l
      /\ dsk.sectors = d.sectors /\ dsk.ext = d.ext /\ dsk.boot = d.boot
  BY <1>1, GoodViewSound
<1> QED BY <1>2 DEF Fits

\* What is found again without a header.
Found(d, in) ==
  \/ OfProDOS(d) /\ d.sectors = 3200
  \/ OfProDOS(d) /\ d.sectors = 560 /\ AsNamed(d)
  \/ /\ OfDOS(d) /\ d.layout = "DOS33" /\ d.ext # "po"
     /\ d.sectors = 560 \/ d.boot = "DOS_13" \/ in # {}

\* It is found where it is.
LEMMA FoundFits ==
  ASSUME NEW d, Imaged(d), NEW img, NEW in, OnFile(d, img, in), img.header = NoHeader, Found(d, in)
  PROVE  Fits(d, Identified(img))
<1>1. img.sectors = d.sectors /\ img.ext = d.ext /\ img.boot = d.boot
  BY DEF OnFile
<1>2. ~(OfDOS(d) /\ OfProDOS(d))
  BY DEF OfDOS, OfProDOS
<1>3. CASE OfProDOS(d) /\ d.sectors = 3200
  <2>1. Identified(img) = As(img, "PRODOS_800", "DOS33")
    BY <1>3, Recognised
  <2>2. d.format = "PRODOS_800" /\ GoodView(d.sectors, d.format, "DOS33")
    BY <1>3, DiskCases DEF GoodView, Layouts
  <2>3. "DOS33" \in Layouts
    BY DEF Layouts
  <2>4. Fits(d, As(img, d.format, "DOS33"))
    BY <1>1, <1>2, <1>3, <2>2, <2>3, FitsView
  <2> QED BY <2>1, <2>2, <2>4
<1>4. CASE OfProDOS(d) /\ d.sectors = 560 /\ AsNamed(d)
  <2>1. Identified(img) = As(img, "PRODOS", d.layout)
    BY <1>4, Recognised DEF AsNamed
  <2>2. d.format = "PRODOS" /\ d.layout \in Layouts
    BY <1>4, DiskCases
  <2>3. GoodView(d.sectors, d.format, d.layout)
    BY <1>4, <2>2 DEF GoodView
  <2>4. Fits(d, As(img, d.format, d.layout))
    BY <1>1, <1>2, <1>4, <2>2, <2>3, FitsView
  <2> QED BY <2>1, <2>2, <2>4
<1>5. CASE /\ OfDOS(d) /\ d.layout = "DOS33" /\ d.ext # "po"
           /\ d.sectors = 560 \/ d.boot = "DOS_13" \/ in # {}
  <2>1. \/ d.format = "DOS_16" /\ d.sectors = 560
        \/ d.format = "DOS_13" /\ d.sectors = 455
    BY <1>5, DiskCases
  <2>2. \E l \in {"DOS33", "DOS32"} : Identified(img) = As(img, d.format, l)
    <3>1. CASE in # {}
      <4>1. AppleDOSLayout(img) = "DOS33"
        BY <1>5, <3>1, DOSFound
      <4>2. WithHint("DOS33", img) = "DOS33"
        BY <1>1, <1>5, Hints
      <4> QED BY <1>5, <4>1, <4>2, Recognised
    <3>2. CASE in = {}
      <4>1. AppleDOSLayout(img) = "none"
        BY <1>5, <3>2, DOSFound
      <4>2. Identified(img) = NoDirectory(img)
        BY <1>5, <4>1, Recognised
      <4>3. PICK format, layout :
              /\ NoDirectory(img) = As(img, format, layout)
              /\ OfDOS(d) /\ d.sectors = 560 => format = "DOS_16" /\ layout = "DOS33"
              /\ OfDOS(d) /\ d.sectors = 455 =>
                   IF d.boot = "DOS_13" THEN format = "DOS_13" /\ layout = "DOS32" ELSE format # "DOS_13"
        BY NoDirectoryView
      <4>4. format = d.format /\ layout \in {"DOS33", "DOS32"}
        BY <1>5, <2>1, <3>2, <4>3
      <4> QED BY <4>2, <4>3, <4>4
    <3> QED BY <3>1, <3>2
  <2>3. PICK l \in {"DOS33", "DOS32"} : Identified(img) = As(img, d.format, l)
    BY <2>2
  <2>4. GoodView(d.sectors, d.format, l) /\ l \in Layouts /\ l \notin Interleaved
    BY <2>1 DEF GoodView, Layouts, Interleaved
  <2>5. Fits(d, As(img, d.format, l))
    BY <1>1, <1>2, <1>5, <2>4, FitsView
  <2> QED BY <2>3, <2>5
<1> QED BY <1>3, <1>4, <1>5 DEF Found

\* A mount makes that of every image.
LEMMA MountedImage ==
  ASSUME NEW d, Imaged(d), NEW img, NEW in, OnFile(d, img, in)
  PROVE  Mounted(d, img, Identified(img))
BY MountedBare, MountedHeaded

\* The property Readable of the disk d in an image with some header.
Legible(d, header) ==
  \/ /\ d.system = "ProDOS"
     /\ \/ d.sectors = Sectors800K
        \/ d.sectors = Sectors140K /\ d.header = NoHeader /\ WithHint(d.layout, d) = d.layout
        \/ d.sectors = Sectors400K /\ header # NoHeader
  \/ d.system = "DOS" /\ d.layout = "DOS33" /\ d.ext # "po" /\ d.sectors # SectorsNIB

\* A legible disk is read for what it is; one in DOS order that is of DOS 3.2
\* and empty, with a boot sector that is not known, is not recognised, and nothing
\* is found on it.
LEMMA ReadForWhatItIs ==
  ASSUME NEW d, Imaged(d), NEW img, NEW in, OnFile(d, img, in), Legible(d, img.header)
  PROVE  LET dsk == Identified(img) IN Listed(dsk) = in /\ \A n \in in : Intact(dsk, n)
<1> PICK dsk : dsk = Identified(img) OBVIOUS
<1>1. \/ OfProDOS(d) /\ d.sectors = 3200
      \/ OfProDOS(d) /\ d.sectors = 560 /\ d.header = NoHeader /\ AsNamed(d)
      \/ OfProDOS(d) /\ d.sectors = 1600 /\ img.header # NoHeader
      \/ OfDOS(d) /\ d.layout = "DOS33" /\ d.ext # "po"
  BY DEF Legible, OfDOS, OfProDOS, AsNamed, Sectors800K, Sectors140K, Sectors400K, SectorsNIB
<1>2. /\ Volume(d, img.at) /\ Holds(d, img.at, in) /\ img.header \in {d.header, NoHeader}
      /\ dsk.at = img.at
  BY MountedImage DEF OnFile, Mounted
<1>3. CASE Fits(d, dsk)
  <2>1. Volume(d, dsk.at) /\ Holds(d, dsk.at, in)
    BY <1>2
  <2>2. OfProDOS(d) \/ (OfDOS(d) /\ d.layout = "DOS33" /\ d.ext # "po")
    BY <1>1
  <2>3. Listed(dsk) = in /\ \A n \in in : Intact(dsk, n)
    BY <1>3, <2>1, <2>2, HeldIsRead
  <2> QED BY <2>3
<1>4. CASE ~Fits(d, dsk)
  <2>1. img.header = NoHeader
    <3> SUFFICES ASSUME img.header # NoHeader PROVE FALSE
      OBVIOUS
    <3>1. ~(OfDOS(d) /\ d.layout = "DOS33") /\ ~(OfProDOS(d) /\ d.sectors \in {1600, 3200})
      BY <1>4, MountedHeaded
    <3> QED BY <1>1, <1>2, <3>1
  <2>2. ~Found(d, in)
    BY <1>4, <2>1, FoundFits
  <2>3. /\ OfDOS(d) /\ d.layout = "DOS33" /\ d.ext # "po" /\ d.sectors # 560
        /\ d.boot # "DOS_13" /\ in = {}
    BY <1>1, <2>1, <2>2 DEF Found
  <2>4. d.sectors = 455 /\ d.format = "DOS_13" /\ ~OfProDOS(d)
    BY <2>3, DiskCases DEF OfDOS, OfProDOS
  <2>5. AppleDOSLayout(img) = "none"
    BY <2>3, DOSFound
  <2>6. dsk = NoDirectory(img)
    BY <2>1, <2>3, <2>5, Recognised
  <2>7. PICK format, layout : /\ NoDirectory(img) = As(img, format, layout)
                              /\ GoodView(d.sectors, format, layout)
                              /\ format # "DOS_13"
    BY <2>3, <2>4, NoDirectoryView
  <2>8. ~HasDirectory(dsk)
    BY <2>4, <2>6, <2>7, DirectoryOf
  <2>9. Listed(dsk) = {}
    BY <2>8 DEF Listed
  <2> QED BY <2>3, <2>9
<1> QED BY <1>3, <1>4

\* What the property TakenForTheSame says of a disk in a slot.
TakenAgain(d, img, x) ==
  \/ Identified(img).format = x.format /\ SamePlaces(Identified(img), x)
  \/ x.format \in {"PRODOS_400", "CUSTOM"}
  \/ IsDOS(x) /\ x.sectors = Sectors113K /\ Listed(x) = {} /\ d.boot # "DOS_13"
  \/ d.system = "DOS" /\ (d.layout # "DOS33" \/ d.ext = "po")

\* It holds of a disk that has its directory where it is.
LEMMA TakenForIt ==
  ASSUME NEW d, Imaged(d), NEW img, NEW in, OnFile(d, img, in), img.header = NoHeader,
         NEW x, Fits(d, x), x.at = img.at, OfProDOS(d) => AsNamed(d)
  PROVE  TakenAgain(d, img, x)
<1> PICK I : I = Identified(img) OBVIOUS
<1>1. OfDOS(d) \/ OfProDOS(d)
  BY DEF Fits
<1>2. x.format = d.format /\ x.sectors = d.sectors
  BY DEF Fits
<1>3. CASE Fits(d, I)
  <2>1. I.format = x.format /\ I.shape = x.shape
    BY <1>3 DEF Fits
  <2>2. CASE OfProDOS(d)
    <3>1. /\ \A b : BlockPlaces(I, b) = BlockPlaces(x, b)
          /\ \A t, s : SectorPointer(I, t, s) = SectorPointer(x, t, s)
      BY <1>3, <2>2, SameBlocks
    <3> QED BY <2>1, <3>1 DEF TakenAgain, SamePlaces
  <2>3. CASE OfDOS(d)
    <3>1. CASE d.layout # "DOS33" \/ d.ext = "po"
      BY <2>3, <3>1 DEF TakenAgain, OfDOS
    <3>2. CASE d.layout = "DOS33" /\ d.ext # "po"
      <4>1. I.layout \notin Interleaved /\ x.layout \notin Interleaved /\ ~IsProDOS(I)
        BY <1>3, <2>3, <3>2, FitsDOS
      <4>2. \A t, s : SectorPointer(I, t, s) = SectorPointer(x, t, s)
        BY <2>1, <4>1 DEF SectorPointer, Mapped
      <4> QED BY <2>1, <4>1, <4>2 DEF TakenAgain, SamePlaces
    <3> QED BY <3>1, <3>2
  <2> QED BY <1>1, <2>2, <2>3
<1>4. CASE ~Fits(d, I)
  <2>1. ~Found(d, in)
    BY <1>4, FoundFits
  <2>2. CASE OfProDOS(d)
    <3>1. d.sectors = 1600
      BY <2>1, <2>2, DiskCases DEF Found
    <3>2. d.format = "PRODOS_400"
      BY <2>2, <3>1, DiskCases
    <3> QED BY <1>2, <3>2 DEF TakenAgain
  <2>3. CASE OfDOS(d) /\ (d.layout # "DOS33" \/ d.ext = "po")
    BY <2>3 DEF TakenAgain, OfDOS
  <2>4. CASE OfDOS(d) /\ d.layout = "DOS33" /\ d.ext # "po"
    <3>1. d.sectors # 560 /\ d.boot # "DOS_13" /\ in = {}
      BY <2>1, <2>4 DEF Found
    <3>2. d.sectors = 455
      BY <2>4, <3>1, DiskCases
    <3>3. Volume(d, x.at) /\ Holds(d, x.at, in)
      BY DEF OnFile
    <3>4. Listed(x) = {}
      BY <2>4, <3>1, <3>3, HeldIsRead
    <3>5. IsDOS(x)
      BY <2>4, FitsDOS
    <3> QED BY <1>2, <3>1, <3>2, <3>4, <3>5 DEF TakenAgain, Sectors113K
  <2> QED BY <1>1, <2>2, <2>3, <2>4
<1> QED BY <1>3, <1>4

\* Only a DOS or ProDOS disk has a directory.
LEMMA DirectoryNeedsSystem ==
  ASSUME NEW d, Imaged(d), NEW dsk, Volume(d, dsk.at), HasDirectory(dsk)
  PROVE  OfDOS(d) \/ OfProDOS(d)
<1>1. CASE HasVTOC(dsk, dsk.shape.spt)
  BY <1>1, SectorIsCell, TagsOf DEF HasVTOC
<1>2. CASE Header(dsk, 2).tag = "vdh"
  <2> PICK bs : bs = GetBlockSectors(dsk, 2) OBVIOUS
  <2>1. Header(dsk, 2) = Cell(dsk.at, SectorPointer(dsk, bs.track, bs.pair[1])) \/ Header(dsk, 2) = Blank
    BY SectorIsCell DEF Header
  <2>2. Header(dsk, 2) = Cell(dsk.at, SectorPointer(dsk, bs.track, bs.pair[1]))
    BY <1>2, <2>1 DEF Blank
  <2> QED BY <1>2, <2>2, TagsOf
<1> QED BY <1>1, <1>2 DEF HasDirectory

------------------------------------------------------------------------------
(* The inductive invariant: the image is one of the disk with the files on *)
(* it, whatever it is called and taken for, and a disk in the slot is what *)
(* a mount makes of the image; if it has a directory, it is that of the    *)
(* disk, where the disk has it.                                            *)

IsImageFile(img) ==
  img = [ext |-> img.ext, header |-> img.header, sectors |-> img.sectors, boot |-> img.boot,
         at |-> img.at]

MountedWell(d, img, dsk) ==
  /\ Mounted(d, img, dsk)
  /\ dsk = Identified(img) \/ (Fits(d, dsk) /\ (OfProDOS(d) => AsNamed(d)))

IInv ==
  /\ disk \in Disks
  /\ IsImageFile(image) /\ OnFile(disk, image, files)
  /\ slot # NotMounted => MountedWell(disk, image, slot)

\* A command on a disk that has a directory.
LEMMA CommandKeeps ==
  ASSUME NEW d, Imaged(d), NEW img, NEW in, OnFile(d, img, in), NEW dsk, MountedWell(d, img, dsk), HasDirectory(dsk),
         NEW n \in Names
  PROVE  /\ CanTake(dsk, n) =>
              LET w == WithFile(dsk, n) IN
              IsImageFile(Saved(w)) /\ OnFile(d, Saved(w), in \cup {n}) /\ MountedWell(d, Saved(w), w)
         /\ n \in Listed(dsk) =>
              LET w == WithoutFile(dsk, n) IN
              IsImageFile(Saved(w)) /\ OnFile(d, Saved(w), in \ {n}) /\ MountedWell(d, Saved(w), w)
<1>1. /\ dsk.at = img.at /\ Sound(dsk) /\ Fits(d, dsk) /\ (OfProDOS(d) => AsNamed(d))
      /\ dsk.format \in DOMAIN DiskFormat \cup {"CUSTOM"} /\ dsk.layout \in Layouts
  BY DEF MountedWell, Mounted
<1>2. Volume(d, dsk.at) /\ Holds(d, dsk.at, in)
  BY <1>1 DEF OnFile
<1>3. ASSUME NEW w, NEW out, Kept(d, dsk, w, out)
      PROVE  IsImageFile(Saved(w)) /\ OnFile(d, Saved(w), out) /\ MountedWell(d, Saved(w), w)
  <2>1. SameDisk(w, dsk) /\ Fits(d, w) /\ Volume(d, w.at) /\ Holds(d, w.at, out)
    BY <1>3 DEF Kept
  <2>2. w.sectors = d.sectors /\ w.ext = d.ext /\ w.boot = d.boot
    BY <2>1 DEF Fits
  <2>3. /\ IsDisk(w) /\ w.format = dsk.format /\ w.shape = dsk.shape /\ w.layout = dsk.layout
        /\ w.sectors = dsk.sectors
    BY <2>1 DEF SameDisk
  <2>4. Sound(w)
    BY <1>1, <2>3 DEF Sound, KnownShape
  <2> PICK s : s = Saved(w) OBVIOUS
  <2>5. s = [ext |-> d.ext, header |-> NoHeader, sectors |-> d.sectors, boot |-> d.boot, at |-> w.at]
    BY <2>2 DEF Saved
  <2>6. /\ s.ext = d.ext /\ s.header = NoHeader /\ s.sectors = d.sectors /\ s.boot = d.boot
        /\ s.at = w.at /\ IsImageFile(s)
    BY <2>5 DEF IsImageFile
  <2>7. OnFile(d, s, out)
    BY <2>1, <2>6 DEF OnFile
  <2>8. Mounted(d, s, w)
    BY <1>1, <2>1, <2>3, <2>4, <2>6 DEF Mounted
  <2> QED BY <1>1, <2>1, <2>6, <2>7, <2>8 DEF MountedWell
<1>4. CanTake(dsk, n) => Kept(d, dsk, WithFile(dsk, n), in \cup {n})
  BY <1>1, <1>2, FileKept
<1>5. n \in Listed(dsk) => Kept(d, dsk, WithoutFile(dsk, n), in \ {n})
  BY <1>1, <1>2, FileKept
<1> QED BY <1>3, <1>4, <1>5

\* The system of the disk writes a file.
LEMMA ElsewhereKeeps ==
  ASSUME NEW d, Imaged(d), NEW img, IsImageFile(img), NEW in, OnFile(d, img, in), NEW n \in Names,
         CanTake(TrueDisk(d, img.at), n)
  PROVE  LET new == [img EXCEPT !.at = WithFile(TrueDisk(d, img.at), n).at] IN
         IsImageFile(new) /\ OnFile(d, new, in \cup {n})
<1> PICK dsk : dsk = TrueDisk(d, img.at) OBVIOUS
<1> PICK w : w = WithFile(dsk, n) OBVIOUS
<1> PICK new : new = [img EXCEPT !.at = w.at] OBVIOUS
<1>1. dsk.at = img.at /\ Volume(d, img.at) /\ Holds(d, img.at, in)
  BY DEF TrueDisk, OnFile
<1>2. HasDirectory(dsk)
  BY DEF CanTake
<1>3. OfDOS(d) \/ OfProDOS(d)
  BY <1>1, <1>2, DirectoryNeedsSystem
<1>4. Fits(d, dsk)
  BY <1>3, TrueFits
<1>5. Kept(d, dsk, w, in \cup {n})
  BY <1>1, <1>4, FileKept
<1>6. new = [ext |-> img.ext, header |-> img.header, sectors |-> img.sectors, boot |-> img.boot,
             at |-> w.at]
  BY DEF IsImageFile
<1>7. IsImageFile(new)
  BY <1>6 DEF IsImageFile
<1>8. OnFile(d, new, in \cup {n})
  BY <1>5, <1>6 DEF OnFile, Kept
<1> QED BY <1>7, <1>8

\* The assumption on the constants.
LEMMA DisksAreImaged ==
  ASSUME NEW d \in Disks
  PROVE  Imaged(d)
BY DiskAssumption DEF Imaged

\* It holds of an image that was just made.
THEOREM DiskImageInit == Init => IInv
<1> SUFFICES ASSUME Init PROVE IInv
  OBVIOUS
<1> PICK d : d = disk OBVIOUS
<1> PICK img : img = [ext |-> d.ext, header |-> d.header, sectors |-> d.sectors, boot |-> d.boot,
                      at |-> Initialised(d)]
  OBVIOUS
<1>1. d \in Disks /\ files = {} /\ image = img /\ slot = NotMounted
  BY DEF Init
<1>2. Volume(d, Initialised(d)) /\ Holds(d, Initialised(d), {})
  BY <1>1, DisksAreImaged, InitialVolume
<1>3. IsImageFile(img) /\ OnFile(d, img, {})
  BY <1>2 DEF IsImageFile, OnFile
<1> QED BY <1>1, <1>3 DEF IInv

\* Every mount, every command and every file the system of the disk writes keeps
\* it.
THEOREM DiskImageNext == IInv /\ [Next]_vars => IInv'
<1> SUFFICES ASSUME IInv, [Next]_vars PROVE IInv'
  OBVIOUS
<1> PICK d : d = disk OBVIOUS
<1> PICK img : img = image OBVIOUS
<1> PICK in : in = files OBVIOUS
<1> PICK dsk : dsk = slot OBVIOUS
<1>1. d \in Disks /\ IsImageFile(img) /\ OnFile(d, img, in) /\ (dsk # NotMounted => MountedWell(d, img, dsk))
  BY DEF IInv
<1>2. Imaged(d)
  BY <1>1, DisksAreImaged
<1>3. CASE Mount
  <2> PICK I : I = Identified(img) OBVIOUS
  <2>1. disk' = d /\ files' = in /\ image' = img /\ slot' = I
    BY <1>3 DEF Mount
  <2>2. MountedWell(d, img, I)
    BY <1>1, <1>2, MountedImage DEF MountedWell
  <2> QED BY <1>1, <2>1, <2>2 DEF IInv
<1>4. CASE Unmount
  <2>1. disk' = d /\ files' = in /\ image' = img /\ slot' = NotMounted
    BY <1>4 DEF Unmount
  <2> QED BY <1>1, <2>1 DEF IInv
<1>5. ASSUME NEW n \in Names, WriteElsewhere(n)
      PROVE  IInv'
  <2> PICK new : new = [img EXCEPT !.at = WithFile(TrueDisk(d, img.at), n).at] OBVIOUS
  <2>1. /\ disk' = d /\ files' = in \cup {n} /\ image' = new /\ slot' = dsk /\ dsk = NotMounted
        /\ CanTake(TrueDisk(d, img.at), n)
    BY <1>5 DEF WriteElsewhere
  <2>2. IsImageFile(new) /\ OnFile(d, new, in \cup {n})
    BY <1>1, <1>2, <2>1, ElsewhereKeeps
  <2> QED BY <1>1, <2>1, <2>2 DEF IInv
<1>6. ASSUME NEW n \in Names, PutFile(n)
      PROVE  IInv'
  <2> PICK w : w = WithFile(dsk, n) OBVIOUS
  <2>1. disk' = d /\ files' = in \cup {n} /\ slot' = w /\ image' = Saved(w) /\ dsk # NotMounted /\ CanTake(dsk, n)
    BY <1>6 DEF PutFile
  <2>2. HasDirectory(dsk)
    BY <2>1 DEF CanTake
  <2>3. IsImageFile(Saved(w)) /\ OnFile(d, Saved(w), in \cup {n}) /\ MountedWell(d, Saved(w), w)
    BY <1>1, <1>2, <2>1, <2>2, CommandKeeps
  <2> QED BY <1>1, <2>1, <2>3 DEF IInv
<1>7. ASSUME NEW n \in Names, DeleteFile(n)
      PROVE  IInv'
  <2> PICK w : w = WithoutFile(dsk, n) OBVIOUS
  <2>1. /\ disk' = d /\ files' = in \ {n} /\ slot' = w /\ image' = Saved(w)
        /\ dsk # NotMounted /\ HasDirectory(dsk) /\ n \in Listed(dsk)
    BY <1>7 DEF DeleteFile
  <2>2. IsImageFile(Saved(w)) /\ OnFile(d, Saved(w), in \ {n}) /\ MountedWell(d, Saved(w), w)
    BY <1>1, <1>2, <2>1, CommandKeeps
  <2> QED BY <1>1, <2>1, <2>2 DEF IInv
<1>8. CASE UNCHANGED vars
  <2>1. disk' = d /\ files' = in /\ image' = img /\ slot' = dsk
    BY <1>8 DEF vars
  <2> QED BY <1>1, <2>1 DEF IInv
<1> QED BY <1>3, <1>4, <1>5, <1>6, <1>7, <1>8 DEF Next

\* So it holds always.
THEOREM DiskImageInvariant == Spec => []IInv
BY DiskImageInit, DiskImageNext, PTL DEF Spec

\* What is in the variables, in every session: a format and a layout that the
\* program knows, and a slot that holds what the image file does (saveDisk).
THEOREM DiskImageTyped == Spec => []TypeOK
<1>1. IInv => TypeOK
  <2> SUFFICES ASSUME IInv PROVE TypeOK
    OBVIOUS
  <2>1. Imaged(disk)
    BY DisksAreImaged DEF IInv
  <2>2. /\ image.ext = disk.ext /\ image.sectors = disk.sectors /\ image.boot = disk.boot
        /\ Volume(disk, image.at) /\ Holds(disk, image.at, files)
    BY DEF IInv, OnFile
  <2>3. disk.ext \in {"dsk", "po", "do"}
    BY <2>1, DiskCases
  <2>4. files \subseteq Names /\ DOMAIN image.at \subseteq 0 .. disk.sectors - 1
    BY <2>2 DEF Holds, Volume
  <2>5. slot # NotMounted =>
          /\ slot.format \in DOMAIN DiskFormat \cup {"CUSTOM"}
          /\ slot.layout \in Layouts
          /\ slot.at = image.at
    BY DEF IInv, MountedWell, Mounted
  <2> QED BY <2>2, <2>3, <2>4, <2>5 DEF TypeOK, IInv
<1> QED BY <1>1, DiskImageInvariant, PTL

\* A mount finds the files that were put and not deleted, each whole, for every
\* disk whose layout is not overruled (shellMount, Identify).
THEOREM FilesSurviveSessions == Spec => []FilesSurvive
<1>1. IInv => FilesSurvive
  <2> SUFFICES ASSUME IInv, Readable(disk)
               PROVE  LET dsk == IF slot = NotMounted THEN Identified(image) ELSE slot IN
                      Listed(dsk) = files /\ \A n \in files : Intact(dsk, n)
    BY DEF FilesSurvive
  <2> PICK d : d = disk OBVIOUS
  <2> PICK img : img = image OBVIOUS
  <2> PICK in : in = files OBVIOUS
  <2> PICK dsk : dsk = IF slot = NotMounted THEN Identified(img) ELSE slot OBVIOUS
  <2>1. Imaged(d) /\ OnFile(d, img, in)
    BY DisksAreImaged DEF IInv
  <2>2. Legible(d, img.header)
    BY DEF Readable, Legible
  <2>3. dsk = Identified(img) \/ (Fits(d, dsk) /\ dsk.at = img.at)
    BY DEF IInv, MountedWell, Mounted
  <2>4. CASE dsk = Identified(img)
    BY <2>1, <2>2, <2>4, ReadForWhatItIs
  <2>5. CASE Fits(d, dsk) /\ dsk.at = img.at
    <3>1. Volume(d, dsk.at) /\ Holds(d, dsk.at, in)
      BY <2>1, <2>5 DEF OnFile
    <3>2. OfProDOS(d) \/ (OfDOS(d) /\ d.layout = "DOS33" /\ d.ext # "po")
      BY <2>2 DEF Legible, OfDOS, OfProDOS, Sectors800K, Sectors140K, Sectors400K, SectorsNIB
    <3>3. Listed(dsk) = in /\ \A n \in in : Intact(dsk, n)
      BY <2>1, <2>5, <3>1, <3>2, HeldIsRead
    <3> QED BY <3>3
  <2> QED BY <2>3, <2>4, <2>5
<1> QED BY <1>1, DiskImageInvariant, PTL

\* What was saved is taken for the same disk by the next mount, but for the cases
\* the property names (saveDisk, Identify).
THEOREM TakenForTheSameAgain == Spec => []TakenForTheSame
<1>1. IInv => TakenForTheSame
  <2> SUFFICES ASSUME IInv, slot # NotMounted, image.header = NoHeader
               PROVE  TakenAgain(disk, image, slot)
    BY DEF TakenForTheSame, TakenAgain
  <2> PICK d : d = disk OBVIOUS
  <2> PICK img : img = image OBVIOUS
  <2> PICK x : x = slot OBVIOUS
  <2>1. Imaged(d) /\ OnFile(d, img, files) /\ MountedWell(d, img, x) /\ img.header = NoHeader
    BY DisksAreImaged DEF IInv
  <2>2. CASE x = Identified(img)
    BY <2>2 DEF TakenAgain, SamePlaces
  <2>3. CASE Fits(d, x) /\ (OfProDOS(d) => AsNamed(d))
    <3>1. x.at = img.at
      BY <2>1 DEF MountedWell, Mounted
    <3> QED BY <2>1, <2>3, <3>1, TakenForIt
  <2> QED BY <2>1, <2>2, <2>3 DEF MountedWell
<1> QED BY <1>1, DiskImageInvariant, PTL

\* Of every disk that is mounted, no two sectors of the first tracks and the last
\* are at one place, and blocks are made of sectors each once (SetSectorPointer,
\* PRODOSGetBlockSectors).
THEOREM SectorsAreApart == Spec => []SectorsApart
<1>1. IInv => SectorsApart
  <2> SUFFICES ASSUME IInv, slot # NotMounted
               PROVE  PlacesApart(slot, {0, 1, slot.shape.tpd - 1})
    BY DEF SectorsApart
  <2> PICK x : x = slot OBVIOUS
  <2>1. Sound(x)
    BY DEF IInv, MountedWell, Mounted
  <2>2. CASE KnownShape(x)
    <3>1. x.shape.tpd \in {35, 80}
      BY <2>2, Shapes
    <3>2. {0, 1, x.shape.tpd - 1} \in SUBSET (0 .. x.shape.tpd - 1)
      BY <3>1
    <3> QED BY <2>2, <3>2, ApartWhereKnown
  <2>3. CASE ~KnownShape(x)
    BY <2>1, <2>3 DEF Sound, PlacesApart
  <2> QED BY <2>2, <2>3
<1> QED BY <1>1, DiskImageInvariant, PTL

\* Nor are any two sectors of all its tracks.
THEOREM AllSectorsApart == Spec => [](slot # NotMounted => PlacesApart(slot, 0 .. slot.shape.tpd - 1))
<1>1. IInv => (slot # NotMounted => PlacesApart(slot, 0 .. slot.shape.tpd - 1))
  <2> SUFFICES ASSUME IInv, slot # NotMounted
               PROVE  PlacesApart(slot, 0 .. slot.shape.tpd - 1)
    OBVIOUS
  <2> PICK x : x = slot OBVIOUS
  <2>1. Sound(x)
    BY DEF IInv, MountedWell, Mounted
  <2>2. CASE KnownShape(x)
    BY <2>2, ApartWhereKnown
  <2>3. CASE ~KnownShape(x)
    BY <2>1, <2>3 DEF Sound, PlacesApart
  <2> QED BY <2>2, <2>3
<1> QED BY <1>1, DiskImageInvariant, PTL
==============================================================================
