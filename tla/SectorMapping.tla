----------------------------- MODULE SectorMapping -----------------------------
(***************************************************************************)
(* Geometry of disk images: how many tracks and sectors a format has       *)
(* (disk/diskimage.go, DiskFormat), where in the image a sector is under   *)
(* the order the sectors were stored in (SetSectorPointer and the mappers),*)
(* and which two sectors are a block (PRODOSGetBlockSectors).  Places are  *)
(* counted in sectors of 256 bytes from the start of the data.             *)
(***************************************************************************)
EXTENDS Integers, Sequences

\* Sectors of the images of the sizes the program knows.
Sectors140K == 560
Sectors113K == 455
Sectors400K == 1600
Sectors800K == 3200
SectorsNIB  == 910

Shape(bpd, spt, uspt, tpd) == [bpd |-> bpd, spt |-> spt, uspt |-> uspt, tpd |-> tpd]

\* Blocks of a disk, sectors of a track as stored and as used, tracks.
DiskFormat ==
  [NONE       |-> Shape(16, 16, 16, 35),
   DOS_13     |-> Shape(222, 13, 13, 35),
   DOS_16     |-> Shape(280, 16, 16, 35),
   PRODOS     |-> Shape(280, 16, 16, 35),
   PASCAL     |-> Shape(280, 16, 16, 35),
   RDOS_3     |-> Shape(222, 16, 13, 35),
   RDOS_32    |-> Shape(222, 13, 13, 35),
   RDOS_33    |-> Shape(280, 16, 16, 35),
   PRODOS_400 |-> Shape(800, 20, 20, 80),
   PRODOS_800 |-> Shape(1600, 40, 40, 80)]

\* Hard disk images: the header says how many blocks there are.
GetPDDiskFormat(blocks) == Shape(blocks, blocks \div 80, blocks \div 80, 80)

\* The orders in which sectors are stored; DOS 3.3 order, DOS 3.2 order and
\* linear order are the identity.
Layouts == {"DOS33", "DOS32", "DOS33Alt", "ProDOS", "Linear", "DiversiDOS"}
Interleaved == {"DOS33Alt", "ProDOS", "DiversiDOS"}

\* Mutant: two sectors change places with one.
SectorMapperWrong ==
  [DOS33Alt   |-> <<0, 7, 14, 6, 13, 5, 12, 4, 11, 3, 10, 2, 9, 1, 11, 15>>,
   ProDOS     |-> <<0, 2, 4, 6, 8, 10, 12, 14, 1, 3, 5, 7, 9, 11, 13, 15>>,
   DiversiDOS |-> <<0, 14, 13, 12, 11, 10, 9, 8, 7, 6, 5, 4, 3, 2, 1, 15>>]
SectorMapper ==
  [DOS33Alt   |-> <<0, 7, 14, 6, 13, 5, 12, 4, 11, 3, 10, 2, 9, 1, 8, 15>>,
   ProDOS     |-> <<0, 2, 4, 6, 8, 10, 12, 14, 1, 3, 5, 7, 9, 11, 13, 15>>,
   DiversiDOS |-> <<0, 14, 13, 12, 11, 10, 9, 8, 7, 6, 5, 4, 3, 2, 1, 15>>]

\* A sector that no mapper knows is -1.
Mapped(layout, s) ==
  IF layout \notin Interleaved THEN s
  ELSE IF s > 15 THEN -1 ELSE SectorMapper[layout][s + 1]

\* A disk is anything with a shape, a layout and a number of sectors.
SectorPointer(dsk, t, s) == t * dsk.shape.spt + Mapped(dsk.layout, s)

\* Seek refuses what the format does not have.
CanSeek(dsk, t, s) == t \in 0 .. dsk.shape.tpd - 1 /\ s \in 0 .. dsk.shape.uspt - 1

BlocksPerTrack(dsk) == dsk.shape.uspt \div 2

\* The halves of the eight blocks of a 16-sector track.
Halves == <<<<0, 14>>, <<13, 12>>, <<11, 10>>, <<9, 8>>, <<7, 6>>, <<5, 4>>, <<3, 2>>, <<1, 15>>>>

GetBlockSectors(dsk, b) ==
  LET bo == b % BlocksPerTrack(dsk) IN
  [track |-> b \div BlocksPerTrack(dsk),
   pair  |-> IF dsk.layout = "Linear" \/ dsk.sectors >= Sectors800K THEN <<2 * bo, 2 * bo + 1>>
             ELSE IF bo < 8 THEN Halves[bo + 1] ELSE Halves[1]]

BlockPlaces(dsk, b) ==
  LET bs == GetBlockSectors(dsk, b) IN
  <<SectorPointer(dsk, bs.track, bs.pair[1]), SectorPointer(dsk, bs.track, bs.pair[2])>>
==============================================================================
