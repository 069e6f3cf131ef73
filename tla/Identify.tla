------------------------------- MODULE Identify -------------------------------
(***************************************************************************)
(* What the program takes an image file for when it is mounted             *)
(* (disk/diskimage.go, Identify, with Is2MG, IsProDOS, IsRDOS, IsAppleDOS  *)
(* and IsPascal).  The name and the header of an image are believed where  *)
(* they say something; else the sectors where each system keeps its        *)
(* directory are looked at in one order after the other.                   *)
(*                                                                         *)
(* Of the data of an image only the sectors that matter are written down:  *)
(* at is a function from their places to what they hold, and every other   *)
(* place holds nothing that is looked for.  Of the first sector, which no  *)
(* command writes, it is enough which system it boots, if it is known.     *)
(***************************************************************************)
EXTENDS SectorMapping, FiniteSets

CONSTANTS
  Names,    \* names of files
  NoFile,   \* an entry of a catalog with no file
  NoHeader  \* an image that is not a 2MG image

VTOCTrack == 17

Blank == [tag |-> "blank"]
At(dsk, place) == IF place \in DOMAIN dsk.at THEN dsk.at[place] ELSE Blank

\* Read after a successful Seek.
Sector(dsk, t, s) == At(dsk, SectorPointer(dsk, t, s))

\* The first sector of a block holds what the directory begins with.
Header(dsk, b) ==
  LET bs == GetBlockSectors(dsk, b) IN
  IF CanSeek(dsk, bs.track, bs.pair[1]) THEN Sector(dsk, bs.track, bs.pair[1]) ELSE Blank

\* The data of a file looked at as a disk of some format.
As(img, format, layout) ==
  [format |-> format, shape |-> DiskFormat[format], layout |-> layout,
   sectors |-> img.sectors, ext |-> img.ext, boot |-> img.boot, at |-> img.at]

------------------------------------------------------------------------------
\* AppleDOSGetCatalog follows the links from the sector the VTOC names, for 15
\* sectors at most; each holds one file here, where the program has seven.
IsCatalogSector(dsk, s) == s # 0 /\ Sector(dsk, VTOCTrack, s).tag = "catalog"

CatalogChain(dsk) ==
  LET sector[k \in 1 .. 15] ==
        IF k = 1 THEN Sector(dsk, VTOCTrack, 0).spt - 1
        ELSE LET s == sector[k - 1] IN
             IF IsCatalogSector(dsk, s) THEN Sector(dsk, VTOCTrack, s).next ELSE 0
  IN  sector

CatalogSectors(dsk) == {s \in {CatalogChain(dsk)[k] : k \in 1 .. 15} : IsCatalogSector(dsk, s)}

CatalogFiles(dsk) ==
  {Sector(dsk, VTOCTrack, s).file : s \in CatalogSectors(dsk)} \ {NoFile}

HasVTOC(dsk, spt) == LET v == Sector(dsk, VTOCTrack, 0) IN v.tag = "vtoc" /\ v.spt = spt

Least(S) == CHOOSE k \in S : \A j \in S : k <= j

\* The first of the layouts that passes.
FirstOf(layouts, passing) ==
  LET good == {k \in DOMAIN layouts : layouts[k] \in passing} IN
  IF good = {} THEN "none" ELSE layouts[Least(good)]

FourLayouts == <<"DOS33", "DOS33Alt", "ProDOS", "Linear">>

AppleDOSLayouts == <<"DOS33", "DOS33Alt", "ProDOS", "Linear">>

\* IsAppleDOS: a volume without files is none.
AppleDOSLayout(img) ==
  LET format == IF img.sectors = Sectors113K THEN "DOS_13" ELSE "NONE"
      spt == IF img.sectors = Sectors113K THEN 13 ELSE 16 IN
  IF img.sectors \notin {Sectors140K, Sectors113K} THEN "none"
  ELSE FirstOf(AppleDOSLayouts,
               {l \in Layouts : /\ HasVTOC(As(img, format, l), spt)
                                /\ CatalogFiles(As(img, format, l)) # {}})

HasVDH(dsk, blocks) == Header(dsk, 2).tag = "vdh" /\ Header(dsk, 2).blocks = blocks

\* IsProDOS: the volume header is in block 2 of a disk of 16 sectors a track,
\* or of 40 when the image is that long, which is the same place.
ProDOSLayout(img) ==
  LET tried == IF img.sectors = Sectors800K THEN SubSeq(FourLayouts, 1, 3) ELSE FourLayouts IN
  FirstOf(tried, {l \in Layouts : HasVDH(As(img, "NONE", l), img.sectors \div 2)})

\* IsRDOS: six bytes at the start of the second track.
RDOSFormat(img) ==
  LET spt == img.sectors \div 35
      id == At(img, spt) IN
  IF img.sectors \notin {Sectors140K, Sectors113K} THEN "none"
  ELSE IF id.tag = "rdos32" THEN (IF spt = 13 THEN "RDOS_32" ELSE "RDOS_3")
  ELSE IF id.tag = "rdos33" /\ spt = 16 THEN "RDOS_33"
  ELSE "none"

\* IsPascal: read as ProDOS, in the order that is set.
IsPascal(img, layout) == Header(As(img, "PRODOS", layout), 2).tag = "pascal"

\* Is2MG of an image of one of the three sizes.
From2MG(img) ==
  LET h == img.header IN
  IF h.order = "dos" THEN As(img, "DOS_16", "DOS33")
  ELSE IF h.blocks = 1600 THEN As(img, "PRODOS_800", "Linear")
  ELSE IF h.blocks = 800 THEN As(img, "PRODOS_400", "Linear")
  ELSE [format |-> "CUSTOM", shape |-> GetPDDiskFormat(h.blocks), layout |-> "Linear",
        sectors |-> img.sectors, ext |-> img.ext, boot |-> img.boot, at |-> img.at]

\* The layout that the name asks for.
Hint(img) == CASE img.ext = "po" -> "ProDOS" [] img.ext = "do" -> "DOS33" [] OTHER -> "none"
WithHint(layout, img) == IF Hint(img) # "none" THEN Hint(img) ELSE layout

\* The table `identity`: the format of a disk with a boot sector that is known,
\* else what IsProDOS left.
\* Mutant: the boot sector is not looked at.
FormatByBootUnknown(img) == IF ProDOSLayout(img) # "none" THEN "PRODOS" ELSE "NONE"
FormatByBoot(img) ==
  IF img.boot # "NONE" THEN img.boot
  ELSE IF ProDOSLayout(img) # "none" THEN "PRODOS"
  ELSE "NONE"

\* An image that has no VTOC either, by what IsPascal and another look at its
\* ProDOS directory find, or by its name.  IsPascal leaves the format of ProDOS.
NoVTOC(img, found) ==
  LET Is800K == img.sectors = Sectors800K IN
  IF IsPascal(img, found) THEN As(img, "PASCAL", "DOS33")
  ELSE IF Is800K /\ HasVDH(As(img, "PRODOS_800", found), 1600) THEN As(img, "PRODOS_800", "DOS33")
  ELSE IF ~Is800K /\ HasVDH(As(img, "PRODOS", found), 280) THEN As(img, "PRODOS", "DOS33")
  ELSE IF ~Is800K /\ HasVDH(As(img, "PRODOS", "DOS33Alt"), 280) THEN As(img, "PRODOS", "DOS33Alt")
  ELSE IF Hint(img) = "ProDOS" THEN As(img, "PRODOS", "ProDOS")
  ELSE IF Hint(img) = "DOS33" THEN As(img, "DOS_16", "DOS33")
  ELSE As(img, "NONE", "DOS33")

\* An image that no directory was found in, by its size, or by the VTOC that is
\* where the boot sector says.  A hard disk image comes here too, and keeps the
\* layout it was found in.
NoDirectory(img) ==
  LET found == IF ProDOSLayout(img) = "none" THEN "DOS33" ELSE ProDOSLayout(img)
      dsk == As(img, FormatByBoot(img), found) IN
  IF img.sectors = SectorsNIB THEN As(img, "DOS_16", found)
  ELSE IF img.sectors \notin {Sectors140K, Sectors113K, Sectors800K} THEN As(img, "NONE", found)
  ELSE IF HasVTOC(dsk, 16) THEN As(img, "DOS_16", "DOS33")
  ELSE IF HasVTOC(dsk, 13) THEN As(img, "DOS_13", "DOS32")
  ELSE NoVTOC(img, found)

\* Identify.
Identified(img) ==
  LET pd == ProDOSLayout(img)
      rdos == RDOSFormat(img)
      dos == AppleDOSLayout(img) IN
  IF img.header # NoHeader THEN From2MG(img)
  ELSE IF pd # "none" /\ img.sectors = Sectors140K THEN As(img, "PRODOS", WithHint(pd, img))
  ELSE IF pd # "none" /\ img.sectors = Sectors800K THEN As(img, "PRODOS_800", pd)
  ELSE IF rdos # "none" THEN As(img, rdos, IF rdos = "RDOS_33" THEN "ProDOS" ELSE "DOS33Alt")
  ELSE IF dos # "none"
    THEN As(img, IF img.sectors = Sectors113K THEN "DOS_13" ELSE "DOS_16", WithHint(dos, img))
  ELSE NoDirectory(img)
==============================================================================
