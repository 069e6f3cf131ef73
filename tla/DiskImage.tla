------------------------------- MODULE DiskImage -------------------------------
(***************************************************************************)
(* An image file from mount to mount: it is identified and read into a     *)
(* slot, files are put on it and deleted, every such command saves it      *)
(* (shell.go, shellMount, shellPut, shellDelete, saveDisk), and it is      *)
(* mounted again.  What the next mount takes the image for depends on what *)
(* the last session left in it, and on the name and header it has then.    *)
(*                                                                         *)
(* How a volume allocates sectors is the subject of AppleDOS and ProDOS:   *)
(* here every file has a sector, or a block, of its own.                   *)
(***************************************************************************)
EXTENDS Identify, Functions

CONSTANTS
  Disks,      \* the disks that were imaged, see Disk
  HomeOf,     \* sector of track 18, and number beyond block 6, of a file
  NotMounted  \* a slot with no disk

\* A disk has a system, the layout its image was made in, a size and a boot
\* sector that the program knows or not; the image has an extension and perhaps
\* a header.
Disk ==
  [system : {"DOS", "ProDOS", "Pascal", "RDOS"}, format : DOMAIN DiskFormat, layout : Layouts,
   sectors : Nat, ext : {"dsk", "po", "do"}, boot : {"NONE", "DOS_13", "DOS_16", "PRODOS"},
   header : {NoHeader} \cup [order : {"dos", "prodos"}, blocks : Nat]]

FormatsOf ==
  [DOS    |-> {"DOS_13", "DOS_16"},
   ProDOS |-> {"PRODOS", "PRODOS_400", "PRODOS_800"},
   Pascal |-> {"PASCAL"},
   RDOS   |-> {"RDOS_3", "RDOS_32", "RDOS_33"}]

\* An image holds all sectors of its format, or is one of nibbles.  The orders
\* that are not the identity are for tracks of 16 sectors, and that of
\* DiversiDOS for DOS.  A header says what order and how many blocks there are.
\* The boot sector of DOS 3.2 is on disks of DOS 3.2.
IsImage(d) ==
  LET shape == DiskFormat[d.format] IN
  /\ d.format \in FormatsOf[d.system]
  /\ d.sectors \in {shape.spt * shape.tpd, SectorsNIB}
  /\ d.system = "ProDOS" => d.layout \in {FourLayouts[k] : k \in DOMAIN FourLayouts}
  /\ d.format \in {"PRODOS_400", "PRODOS_800"} => d.layout = "Linear"
  /\ d.format = "DOS_13" => d.layout \notin Interleaved
  /\ d.boot = "DOS_13" => d.format = "DOS_13"
  /\ d.header # NoHeader =>
       /\ d.sectors \in {Sectors140K, Sectors400K, Sectors800K}
       /\ d.header.blocks = d.sectors \div 2
       /\ d.layout = IF d.header.order = "dos" THEN "DOS33" ELSE "Linear"

ASSUME DiskAssumption == \A d \in Disks : d \in Disk /\ IsImage(d)
ASSUME HomeAssumption ==
  /\ HomeOf \in [Names -> 1 .. 12]
  /\ \A m, n \in Names : m # n => HomeOf[m] # HomeOf[n]
ASSUME ModelValues ==
  /\ NoFile \notin Names
  /\ NoHeader \notin [order : {"dos", "prodos"}, blocks : Nat]

VARIABLES
  disk,   \* the disk that the image is of
  files,  \* the files that are on it
  image,  \* the image file
  slot    \* the disk as it is mounted

vars == <<disk, files, image, slot>>

------------------------------------------------------------------------------
\* Where a disk as it is mounted, or as it was imaged, has its parts.
TrueDisk(d, at) ==
  [format |-> d.format, shape |-> DiskFormat[d.format], layout |-> d.layout,
   sectors |-> d.sectors, ext |-> d.ext, boot |-> d.boot, at |-> at]

Merge(at, new) == [p \in DOMAIN at \cup DOMAIN new |-> IF p \in DOMAIN new THEN new[p] ELSE at[p]]

\* Seek and Write of one sector; of a block, PRODOSWrite.
Written(dsk, t, s, value) ==
  [dsk EXCEPT !.at = Merge(@, [p \in {SectorPointer(dsk, t, s)} |-> value])]

HomeBlock(n) == 6 + HomeOf[n]

WrittenBlock(dsk, b, values) ==
  LET bs == GetBlockSectors(dsk, b) IN
  Written(Written(dsk, bs.track, bs.pair[1], values[1]), bs.track, bs.pair[2], values[2])

VDH(blocks, in) == [tag |-> "vdh", blocks |-> blocks, files |-> in]

\* A freshly initialised disk.
Initialised(d) ==
  LET dsk == TrueDisk(d, [p \in {} |-> Blank])
      spt == DiskFormat[d.format].spt
      place(t, s) == SectorPointer(dsk, t, s)
      Track == {place(VTOCTrack, s) : s \in 0 .. spt - 1} IN
  IF d.sectors = SectorsNIB THEN dsk.at
  ELSE
    CASE d.system = "DOS" ->
           [p \in Track |->
              LET s == CHOOSE s \in 0 .. spt - 1 : place(VTOCTrack, s) = p IN
              IF s = 0 THEN [tag |-> "vtoc", spt |-> spt]
              ELSE [tag |-> "catalog", next |-> s - 1, file |-> NoFile]]
      [] d.system = "ProDOS" ->
           [p \in {BlockPlaces(dsk, 2)[1]} |-> VDH(DiskFormat[d.format].bpd, {})]
      [] d.system = "Pascal" -> [p \in {BlockPlaces(dsk, 2)[1]} |-> [tag |-> "pascal"]]
      [] d.system = "RDOS" ->
           [p \in {d.sectors \div 35} |->
              [tag |-> IF d.format = "RDOS_33" THEN "rdos33" ELSE "rdos32"]]

------------------------------------------------------------------------------
\* The systems the shell takes a disk for.
IsDOS(dsk) == dsk.format \in {"DOS_13", "DOS_16"}
IsProDOS(dsk) == dsk.format \in {"PRODOS", "PRODOS_400", "PRODOS_800", "CUSTOM"}

\* The directory is where the format says: a command on a disk that is taken
\* for what it is not works on what happens to be there, which is not modelled.
HasDirectory(dsk) ==
  \/ IsDOS(dsk) /\ HasVTOC(dsk, dsk.shape.spt)
  \/ IsProDOS(dsk) /\ Header(dsk, 2).tag = "vdh"

Listed(dsk) ==
  IF ~HasDirectory(dsk) THEN {}
  ELSE IF IsDOS(dsk) THEN CatalogFiles(dsk) ELSE Header(dsk, 2).files

Contents(n) == <<[tag |-> "file", name |-> n, half |-> 1], [tag |-> "file", name |-> n, half |-> 2]>>

\* A file that is listed reads back as it was put.
Intact(dsk, n) ==
  IF IsDOS(dsk) THEN Sector(dsk, VTOCTrack + 1, HomeOf[n]) = Contents(n)[1]
  ELSE \A h \in {1, 2} : At(dsk, BlockPlaces(dsk, HomeBlock(n))[h]) = Contents(n)[h]

WithCatalogEntry(dsk, s, file) ==
  Written(dsk, VTOCTrack, s, [Sector(dsk, VTOCTrack, s) EXCEPT !.file = file])

\* The catalog is searched along its links.
EntriesWith(dsk, file) == {s \in CatalogSectors(dsk) : Sector(dsk, VTOCTrack, s).file = file}
EntryWith(dsk, file) ==
  LET sector == CatalogChain(dsk) IN
  sector[Least({k \in 1 .. 15 : sector[k] \in EntriesWith(dsk, file)})]

\* A new file, where the catalog has an entry left for it.
CanTake(dsk, n) ==
  /\ HasDirectory(dsk)
  /\ n \notin Listed(dsk)
  /\ IsDOS(dsk) => EntriesWith(dsk, NoFile) # {}

WithFile(dsk, n) ==
  IF IsDOS(dsk)
  THEN Written(WithCatalogEntry(dsk, EntryWith(dsk, NoFile), n), VTOCTrack + 1, HomeOf[n],
               Contents(n)[1])
  ELSE WrittenBlock(
         WrittenBlock(dsk, 2, <<VDH(Header(dsk, 2).blocks, Header(dsk, 2).files \cup {n}),
                                At(dsk, BlockPlaces(dsk, 2)[2])>>),
         HomeBlock(n), Contents(n))

WithoutFile(dsk, n) ==
  IF IsDOS(dsk)
  THEN WithCatalogEntry(dsk, EntryWith(dsk, n), NoFile)
  ELSE WrittenBlock(dsk, 2, <<VDH(Header(dsk, 2).blocks, Header(dsk, 2).files \ {n}),
                              At(dsk, BlockPlaces(dsk, 2)[2])>>)

\* Mutant: the name of the image gets lost.
SavedAsDO(dsk) ==
  [ext |-> "do", header |-> NoHeader, sectors |-> dsk.sectors, boot |-> dsk.boot, at |-> dsk.at]

\* saveDisk writes the data of the disk: a header is not part of them.
Saved(dsk) ==
  [ext |-> dsk.ext, header |-> NoHeader, sectors |-> dsk.sectors, boot |-> dsk.boot, at |-> dsk.at]

------------------------------------------------------------------------------
Init ==
  /\ disk \in Disks
  /\ files = {}
  /\ image = [ext |-> disk.ext, header |-> disk.header, sectors |-> disk.sectors,
              boot |-> disk.boot, at |-> Initialised(disk)]
  /\ slot = NotMounted

\* A file is written by the system that the disk is of.
WriteElsewhere(n) ==
  LET dsk == TrueDisk(disk, image.at) IN
  /\ slot = NotMounted
  /\ n \notin files
  /\ CanTake(dsk, n)
  /\ image' = [image EXCEPT !.at = WithFile(dsk, n).at]
  /\ files' = files \cup {n}
  /\ UNCHANGED <<disk, slot>>

Mount ==
  /\ slot = NotMounted
  /\ slot' = Identified(image)
  /\ UNCHANGED <<disk, files, image>>

Unmount ==
  /\ slot # NotMounted
  /\ slot' = NotMounted
  /\ UNCHANGED <<disk, files, image>>

PutFile(n) ==
  /\ slot # NotMounted
  /\ CanTake(slot, n)
  /\ slot' = WithFile(slot, n)
  /\ image' = Saved(slot')
  /\ files' = files \cup {n}
  /\ UNCHANGED disk

\* Mutant: the command forgets to save.
DeleteUnsaved(n) ==
  /\ slot # NotMounted
  /\ HasDirectory(slot)
  /\ n \in Listed(slot)
  /\ slot' = WithoutFile(slot, n)
  /\ files' = files \ {n}
  /\ UNCHANGED <<disk, image>>

DeleteFile(n) ==
  /\ slot # NotMounted
  /\ HasDirectory(slot)
  /\ n \in Listed(slot)
  /\ slot' = WithoutFile(slot, n)
  /\ image' = Saved(slot')
  /\ files' = files \ {n}
  /\ UNCHANGED disk

Next ==
  \/ Mount
  \/ Unmount
  \/ \E n \in Names : WriteElsewhere(n) \/ PutFile(n) \/ DeleteFile(n)

Spec == Init /\ [][Next]_vars

------------------------------------------------------------------------------
TypeOK ==
  /\ disk \in Disks
  /\ files \subseteq Names
  /\ image.ext \in {"dsk", "po", "do"} /\ image.sectors = disk.sectors
  /\ image.boot = disk.boot
  /\ DOMAIN image.at \subseteq 0 .. image.sectors - 1
  /\ slot # NotMounted =>
       /\ slot.format \in DOMAIN DiskFormat \cup {"CUSTOM"}
       /\ slot.layout \in Layouts
       /\ slot.at = image.at

\* The disks that the program reads as they are: a ProDOS volume whose layout
\* is not overruled by its name, with a header only if it is of 800K (or of
\* 400K, until it is saved); a DOS volume in DOS order that is not called .po.
Readable(d) ==
  \/ /\ d.system = "ProDOS"
     /\ \/ d.sectors = Sectors800K
        \/ d.sectors = Sectors140K /\ d.header = NoHeader /\ WithHint(d.layout, d) = d.layout
        \/ d.sectors = Sectors400K /\ image.header # NoHeader
  \/ d.system = "DOS" /\ d.layout = "DOS33" /\ d.ext # "po" /\ d.sectors # SectorsNIB

\* What a mount finds on the image are the files that were put and not deleted,
\* each whole, whatever was done in earlier sessions: the layout a volume is
\* recognised in is the one its sectors were written in.
FilesSurvive ==
  Readable(disk) =>
    LET dsk == IF slot = NotMounted THEN Identified(image) ELSE slot IN
    Listed(dsk) = files /\ \A n \in files : Intact(dsk, n)

\* Two disks have the sectors and the blocks of the first two tracks at the
\* same places.
SamePlaces(x, y) ==
  /\ x.shape = y.shape
  /\ \A t \in 0 .. 1, s \in 0 .. x.shape.uspt - 1 :
       SectorPointer(x, t, s) = SectorPointer(y, t, s)
  /\ \A b \in 0 .. BlocksPerTrack(x) : IsProDOS(x) => BlockPlaces(x, b) = BlockPlaces(y, b)

\* What is saved is taken for the same disk by the next mount.  It is not where
\* a header, which is not saved, told what a 400K or a smaller ProDOS image is;
\* where a DOS 3.2 volume has lost its last file, for its VTOC is looked for at
\* the place it has with 16 sectors, unless its boot sector is the known one; and
\* where a DOS volume is in another order than DOS order, or called .po, for then
\* the order it is read in depends on the files in it.
TakenForTheSame ==
  (slot # NotMounted /\ image.header = NoHeader) =>
    \/ Identified(image).format = slot.format /\ SamePlaces(Identified(image), slot)
    \/ slot.format \in {"PRODOS_400", "CUSTOM"}
    \/ IsDOS(slot) /\ slot.sectors = Sectors113K /\ Listed(slot) = {} /\ disk.boot # "DOS_13"
    \/ disk.system = "DOS" /\ (disk.layout # "DOS33" \/ disk.ext = "po")

\* Where the sectors of some tracks are, and where the halves of their blocks.
SectorPlaces(dsk, tracks) ==
  [ts \in tracks \X (0 .. dsk.shape.uspt - 1) |-> SectorPointer(dsk, ts[1], ts[2])]
BlocksOn(dsk, tracks) ==
  {t * BlocksPerTrack(dsk) + k : t \in tracks, k \in 0 .. BlocksPerTrack(dsk) - 1}
HalfPlaces(dsk, tracks) ==
  [bh \in BlocksOn(dsk, tracks) \X {1, 2} |-> BlockPlaces(dsk, bh[1])[bh[2]]]

\* No two sectors are at one place, and all are in the image; the blocks of a
\* ProDOS disk are made of all its sectors, each once.  Not so where an order of
\* 16 sectors is used with 13 a track, which is RDOS 3.2 and DOS 3.2 called .po;
\* and not all are in an image that is too short for what its name says it is.
PlacesApart(dsk, tracks) ==
  (dsk.format \notin {"NONE", "CUSTOM"} /\ ~(dsk.shape.spt = 13 /\ dsk.layout \in Interleaved)) =>
    LET places == SectorPlaces(dsk, tracks)
        halves == HalfPlaces(dsk, tracks) IN
    /\ IsInjective(places)
    /\ \/ Range(places) \subseteq 0 .. dsk.sectors - 1
       \/ dsk.sectors = Sectors113K /\ dsk.format # "DOS_13"
    /\ IsProDOS(dsk) => IsInjective(halves) /\ Range(halves) = Range(places)

\* So it is on the first two tracks, and the last, of every disk that is mounted.
SectorsApart == slot # NotMounted => PlacesApart(slot, {0, 1, slot.shape.tpd - 1})
==============================================================================
