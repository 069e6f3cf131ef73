# diskm8 in TLA+

Specifications of diskm8, a command-line tool that edits, catalogs and compares
Apple II disk images. The modules are translated from the Go source; TLC checks
them on small instances, and TLAPS proves the theorems listed below for every
value of the constants. Paths are relative to `src/`.

    tlc -workers 2 -config volume_small.cfg MCAppleDOS
    tlapm AppleDOS_proofs.tla

## 1. The system and its parts

One process, started with flags for one command (`main.go`), as an interactive
shell, or with a script of shell commands (`-shell-batch`).

| Part | Code | State | Operations |
| --- | --- | --- | --- |
| Command line | `main.go` | the flags | choose one command and run it; batch mode stops at the first command that returns -1 |
| Shell session | `shell.go` | `commandVolumes` (slots), `commandTarget`, `commandPath`, the working directory; the image files and their backups on the host | mount, unmount, target, cd, put, delete, rename, mkdir, lock, copy, move, extract, ..., `saveDisk` |
| Disk geometry | `disk/diskimage.go` | current track and sector, the 143,360 bytes of an image, the interleave table | `SetTrack`, `SetSector`, `Seek`, `Read`, `Write`, `Nibblize` |
| Disk identification | `disk/diskimage.go`, `Is...` in the format files | none | `Identify`, `Is2MG`, `IsProDOS`, `IsRDOS`, `IsPascal`, `IsAppleDOS` |
| DOS 3.3 volume | `disk/diskimageappledos.go` | the bitmap of the VTOC, the catalog, T/S lists, data sectors, all in the image | write, remove, delete, lock, rename, read, catalog |
| ProDOS volume | `disk/diskimagepd.go` | bitmap blocks, directory blocks, index blocks | write, delete, mkdir, lock, rename, read, catalog |
| Pascal and RDOS readers | `disk/diskimagepas.go`, `disk/diskimagerdos.go` | none | catalog, read, used sectors |
| BASIC tokenizer | `disk/atokens.go`, `disk/int.go` | none | tokenize, detokenize |
| Ingestor | `ingestor.go` | `indisk`, `outdisk`, `processed`, `errorcount`, the channel `incoming`, the wait group | `walk`, `processFile`, `analyze` |
| Loggers | `loggy/logger.go` | a map of loggers by id, shared by all goroutines | `Get` |
| Analyzers | `drv*.go` | a `Disk` record per image | fill the record, write the fingerprint file |
| Fingerprint store | `data.go` | `.fgp` files under the user's home, a cache in memory | `WriteToFile`, `ReadFromFile`, `Get`, comparisons of two disks |
| Parallel comparisons | `fuzzyfiles.go`, `fuzzyblocks.go` | tables filled by worker goroutines | collect, compare |
| Reports, search | `report.go`, `search.go` | collections of matches | print |
| Quarantine | `shell.go` | image and fingerprint files | move duplicates away |

How they meet. The shell owns the images in memory; a command edits one through
the volume code, and `saveDisk` writes it back, after a backup. Several commands
(`extract`, `copy`, `move`, the pattern matching of `globDisk`) do not look at
the memory but load the image file again through `analyze`, so the shell is
right only while file and memory agree. `analyze` is also what the ingestor's
eight workers run; they share the four counters under locks, the channel, and
the map of loggers without a lock. Comparisons, search and quarantine see only
fingerprint files, which may be older than the images, or cut short. What an image
is taken for when it is mounted decides which volume code edits it, and where that
looks for the sectors.

What is hard, and what makes each part right:

* **DOS 3.3 volume.** Three loops of one write edit the bitmap, the T/S lists and
  the catalog, and two copies of the removal code give sectors back. After any
  sequence of commands no sector is in two files, or in a file and free, or in
  neither; names are unique; counts agree; what was put reads back.
* **ProDOS volume.** The same for blocks, with directories that are full, index
  blocks, counts of files that differ from the files there are, and the removal of a
  whole directory, which can stop half-way.
* **Shell session.** A kill between any two steps of a save, two saves within one
  second, names that mean another file after a `cd`, commands that fail
  half-way, one file under two names.
* **Ingestor.** Blocking channel and wait group (no image lost or taken twice, no
  deadlock), counters of eight goroutines, panics recovered in a worker,
  unreadable directories, a second ingest in one session, kills, fingerprints that the
  host does not create or cuts short.
* **Fingerprints, quarantine.** Stale or torn fingerprints, a move of two files in
  several steps, an index one past the list. No image is ever lost.
* **Parallel comparisons.** Ten workers, one table, one channel and Ctrl-C: a report
  is what comparing all pairs in turn would give, and it ends.
* **Geometry, identification.** Tables of sectors have to be permutations; an image
  that was edited is recognised for what it was, and its files are where they were.

The list of hazards, each at its line and with the properties that cover it, is
in `PROJECT.json`.

## 2. Modules

| Module | What it is |
| --- | --- |
| `FileStore` | what a volume promises: a map from names to files |
| `AppleDOS`, `AppleDOSFiles` | a DOS 3.3 volume; reading it back, and its refinement of `FileStore` |
| `ProDOS`, `ProDOSFiles` | a ProDOS volume; reading it back, and its refinement of `FileStore` |
| `SectorMapping` | formats, interleave tables, where sectors and blocks are |
| `Identify` | what an image is taken for |
| `DiskImage` | an image from mount to mount |
| `Shell` | a session: slots, target, host files, `saveDisk` step by step, kills and restarts |
| `Ingestor` | the walk, the channel, the workers, the loggers, the fingerprint files |
| `Quarantine` | the fingerprints over time, and the commands that move duplicates away |
| `Overlaps` | the reports that compare all disks with each other |
| `MC...` | instances for TLC |
| `NumberLemmas` | lemmas on counting, division and recursion over numbers |
| `AppleDOS_proofs`, `ProDOS_proofs`, `Shell_proofs`, `Ingestor_proofs`, `Quarantine_proofs`, `Overlaps_proofs`, `DiskImage_proofs` | lemmas and theorems of the module of that name |

`AppleDOSFiles` and `ProDOSFiles` each extend their volume and instantiate
`FileStore`, whose constants tell the two apart: an overwrite changes the kind of a
file on ProDOS and keeps it on DOS 3.3 (`KeepsKind`), and only ProDOS honours the lock
(`HonoursLock`). `Shell` stands on what `FileStore` promises of a volume: an image is
the set of the names of its files. `DiskImage` extends `Identify`, which extends
`SectorMapping`.

### AppleDOS

The image is edited in memory by one goroutine, so one exported method is one
step; an error return that changes nothing is a stuttering step.

| Specification | Code |
| --- | --- |
| `free` | bitmap bytes 0x38.. of the VTOC (`IsTSFree`, `SetTSFree`) |
| `cat` | the entries of the catalog sectors; `Unused` is an entry whose track byte is 0 or 0xff |
| `sec` | the other sectors: file data, or a T/S list with its link and pairs |
| `crashed` | `AppleDOSWriteFile` dereferenced the nil entry of a full catalog |
| `WriteNewFile`, `ReplaceFile`, `ReplaceNoRoom`, `WriteCatalogFull` | the ways through `AppleDOSWriteFile`, with the removal it calls |
| `DeleteFile`, `SetLocked`, `RenameFile` | `AppleDOSDeleteFile`, `AppleDOSSetLocked`, `AppleDOSRenameFile` |
| `Needed`, `ListAt`, `DataAt`, `ListContent`, `SectorsWith`, `FreeWithout` | `AppleDOSGetFreeSectors` and the loops of the write |
| `Chain`, `ListSectors`, `PairSet`, `DataSectors` | `AppleDOSGetTSListSectors`, `AppleDOSGetFileSectors` |

The payload of a file is one value with a length: the header that `WriteFile`
prepends is part of it. A sector of file data knows of which payload it is
which chunk, which is all that reading back depends on.

Assumed of the images: no sector of track 0 is free (an entry whose list starts
on track 0 looks unused; DOS keeps its boot code there), a mounted volume starts
with an empty catalog, and a list sector holds at least one pair.

### Shell

One command at a time. A command that edits a slot is one step that changes
the image in memory and, when it succeeds, begins the save; `saveDisk` and
`backupFile` are then four steps of the host file system: create the backup,
write it, create (truncate) the image, write it. `Restart` may come between any
two. `volume` is `commandVolumes`, `target` is `commandTarget`. `latest`, `aliased`
and the fields `origin` and `seen` of a slot are history that no guard reads: the last
whole image a file held; the file a slot was read from; what the slot last read from that
file or saved there; and whether, since the program was started, a mounted relative name
came to mean another file (`Cd`) or a mounted file was mounted under a second name
(`HasOtherName`). The code prevents neither, and `MemoryIsOnDisk` and `SlotsAreCurrent`
speak of sessions until the first of them; `Recoverable` speaks of all.

`PutNoRoom` and `D2DCopyFails` are the commands that fail after they have changed
the memory (`CanFill`). `copy` and `move` read the file of the source and write
into the memory of the target, as `shellD2DCopy` does.

Assumed: the program is not started twice within one second (names of backups
have that resolution) and the host's writes do not fail by themselves.

### Ingestor

| Specification | Code |
| --- | --- |
| `main` | where `walk`, or the ingest of one image, is; `killed` and `crashed` end the program |
| `unread`, `incoming` | what `filepath.Walk` has not come to, and the channel |
| `worker` | per goroutine: the step it is at and the image in its hands |
| `loggers` | the map of `loggy`, `Nil` before it is made |
| `processed`, `errorcount`, `indisk`, `outdisk` | the counters (`indisk`, `outdisk` summed over the formats) |
| `index` | the fingerprint file of each image: none, torn (created, not encoded), whole |
| `Walk`, `IngestOne`, `Visit`, `VisitError`, `Close`, `Report`, `OneDone` | `shellIngest`, `walk`, `processFile` |
| `GetNil`, `MakeMap`, `Find`, `NewLogger`, `Store` | the reads and writes of `loggy.Get`, each a step of its own |
| `Take`, `Exit`, `Load`, `Analyze`, `Create`, `CreateFails`, `Encode`, `EncodeFails`, `Out`, `Count`, `Fail`, ... | the goroutine of `walk`, `analyze`, `WriteToFile`, the handler of `panic.Do` |

What an analysis does is a function of the image: it cannot be read, it
panics (before its fingerprint is created), it returns early (the ProDOS
analyzer, on a volume it cannot catalog), or it ends. Only an image of the last
kind can have a fingerprint when the program is first started. Nothing is assumed of
the host: it can refuse to create any fingerprint (`CreateFails`), which six of the seven
analyzers do not notice while the one of 16-sector ProDOS panics (the images in `Strict`),
and it can cut any short (`EncodeFails`), which `WriteToFile` does not notice. The order
in which `filepath.Walk` visits the entries is left open. The periodic print, which
reads `processed` outside the lock, is left out. `finished`, `carried`, `cut` (the images
whose fingerprint was last cut short), `refused` (those for which one was refused in this
walk) and `ingests` are history; `MaxIngests` bounds the last in the model.

### ProDOS

As for DOS 3.3, one exported method is one step. The exception is the removal of a
directory, whose loop over the files calls itself for subdirectories and returns at the
first error: every file is a step, so that what the volume looks like after a removal
that failed is a state like any other.

| Specification | Code |
| --- | --- |
| `free` | the volume bitmap (`IsBlockFree`, `SetBlockFree`) |
| `blk` | what each block holds: the data of a file, an index, a directory with its entries and its count of files, or nothing |
| `job` | the calls of `PRODOSDeleteDirectory` that have not returned, each with the files it has still to remove |
| `after` | the write that goes on when the directory of that name is gone |
| `Shown` | `PRODOSGetCatalog`: entries up to the one at which as many were seen, removed ones too, as the header counts |
| `NamedEntry`, `FreeEntry`, `DirBlock` | `PRODOSGetNamedEntry`, `PRODOSGetFirstFreeEntry`, `PRODOSFindDirBlocks` |
| `WriteNewFile`, `ReplaceFile`, `ReplaceNoRoom`, `WriteToGrownBlock`, `GrowForNothing`, `WriteAfterRemoval` | the ways through `PRODOSWriteFile` |
| `CreateDirectory`, `CreateInGrownBlock` | `PRODOSCreateDirectory` |
| `DeleteFile`; `StartRemoval` to `RemovalFails` | `PRODOSDeleteFile`; `PRODOSDeleteDirectory` |
| `SetLocked`, `RenameFile` | `PRODOSSetLocked`, `PRODOSRenameFile` |

A directory made by the program is one block, and none ever grows: the block that
`PRODOSGetFirstFreeEntry` adds to a full one is linked to nothing. The root directory is
the chain it was formatted with. Assumed: block 0, which the catalog reads behind
the last block of a directory, holds no entry of a valid type.

### SectorMapping, Identify, DiskImage

`SectorMapping` has the formats, the mappers and `PRODOSGetBlockSectors` as operators.
`Identify` is the function of that name: which of `Is2MG`, `IsProDOS`, `IsRDOS`,
`IsAppleDOS`, the known boot sectors (`FormatByBoot`, the table `identity`), the VTOC,
`IsPascal` and the name of the image decides, and in which layout.
Only the sectors that these look at are written down (`at`), a catalog sector holds one
file instead of seven, and a volume header the names of its files.

`DiskImage` puts an image file around it: `Mount` (`NewDSKWrapper` and `Identify`),
`PutFile` and `DeleteFile` (which write through the layout the disk was taken to have, and
save), `Unmount`. What is not part of the program is the disk the user has: `Initialised` is
a fresh one, in the layout it was imaged in, and `WriteElsewhere` a file that its own
system puts on it between two sessions. `IsImage` says what such an image can be: it holds
all sectors of its format, a header that it has tells the truth about size and order, and
the boot sector of DOS 3.2 is on disks of DOS 3.2 only (that of any other system may be on
any disk: no command of the program writes a boot sector).
A put is of a new file on a catalog with room (`CanTake`); overwriting and a full catalog
are in `AppleDOS` and `ProDOS`. A command on a disk that was taken for what it is not does
nothing here unless it finds a directory there (`HasDirectory`).

### Quarantine

`fingerprint` is the set of `.fgp` files, each a pair of a path and what the image held
when it was analysed. `Ingest` and `Edit` add to it (a command that edits a disk analyses
it first); `Start` aggregates it into groups of equal checksums; then each group is skipped
or answered, and each disk of the group that is not kept is moved: read, created in the
quarantine, written, removed, and its fingerprint moved. `Stop` is a kill, or an error of
the file system, between any two of these. `history` is read by properties only.

### Overlaps

The functions of `fuzzyfiles.go` and `fuzzyblocks.go` share one shape: load with four
workers, compare with six, hand out through a channel of 100 places. `report` says which
of them runs. `CompareCatalogs`, `CompareSectors` and what the reports keep
(`AboveThreshold`, `IsSubsetOf`, the two keepers) are operators; `Feed`, `Take`, `Load`,
`CompareWithOthers`, `Exit` and the closing of the channel are the goroutines' steps.
`ctrlC` is the channel of signals: until it is made, Ctrl-C ends the program.

## 3. Runs

| Run | Bounds | Shows |
| --- | --- | --- |
| `volume_small` | 8 free sectors, 2 entries, 2 names, 2 kinds, payloads of 1 and 2 sectors, lists of 3 pairs, which the larger payload fills | all commands in all orders: `UsedMarked`, `NoCrossLink`, `NoLeak`, `UniqueNames`, `CountsMatch`, and the volume implements `FileStore` |
| `volume_large` | 9 free sectors, lists of 2 pairs, a payload of 3 sectors, a long name | no sector is in two files or free while in use, for files of two T/S lists and after a crash too |
| `prodos_files` | 4 free blocks, a root of 2 entries, subdirectories of 1, index blocks of 2, payloads of 1 and 2 blocks | `ReadsBack`, the root directory implements `FileStore`, `OnlyKnownLeaks` |
| `prodos_tree` | 4 free blocks, directories two deep, a root of 1 entry, subdirectories of 2, payloads of 1 block, of a full index, and of more than an index | `UsedMarked`, `NoCrossLink`, `UniqueNames`, `LockedStays` |
| `disk_images` | 68 kinds of disks: 4 systems, 6 orders, 5 sizes, 3 extensions, with and without a header and a known boot sector; 2 files | `FilesSurvive`, `TakenForTheSame`, `SectorsApart` |
| `shell_session` | 2 directories, 1 base name: 2 files and 3 names, 2 slots, 2 file names, no kill | `MemoryIsOnDisk` |
| `shell_crash` | the same files and names, 1 file name, clock of 2 seconds, full volumes, kills | `Recoverable`, `SlotsAreCurrent` |
| `ingest_walk` | 2 workers, channel of 1, 3 images (good, good and strict, partial), 2 ingests, a host that refuses and cuts short | `EachImageOnce`, `NoImageIsLost`, `CountsAgree`, `ReportAddsUp`, `FingerprintsAreWhole` |
| `ingest_ends` | 2 workers, channel of 1, a good, an unreadable and a panicking image, fairness | `IngestEnds` |
| `quarantine` | 3 paths, 3 contents of which two have the same active sectors, 4 fingerprints | `ImagesSurvive`, `KeptStays`, `NoGhosts` |
| `overlaps` | 4 fingerprints of 3 images, 5 stores of them, 7 reports, 2 and 2 workers, channel of 1, fairness | `ReportIsWhole`, `ReportsAgree`, `ReportEnds` |

Why these bounds are enough to be interesting. On a DOS volume two files of
different sizes have to compete for room, an overwrite has to grow, shrink and
fail, a payload has to be an exact multiple of the sector (then a sector is
taken that is never written) and the pairs have to fill a list exactly, for which the
code takes an empty second one, and not fit (`volume_large`). On a ProDOS volume a directory has to be full, an index block too; a
directory two deep is the least whose removal can hide a subdirectory from the
catalog before it is reached, and a subdirectory of two entries the least whose
removal can stop at the second; names are interchangeable (`SYMMETRY`), and a block
that nothing occupies is told from another only by its kind (`LiveBlocks`, the
`VIEW`: no action and no property reads more of it). In the shell two slots and
two files of one name in two directories are the least in which a name can mean two files,
a file have two names and be in memory twice, and a copy have two ends; two file names are
needed for a rename, which only `shell_session` has; two seconds are the least in which a backup is shared and another is
not. In the ingestor two workers race for everything that is shared, three images
keep the sender waiting at a channel of one place (the code has 16) while both
workers are busy, and two ingests show what is carried over. In the quarantine three
images make a group of two and one of three, `a` and `a2` are equal to `as-dupes` and
different to `whole-dupes`, and four fingerprints let one image have two. Two
loaders are enough to race for the entry of a path with two fingerprints, and with two
comparers and one place the main goroutine waits in the middle of the list.

Deadlock is checked in all runs except `volume_large`, where a write to a full
catalog stops the program, and `overlaps`, where the report ends and the program
with it.

**Fairness.** In `Ingestor` and in `Overlaps`, `FairSpec` asks weak fairness of the main
goroutine and of each worker: the Go scheduler runs every goroutine that can run.
A new ingest, an unreadable directory, a kill, a fatal race and Ctrl-C are not
fair: they need not happen. That the analysis of one image, and one comparison,
ends is assumed. In `Overlaps`, `Feed` is one fair action and not one for each path:
the order of a Go map is open, and no path is promised to come next.

### Where code and documentation disagree

`large_readback` is a run of its own that TLC violates (`ReadsBack`): a file that needs
two T/S lists gets the first list twice and does not read back. The line and the text of the
README it contradicts are in `PROJECT.json`.

What follows is in the models too, and can be read off the definitions named; the
properties are stated so that they hold in spite of it.

* DOS 3.3: an overwrite removes the old file before the space is checked
  (`ReplaceNoRoom`); a write to a full catalog dereferences a nil entry after it
  changed the image (`WriteCatalogFull`); a name longer than 30 characters is looked up
  whole and stored cut, so it never finds itself (`Stored`); put and delete do not
  look at the lock (`ReplaceFile`).
* ProDOS: a removal hides the last files of a directory from its catalog (`Shown`), and
  with them what is below them from every path (`Subdirectory`); the removal of a directory
  therefore fails half-way when a file comes before a subdirectory, and what it did stays in
  memory to be saved by the next command (`RemovalFails`); the block by which a full
  directory grows is lost, with the file that goes into it (`WriteToGrownBlock`); making
  a directory sets the count of its parent from that of the volume (`CreateDirectory`); the last
  block of a full index is not given back (`GivenBack`); rename ignores the lock, and so
  does the removal of a directory for the subdirectories in it; the branch of the write
  for tree files cannot be reached.
* Images: a ProDOS image in linear order that is called `.po` is read in ProDOS order
  (`WithHint`); the 2MG header is dropped by the first save, after which a 400K image is not
  recognised (`Saved`); a ProDOS image of 140K with a header is taken for a hard disk of
  three sectors a track (`From2MG`), and hard disk images without one end unrecognised
  (`NoDirectory`); a DOS volume in another order is read in that order only while the first
  sector of its catalog has a file in it (`AppleDOSLayout`); a DOS 3.2 disk without
  files is recognised only by the standard boot sector, for its VTOC is otherwise looked for
  where a track of 16 sectors has it (`NoVTOC`); nibble images are taken for DOS 3.3 and never decoded; RDOS 3.2 is
  read through a table of 16 sectors on tracks of 13.
* Shell: after a `cd`, a relative name mounts the disk of the other directory
  (`SlotsNamed`); a file under two names is in two slots, and the save of one undoes what
  the other saved (`HasOtherName`); a slot number is refused by unmount when the current slot is empty
  (`NeedsMount`); move deletes nothing (`D2DCopy`).
* Ingest: a fingerprint cut short by a kill or by a full host is kept by every later ingest
  without `-force` (`Analyze`), and counts as written (`EncodeFails`); an image whose
  fingerprint could not be created counts as done (`CreateFails`);
  the map of loggers is written by two goroutines at once (`FatalRace`); one unreadable
  entry ends a walk (`VisitError`); the errors of earlier ingests enter the average of
  this one (`Begin`), and the report of a directory without images divides by zero.
* Quarantine: one more than the number of disks is an answer, and keeps none (`Answers`);
  the result of the write is ignored before the original is removed (`Write`, with
  `CanFill`, under which `ImagesSurvive` does not hold); a later quarantine of a path
  overwrites the earlier copy (`Create`); an edited disk has two fingerprints and is asked
  about as a duplicate of itself by `as-dupes` (`KeptStays` says when); a move that is
  interrupted leaves a fingerprint without image, at which every later command ends
  (`NoGhosts`: one at most for each command).
* Reports: the file called hello counts on one side of a comparison only
  (`CompareCatalogs`); of two fingerprints of a path the last one loaded is used
  (`Load`); a second Ctrl-C is sent into a closed channel (`Interrupt`).

## 4. Theorems

All are for every value of the constants that meets the assumptions in the
modules. Where a theorem has a hypothesis of its own it is named here, with the
reason: without it the code does not have the property, and TLC shows why.

**`AppleDOS_proofs`.** `TypeCorrect`, `FilesAreSafe` (`UsedMarked`), `FilesAreApart`
(`NoCrossLink`) and `NothingLeaks` have no hypothesis. The conjunction
`TypeOK /\ UsedMarked /\ NoCrossLink /\ NoLeak` is inductive; no part is without
the others: a sector that is given back is nobody else's only because of
`NoCrossLink`, and a sector that is taken is nobody's only because of `UsedMarked`.
The argument splits a write into a removal, after which what is left is `Spare`
(free, in no other file, and with the other files all there was), and a store
that takes its sectors from there. The lemmas before say what the walk along the
lists does: it is determined by the links it passes (`ChainUnique`) and does not
change when sectors off the chain do (`ChainFrame`); and that the sectors a write
picks are different and free (`BlocksAreCandidates`).

On top of it stands what a file *is*. `CountsAreExact`, `FilesReadBack` and
`VolumeIsFileStore` need that every payload fits one T/S list
(`DataBlocks(p) <= MaxPairs`, or `Chunks(p) <= MaxPairs`: the loop that writes the
second list writes the first one again, see `large_readback`); `NamesUnique` and
`VolumeIsFileStore` that no name longer than 30 characters is typed (`LongNames = {}`:
such a name is stored cut and never finds itself). Every step of the volume
leaves each entry but one with the same bytes in the same sectors; the one is
cleared, changed in place, or written (`StepCases`), so a fact about one file has
to be proved of the entry that was written and kept for the others (`Kept`).
`VolumeIsFileStore` is `Spec => ImplementsFileStore`: each action is a `Put`,
`Drop`, `SetLocked` or `Rename` of `FileStore` on the files read back by name, or a
stutter.

**`ProDOS_proofs`.** `TypeCorrect` (`TypeOK`), `MarkedUsed` (`UsedMarked`),
`NotCrossLinked` (`NoCrossLink`), `FilesReadBack` (`ReadsBack`), for any
depth of directories and any sizes of directories, of indices and of the volume;
`NamesUnique` (`UniqueNames`) and `VolumeIsFileStore` (`ImplementsFileStore`) with
`LongNames = {}`. The properties speak of the tree
of directories that hangs on the root, which is a recursive function; the
inductive invariant `Inv` does not. It says, for *every* directory block, in the
tree or not: entries are typed and whole (`EntriesWhole`: an entry's block is
what the entry says, and a file holds one payload); what an entry occupies is
marked used (`EntriesMarked`); no two entries share a block (`EntriesApart`); there is
a numbering of the blocks under which each directory is deeper than the one that
holds its entry (`Nested`), which keeps a removal from reaching its own
caller; the calls of the removal are on one path and the files they still hold
are files of their directories (`CallsTyped`, `CallsNest`); and the write that waits for
a removal waits for the entry that the outermost call removes, which is unused once
that call has returned (`WriteReady`). `Sound`
is the part on the image alone. Each command changes one entry of one directory,
and blocks that are free or go with that entry (`Edit`, `EditSound`), so the
commands differ only in what the new entry is worth. The block that a full root
directory loses is in no entry. `VolumeIsFileStore` is stated on the same footing: what a
step does to the entries of a block is one of five things (`Effect`: untouched, one
entry written, one removed, one made a directory, one changed in place), each of which
is a step of `FileStore` on the files of the root directory when it happens there, and a
stutter when it does not. `LockedFilesStay` (`LockedStays`) has no hypothesis: the directories
that the catalogs lead to are found level by level, the levels of the tree are the same
after a step but for the entry it changes, and an entry whose directory still shows
something is not removed, since `FinishRemoval` asks for an empty catalog.
`LeaksAreKnown` (`OnlyKnownLeaks`) has none either: `Effect` also keeps account of the
blocks (`Balanced`): what a step takes is in the entry it writes, and what the entry had is
given back but for `LastPointer`, or a directory is full. That the written entry is on the
volume needs that the directory of a write that waits for a removal still is
(`WriteReady`), which holds because a removal takes away only what is deeper than the
directory it was called on (`Aside`, `UpperDirectoriesStay`).

**`Shell_proofs`.** `ShellTyped`; `ImagesAreRecoverable`, from an invariant that adds
to the types that a save is of a mounted slot, that a finished backup holds what the
file holds while the file is truncated, and that a torn file always has a backup of
its last whole image. `SlotsStayCurrent` (`SlotsAreCurrent`) has no hypothesis: any names are
typed and commands may fail. Its invariant (`CurrentInv`) says that a whole host file is the
last whole image it held and, until `aliased`, that every mounted name means the file its
slot was read from, no two slots were read from one file, and a save writes the file of its
slot (`NamedOnce`): the last is what a save in progress needs, whose path was resolved when it
began. `FilesFollowMemory` (`MemoryIsOnDisk`) adds that a slot whose image is not in its file
is being saved (`Saved`), for which no command may fail half-way (`CanFill = FALSE`: such a
command leaves its changes in memory and saves nothing).

**`Ingestor_proofs`.** `IngestorTyped`, `ImagesAreAnalyzedOnce`, `EveryImageIsKept`,
`ReportCountsAgree`, `FingerprintsStayWhole`, `ReportSums`, for any directory, number of
workers and capacity. `Shape` says which goroutines have an image in their hands,
that the workers are idle and the channel empty outside a walk, and that a worker is
done only when the channel is closed and empty; each theorem adds its own part.
`FingerprintsStayWhole` (`FingerprintsAreWhole`) is for a host that may refuse or cut short any
fingerprint: a torn one is being written or was cut short when it was last written, and after a
walk a good image is without one only if the host refused it then.
`ReportSums` (`ReportAddsUp`) counts: `outdisk` is the number of images whose analysis
ended and was not stopped by a refusal (`Stopped`), `indisk` lies between the images that were
recorded and those that may have been (`Sums`),
and a step changes what at most one image counts as, the one in the hands of the
goroutine that makes it.

**`Quarantine_proofs`.** `QuarantineTyped`; `NothingIsLost`, assuming that the host file
system does not fill up, from an invariant that says that a command changes images
only by removing them, and removes one only when the quarantine holds its bytes;
`KeptDisksStay` and `NoGhostsLeft`, from one that follows the fingerprints that are
still to be moved (`Pending`): they are in the store, no two groups share one, the
store is true of all images but the one just removed, and no pending fingerprint is
of a disk that is kept. That a path has one fingerprint when none is stale is what
keeps a disk that was chosen in one group from being moved with another. `NoGhosts` holds at
every step of such a command, so also where it is stopped: the one fingerprint that can then
be without its image is that of the disk just moved.

**`Overlaps_proofs`.** `OverlapsTyped`; `ReportsAreWhole` (`ReportIsWhole`) and
`ReportsSayTheSame` (`ReportsAgree`), for any store of fingerprints, number of workers
and capacity. An item handed out is `Pending` (to be sent, in the channel, or in a hand)
until what it stands for is in the table or in the results. So when all loaders have
returned every path is in the table (`CompareInv`), which does not change from then on, and
what the results hold is what comparing a path with that whole table gives (`ResultsSound`);
when all comparers have, no path is missing. That two comparisons of two disks say the same
from both sides is a matter of the operators alone (`CatalogsMirror`, `SectorsMirror` where
no file is called hello, `CatalogsAgree` where one is).

**`DiskImage_proofs`.** `DiskImageTyped`, `FilesSurviveSessions` (`FilesSurvive`),
`TakenForTheSameAgain` (`TakenForTheSame`), `SectorsAreApart` (`SectorsApart`), and
`AllSectorsApart`, which is the last of all tracks of a disk where the run looks at three.
They are for every set of disks that meets `DiskAssumption` and up to twelve files, each with
a place of its own (`HomeAssumption`). There are three layers. Of the geometry: an interleave
table is a permutation of the sectors of a track (`MapperInjective`), a block is a pair
of sectors of one track and the pairs of a track are all its sectors (`PairsOfTrack`), so no
two halves of blocks meet (`BlocksApart`). Of a volume that is read in the layout it was
written in: a put adds the file and keeps all others whole, and a delete takes one away
(`PutDOS`, `DeleteDOS`, `PutProDOS`, `DeleteProDOS`); on DOS 3.3 this needs that the links of the
catalog are the ones of a fresh disk, on ProDOS that the header is in the first half of
block 2. Of identification: what each look at the image finds in each layout (`HeadsApart`
says why a ProDOS volume is never found in an order it was not made in, `RDOSFound` and
`PascalFound` why nothing else is taken for those), so what a mount makes of the image
(`MountedImage`) follows from what is on it. The inductive invariant `IInv` says that the image
is still a volume of its system (`OnFile`, `Volume`: a directory where the system keeps it, and
file data only where no directory is looked for), that the files of the disk are on it where it
is one whose directory is read where it was written (`Holds`), and that the slot has what a mount
makes of the image, or the disk in its own format (`MountedWell`). It covers a disk that is read
in a wrong layout too: there a command either finds no directory, or leaves the volume a volume
of its system.
`IInv` speaks of all places, so TLC checks its consequences and not `IInv` itself.

`NumberLemmas` has the facts on counting, on division, and on functions defined by
recursion over the numbers (`RecursionExists`, `RecursionInside`) that these need.

Only model-checked: `IngestEnds` and `ReportEnds`, since liveness is beyond TLAPS, and the
fairness they rest on. `large_readback`, which shows a fault, is no theorem.

## 5. Plan

Proved: every safety property of the passing runs, and both refinements. What could come
next:

1. The session of `Shell` on volumes that are `FileStore`s themselves instead of sets of
   names, so that the theorems on volumes and on sessions meet in one specification.
2. What `NoLeak` says of a DOS 3.3 volume, said of a ProDOS volume: which blocks of a
   volume are neither free nor in a file, counted over all steps and not step by step.
3. The removal of a directory as one step of an abstract volume, where it does not fail.

## 6. Not modelled

* Nibblizing: computed into a nibbler the command line leaves nil.
* The BASIC tokenizer: text over token tables, with a test of its own.
* File headers and the conversions of put and extract: bytes of a payload, which the
  volumes keep whole. (The header of two bytes that a DOS 3.3 file other than a binary gets
  is read back as a length.)
* The catalogs and files of Pascal and RDOS disks: they are only read and shown.
* The comparisons of one image on the command line (`CompareChunks` and its like in `data.go`):
  pure functions of two records whose results are printed. (That of blocks looks for keys
  that the map never has, and returns NaN.)
* Dates, patterns of catalogs, the wording of reports and searches, line editing and
  completion, flags.
* On a ProDOS volume: tree and sparse files, which no command writes, and the panic of a
  full subdirectory that finds no free block, which ends the program before anything
  has changed.
* Images that are damaged in themselves: headers cut short, directories whose blocks
  form a cycle.
* The prompt of the quarantine at the end of the input, where it asks again without end.
