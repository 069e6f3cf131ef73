----------------------------- MODULE AppleDOSFiles -----------------------------
(***************************************************************************)
(* Reading a DOS 3.3 volume back (AppleDOSGetCatalog, AppleDOSReadFile),   *)
(* the files a reader finds on it, and what the program says of them.      *)
(***************************************************************************)
EXTENDS AppleDOS

CONSTANTS
  Missing,   \* a name with no file
  Garbled    \* what is read is not what any command stored

ASSUME GarbledAssumption == Garbled \notin Payloads
ASSUME MissingAssumption ==
  Missing \notin [kind : Kinds, payload : Payloads \cup {Garbled}, locked : BOOLEAN]

\* The pairs of a list in order, up to the first null pair.
PairsOf ==
  [s \in Sector |->
     IF s # Null /\ sec[s].tag = "list"
     THEN SubSeq(sec[s].pairs, 1,
                 Cardinality({j \in DOMAIN sec[s].pairs :
                                \A h \in 1 .. j : sec[s].pairs[h] # Null}))
     ELSE <<>>]

\* One list of sectors after the other.
Appended(lists) ==
  LET from[k \in 1 .. NumSectors + 1] ==
        IF k > NumSectors THEN <<>> ELSE lists[k] \o from[k + 1]
  IN  from[1]

\* The data sectors in the order AppleDOSReadFileSectors appends them: those
\* of the first list of the chain, then those of the next one.
ReadOrder(start) == Appended([k \in 1 .. NumSectors |-> PairsOf[Chain(NextOf, start)[k]]])

\* The file starts with payload p.  The length of a binary file is in the
\* header in its first sector and what follows is cut off; a text file is read
\* to the end of its last sector, and what follows p there is not compared.
Holds(i, p) ==
  \E order \in {ReadOrder(cat[i].start)} :
    /\ Chunks(p) <= Len(order)
    /\ \A j \in 1 .. Chunks(p) :
         sec[order[j]] = [tag |-> "data", payload |-> p, chunk |-> j]

Payload(i) ==
  IF \E p \in Payloads : Holds(i, p) THEN CHOOSE p \in Payloads : Holds(i, p) ELSE Garbled

FileOf(i) == [kind |-> cat[i].kind, payload |-> Payload(i), locked |-> cat[i].locked]

\* The files of the volume by name: the refinement mapping.
FilesOnVolume ==
  [n \in Names |->
     IF NamedCatalogEntry(n) = NoSlot THEN Missing ELSE FileOf(NamedCatalogEntry(n))]

Store == INSTANCE FileStore WITH files <- FilesOnVolume, KeepsKind <- TRUE, HonoursLock <- FALSE

------------------------------------------------------------------------------
\* Every command changes the files it names, as FileStore says, and leaves
\* every other file readable and unchanged: what WriteFile and the removal
\* code do to the bitmap, the catalog and the sectors is one Put, Drop,
\* SetLocked or Rename.
ImplementsFileStore == Store!Spec

\* The catalog names no file twice: WriteFile looks a name up before it takes
\* a new entry, RenameFile refuses a name that exists.
UniqueNames ==
  \A i, j \in Slot : InUse(i) /\ InUse(j) /\ cat[i].name = cat[j].name => i = j

\* The sector count the catalog shows is what the file occupies, so the space
\* the listing accounts for is the space the bitmap lacks.
CountsMatch == \A i \in Slot : InUse(i) => cat[i].total = Cardinality(Footprint(i))

\* Every file in the catalog reads back as it was stored.
ReadsBack == \A i \in Slot : InUse(i) => Payload(i) # Garbled
==============================================================================
