------------------------------- MODULE Overlaps -------------------------------
(***************************************************************************)
(* The reports that compare every disk with every other (fuzzyfiles.go,    *)
(* fuzzyblocks.go).  Workers load the fingerprints into a table by path;   *)
(* when they are done, other workers take the paths of the table, compare  *)
(* the disk of each with all the others, and enter what is kept into the   *)
(* results.  Ctrl-C while the paths are handed out ends the report early.  *)
(***************************************************************************)
EXTENDS Integers, FiniteSets, Sequences

CONSTANTS
  Fingerprints,  \* fingerprint files
  PathOf,        \* the path of the image each is about
  Stores,        \* what the fingerprint files can hold
  Reports,       \* the reports that can be asked for
  Loaders,       \* ingestWorkers of them
  Comparers,     \* processWorkers of them
  Cap,           \* capacity of workchan
  Torn,          \* a fingerprint file that does not decode
  EmptySector,   \* EMPTYSECTOR
  None           \* no item in hand

Workers == Loaders \cup Comparers
Paths == {PathOf[f] : f \in Fingerprints}

\* What a fingerprint tells of a disk: its files with their checksums, and the
\* checksums of its sectors by their places.
Files == Seq([sum : Nat, size : Nat, hello : BOOLEAN])
IsDisk(d) ==
  /\ d.files \in Files
  /\ DOMAIN d.active \cap DOMAIN d.inactive = {}
  /\ IsFiniteSet(DOMAIN d.active \cup DOMAIN d.inactive)

ASSUME PathAssumption == DOMAIN PathOf = Fingerprints
ASSUME WorkerAssumption ==
  Loaders # {} /\ Comparers # {} /\ Loaders \cap Comparers = {} /\ Cap \in Nat \ {0}
ASSUME ItemAssumption == None \notin Fingerprints \cup Paths
ASSUME StoreAssumption ==
  \A s \in Stores : DOMAIN s = Fingerprints /\ \A f \in Fingerprints : s[f] = Torn \/ IsDisk(s[f])
\* Files with one SHA256 are the same file.
ASSUME ChecksumAssumption ==
  \A s \in Stores : \A f, g \in Fingerprints :
    s[f] # Torn /\ s[g] # Torn =>
      \A i \in DOMAIN s[f].files, j \in DOMAIN s[g].files :
        s[f].files[i].sum = s[g].files[j].sum => s[f].files[i].size = s[g].files[j].size
\* The numbers of the custom reports are asked for when they are not 0.
ASSUME ReportAssumption ==
  Reports \subseteq [of : {"files", "sectors", "active"},
                    keep : {"above", "subset", "same", "diff"}, n : Nat]
  /\ \A r \in Reports : r.keep \in {"same", "diff"} => r.n # 0

VARIABLES
  store,    \* the fingerprint files
  report,   \* the report that was asked for
  phase,    \* load, compare, done; crashed
  feed,     \* what is still to be handed out
  workchan, \* what is handed out and not taken
  closed,   \* workchan is closed
  hand,     \* what a worker has in hand
  exited,   \* workers that have returned
  table,    \* what was loaded, by path
  results,  \* by path, the other paths that are kept and what they have in common
  ctrlC     \* the channel of interrupts: not made yet, empty, full, closed

vars == <<store, report, phase, feed, workchan, closed, hand, exited, table, results, ctrlC>>

NoPaths == [p \in {} |-> <<>>]

------------------------------------------------------------------------------
(***************************************************************************)
(* Comparing two disks.                                                    *)
(***************************************************************************)
\* GetCatalogMap: of files with one checksum the last counts.
CatalogMap(files) ==
  [c \in {files[i].sum : i \in DOMAIN files} |->
     files[CHOOSE i \in DOMAIN files :
             files[i].sum = c /\ \A j \in DOMAIN files : files[j].sum = c => j <= i]]

\* Files of no bytes count for neither disk; a boot program called hello does
\* not count for the disk that is compared, but does for the other.
CompareCatalogs(d, b) ==
  LET dmap == CatalogMap(d)
      bmap == CatalogMap(b)
      counted == {c \in DOMAIN dmap : dmap[c].size # 0 /\ ~dmap[c].hello} IN
  [same    |-> counted \cap DOMAIN bmap,
   missing |-> counted \ DOMAIN bmap,
   extras  |-> {c \in DOMAIN bmap \ DOMAIN dmap : bmap[c].size # 0}]

\* A sector that holds something else on the other disk is missing there, and
\* not extra.
CompareSectors(d, b) ==
  LET same == {s \in DOMAIN d \cap DOMAIN b : d[s] = b[s]} IN
  [same |-> same, missing |-> DOMAIN d \ same, extras |-> DOMAIN b \ DOMAIN d]

\* What GetAllFiles, GetAllDiskSectors and GetActiveDiskSectors load of a disk.
\* A disk without files is left out of the reports on files.
Merged(d) == [s \in DOMAIN d.active \cup DOMAIN d.inactive |->
                IF s \in DOMAIN d.active THEN d.active[s] ELSE d.inactive[s]]
NotEmpty(sectors) ==
  [s \in {t \in DOMAIN sectors : sectors[t] # EmptySector} |-> sectors[s]]

Loaded(d) ==
  CASE report.of = "files" -> d.files
    [] report.of = "sectors" -> NotEmpty(Merged(d))
    [] report.of = "active" -> d.active
Loads(d) == report.of = "files" => d.files # <<>>

\* Mutant: files of no bytes count on the other disk.
CompareZeroByte(d, b) ==
  IF report.of # "files" THEN CompareSectors(d, b)
  ELSE LET r == CompareCatalogs(d, b) IN
       [r EXCEPT !.extras = DOMAIN CatalogMap(b) \ DOMAIN CatalogMap(d)]
Compare(d, b) == IF report.of = "files" THEN CompareCatalogs(d, b) ELSE CompareSectors(d, b)

(***************************************************************************)
(* What the reports keep of a comparison.                                  *)
(***************************************************************************)
Total(r) == Cardinality(r.same) + Cardinality(r.missing) + Cardinality(r.extras)

\* CollectFilesOverlapsAboveThreshold, with the threshold in percent.
AboveThreshold(r) ==
  IF Total(r) = 0 THEN report.n = 0 ELSE 100 * Cardinality(r.same) >= report.n * Total(r)

\* IsSubsetOf; a disk that has nothing in common with another is no subset of it.
IsSubsetOf(r) == r.same # {} /\ r.extras # {} /\ r.missing = {}

KeeperAtLeastNSame(r) == Cardinality(r.same) >= report.n
KeeperMaximumNDiff(r) ==
  r.same # {} /\ Cardinality(r.missing) + Cardinality(r.extras) <= report.n

Keep(r) ==
  CASE report.keep = "above" -> AboveThreshold(r)
    [] report.keep = "subset" -> IsSubsetOf(r)
    [] report.keep = "same" -> KeeperAtLeastNSame(r)
    [] report.keep = "diff" -> KeeperMaximumNDiff(r)

\* Mutant: a disk is compared with itself.
RecordWithItself(m) ==
  LET r(k) == Compare(table[m], table[k]) IN
  [k \in {p \in DOMAIN table : Keep(r(p))} |-> r(k)]

\* The FileOverlapRecord of path m.
OverlapRecord(m) ==
  LET r(k) == Compare(table[m], table[k]) IN
  [k \in {p \in DOMAIN table \ {m} : Keep(r(p))} |-> r(k)]

\* It is entered if there is something in it: with the two keepers, a file.
Entered(record) ==
  IF report.keep \in {"same", "diff"} THEN \E k \in DOMAIN record : record[k].same # {}
  ELSE DOMAIN record # {}

------------------------------------------------------------------------------
(***************************************************************************)
(* Handing out.                                                            *)
(***************************************************************************)
Init ==
  /\ store \in Stores
  /\ report \in Reports
  /\ phase = "load"
  /\ feed = Fingerprints
  /\ workchan = <<>>
  /\ closed = FALSE
  /\ hand = [w \in Workers |-> None]
  /\ exited = {}
  /\ table = NoPaths
  /\ results = NoPaths
  /\ ctrlC = "none"

Running == phase \in {"load", "compare"}
Here == IF phase = "load" THEN Loaders ELSE Comparers

\* An interrupt is looked for before each item that is handed out; one that
\* comes while the send waits counts as one that comes after it.
Feed(x) ==
  /\ Running /\ ~closed
  /\ x \in feed
  /\ ctrlC # "full"
  /\ Len(workchan) < Cap
  /\ workchan' = Append(workchan, x)
  /\ feed' = feed \ {x}
  /\ UNCHANGED <<store, report, phase, closed, hand, exited, table, results, ctrlC>>

CloseWhenFed ==
  /\ Running /\ ~closed
  /\ feed = {}
  /\ closed' = TRUE
  /\ UNCHANGED <<store, report, phase, feed, workchan, hand, exited, table, results, ctrlC>>

CloseInterrupted ==
  /\ Running /\ ~closed
  /\ feed # {}
  /\ ctrlC = "full"
  /\ closed' = TRUE
  /\ ctrlC' = "closed"
  /\ UNCHANGED <<store, report, phase, feed, workchan, hand, exited, table, results>>

Take(w) ==
  /\ Running /\ w \in Here \ exited
  /\ hand[w] = None
  /\ workchan # <<>>
  /\ hand' = [hand EXCEPT ![w] = Head(workchan)]
  /\ workchan' = Tail(workchan)
  /\ UNCHANGED <<store, report, phase, feed, closed, exited, table, results, ctrlC>>

\* Mutant: a worker that finds nothing to do does not wait for more.
ExitOnEmpty(w) ==
  /\ Running /\ w \in Here \ exited
  /\ hand[w] = None
  /\ workchan = <<>>
  /\ exited' = exited \cup {w}
  /\ UNCHANGED <<store, report, phase, feed, workchan, closed, hand, table, results, ctrlC>>

Exit(w) ==
  /\ Running /\ w \in Here \ exited
  /\ hand[w] = None
  /\ workchan = <<>> /\ closed
  /\ exited' = exited \cup {w}
  /\ UNCHANGED <<store, report, phase, feed, workchan, closed, hand, table, results, ctrlC>>

Done(w) == hand' = [hand EXCEPT ![w] = None]

\* Of two fingerprints of one path the one that is loaded last stays.
Load(w) ==
  /\ Running /\ w \in Loaders /\ hand[w] # None
  /\ LET disk == store[hand[w]] IN
     table' = IF disk # Torn /\ Loads(disk)
              THEN [p \in DOMAIN table \cup {PathOf[hand[w]]} |->
                      IF p = PathOf[hand[w]] THEN Loaded(disk) ELSE table[p]]
              ELSE table
  /\ Done(w)
  /\ UNCHANGED <<store, report, phase, feed, workchan, closed, exited, results, ctrlC>>

CompareWithOthers(w) ==
  /\ Running /\ w \in Comparers /\ hand[w] # None
  /\ LET record == OverlapRecord(hand[w]) IN
     results' = IF Entered(record)
                THEN [p \in DOMAIN results \cup {hand[w]} |->
                        IF p = hand[w] THEN record ELSE results[p]]
                ELSE results
  /\ Done(w)
  /\ UNCHANGED <<store, report, phase, feed, workchan, closed, exited, table, ctrlC>>

\* Mutant: the table is used before the workers have returned.
StartEarly ==
  /\ phase = "load" /\ closed /\ workchan = <<>>
  /\ phase' = "compare"
  /\ feed' = DOMAIN table
  /\ closed' = FALSE
  /\ ctrlC' = "empty"
  /\ UNCHANGED <<store, report, workchan, hand, exited, table, results>>

\* The workers of GetAllFiles have returned; the interrupts are asked for.
StartCompare ==
  /\ phase = "load" /\ closed /\ Loaders \subseteq exited
  /\ phase' = "compare"
  /\ feed' = DOMAIN table
  /\ closed' = FALSE
  /\ ctrlC' = "empty"
  /\ UNCHANGED <<store, report, workchan, hand, exited, table, results>>

Finish ==
  /\ phase = "compare" /\ closed /\ Comparers \subseteq exited
  /\ phase' = "done"
  /\ UNCHANGED <<store, report, feed, workchan, closed, hand, exited, table, results, ctrlC>>

\* While the fingerprints are loaded, Ctrl-C ends the program; then it is sent
\* into the channel, or dropped when that is full.  The channel is closed after
\* the first, without signal.Stop: the next is sent into a closed channel.
Interrupt ==
  /\ Running
  /\ \/ ctrlC \in {"none", "closed"} /\ phase' = "crashed" /\ UNCHANGED ctrlC
     \/ ctrlC = "empty" /\ ctrlC' = "full" /\ UNCHANGED phase
  /\ UNCHANGED <<store, report, feed, workchan, closed, hand, exited, table, results>>

Step ==
  \/ \E x \in feed : Feed(x)
  \/ CloseWhenFed \/ CloseInterrupted
  \/ \E w \in Workers : Take(w) \/ Exit(w) \/ Load(w) \/ CompareWithOthers(w)
  \/ StartCompare \/ Finish

Next == Step \/ Interrupt

Spec == Init /\ [][Next]_vars

\* The main goroutine and the workers go on as long as they can.
FairSpec ==
  /\ Spec
  /\ WF_vars(\E x \in feed : Feed(x))
  /\ WF_vars(CloseWhenFed \/ CloseInterrupted \/ StartCompare \/ Finish)
  /\ \A w \in Workers : WF_vars(Take(w) \/ Exit(w) \/ Load(w) \/ CompareWithOthers(w))

------------------------------------------------------------------------------
TypeOK ==
  /\ store \in Stores /\ report \in Reports
  /\ phase \in {"load", "compare", "done", "crashed"}
  /\ feed \subseteq Fingerprints \cup Paths
  /\ Len(workchan) <= Cap
  /\ hand \in [Workers -> Fingerprints \cup Paths \cup {None}]
  /\ exited \subseteq Workers
  /\ DOMAIN table \subseteq Paths
  /\ DOMAIN results \subseteq DOMAIN table
  /\ \A m \in DOMAIN results : DOMAIN results[m] \subseteq DOMAIN table \ {m}
  /\ ctrlC \in {"none", "empty", "full", "closed"}

\* The disks that a fingerprint loads, by path.
Good(p) == {f \in Fingerprints : PathOf[f] = p /\ store[f] # Torn /\ Loads(store[f])}

\* Whoever did what in which order, a report is about all the disks with a
\* fingerprint, each as one of its fingerprints says, and has for each what a
\* comparison with all the others gives; where the user cut it short, it has
\* that for some of the disks, and none half.
ReportIsWhole ==
  phase = "done" =>
    /\ DOMAIN table = {p \in Paths : Good(p) # {}}
    /\ \A p \in DOMAIN table : \E f \in Good(p) : table[p] = Loaded(store[f])
    /\ \A m \in DOMAIN results : results[m] = OverlapRecord(m)
    /\ ctrlC # "closed" => DOMAIN results = {m \in DOMAIN table : Entered(OverlapRecord(m))}

Kept(m) == IF m \in DOMAIN results THEN DOMAIN results[m] ELSE {}
Hellos(files) == {files[i].sum : i \in {j \in DOMAIN files : files[j].hello}}
HelloFiles(p) == IF report.of = "files" THEN Hellos(table[p]) ELSE {}

\* Two disks match each other, and of two disks one at most is a subset of the
\* other, where neither has a boot program called hello (see CompareCatalogs).
\* Where they have, the two disks that match each other do so in the same files,
\* and what one report misses is extra in the other, but for those programs.
MatchesAgree(m, k) == IF report.keep = "subset" THEN m \notin Kept(k) ELSE m \in Kept(k)

FilesAgree(m, k) ==
  /\ results[m][k].same \ results[k][m].same \subseteq HelloFiles(k)
  /\ report.of = "files" =>
       /\ results[m][k].missing \subseteq results[k][m].extras
       /\ results[k][m].extras \ results[m][k].missing \subseteq HelloFiles(m)

\* What the report on one disk says of another is what the report on the other
\* says of the first.
ReportsAgree ==
  (phase = "done" /\ ctrlC # "closed") =>
    \A m \in DOMAIN table : \A k \in Kept(m) :
      /\ HelloFiles(m) \cup HelloFiles(k) = {} => MatchesAgree(m, k)
      /\ m \in Kept(k) => FilesAgree(m, k)

\* The report ends, however the workers and the interrupts fall.
ReportEnds == <>(phase \in {"done", "crashed"})
==============================================================================
