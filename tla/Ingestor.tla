------------------------------- MODULE Ingestor -------------------------------
(***************************************************************************)
(* Ingesting a directory of disk images (walk in ingestor.go), or one      *)
(* image: the main goroutine walks the directory and sends the images      *)
(* through a bounded channel to the workers, which analyze them, write     *)
(* their fingerprint files and count; the main goroutine closes the        *)
(* channel, waits for the workers and prints a report.                     *)
(*                                                                         *)
(* What analyze computes is abstracted to what it does with an image: it   *)
(* cannot read it, it panics, it returns early, or it writes a fingerprint, *)
(* which the host can refuse to create or cut short.  The loggers of loggy *)
(* are a map that the goroutines share without a lock.  The program can be *)
(* killed at any moment, and started again.                                *)
(***************************************************************************)
EXTENDS Integers, Sequences, FiniteSets

CONSTANTS
  Images,      \* the disk images below the directory
  Workers,     \* the loaderWorkers goroutines
  Main,        \* the main goroutine: logger 0
  Cap,         \* capacity of the channel
  Unreadable,  \* images NewDSKWrapper refuses
  Panicking,   \* images whose analysis panics
  Partial,     \* images whose analysis returns early
  Strict,      \* images whose analyzer panics when WriteToFile fails
  CanAbort,    \* whether a directory can be unreadable, which ends the walk
  MaxIngests,  \* bound on the ingests
  NoImage,     \* no image in hand
  Nil          \* the loggers before the map is made

Ids  == Workers \cup {Main}
Good == Images \ (Unreadable \cup Panicking \cup Partial)

ASSUME ImagesAssumption ==
  /\ IsFiniteSet(Images) /\ NoImage \notin Images
  /\ Unreadable \cup Panicking \cup Partial \subseteq Images
  /\ Unreadable \cap (Panicking \cup Partial) = {} /\ Panicking \cap Partial = {}
  /\ Strict \subseteq Good
ASSUME WorkersAssumption == Workers # {} /\ Main \notin Workers
ASSUME BoundsAssumption == Cap \in Nat \ {0} /\ MaxIngests \in Nat /\ CanAbort \in BOOLEAN
ASSUME NilAssumption == \A s \in SUBSET Ids : Nil # s

VARIABLES
  main,        \* what the main goroutine does, or how the program ended
  unread,      \* the images filepath.Walk has not come to
  incoming,    \* the channel; it is closed when main is "waiting"
  worker,      \* of each goroutine: where it is, the image in its hands, and
               \* where it goes when it has its logger
  loggers,     \* ids of the loggers in the map
  processed, errorcount,
  indisk, outdisk,   \* the counts over all formats
  index,       \* the fingerprint file of each image
  force,       \* the -force flag
  ingests,     \* history: ingests so far
  finished,    \* history: images this walk is done with
  carried,     \* history: errorcount when this ingest began
  cut,         \* history: images whose fingerprint was cut short when it was
               \* last written, by a kill, by a crash or by the host
  refused      \* history: images whose fingerprint the host refused to create

counts  == <<processed, errorcount, indisk, outdisk>>
history == <<ingests, finished, carried, cut, refused>>
vars == <<main, unread, incoming, worker, loggers, counts, index, force, history>>

Ended   == {"killed", "crashed"}
Places  == {"idle", "get", "make", "find", "new", "store", "load", "analyze",
            "create", "encode", "out", "count", "failed", "done"}
Worker  == [at : Places, image : Images \cup {NoImage}, then : {"idle", "load", "create"}]
Resting == [at |-> "idle", image |-> NoImage, then |-> "idle"]

At(w, place) == worker[w].at = place
Goto(w, place) == worker' = [worker EXCEPT ![w].at = place]
Image(w) == worker[w].image

\* A goroutine gets the logger named first, and goes on where it says.
GetLogger(image, then) == [at |-> "get", image |-> image, then |-> then]

\* Images whose analysis failed because their fingerprint was refused.
Stopped == Strict \cap refused

WorkersDone == \A w \in Workers : At(w, "done")
Walking == main \in {"walking", "aborting", "waiting"}

------------------------------------------------------------------------------
\* An image that is not analyzed to the end never got a fingerprint.
Init ==
  /\ main = "prompt"
  /\ unread = {}
  /\ incoming = <<>>
  /\ worker = [w \in Ids |-> Resting]
  /\ loggers = Nil
  /\ processed = 0 /\ errorcount = 0 /\ indisk = 0 /\ outdisk = 0
  /\ index \in [Images -> {"none", "whole"}]
  /\ \A i \in Images \ Good : index[i] = "none"
  /\ force \in BOOLEAN
  /\ ingests = 0 /\ finished = {} /\ carried = 0 /\ cut = {} /\ refused = {}

------------------------------------------------------------------------------
(***************************************************************************)
(* The main goroutine.                                                     *)
(***************************************************************************)
\* shellIngest resets processed, but not errorcount.
Begin ==
  /\ main = "prompt"
  /\ ingests < MaxIngests
  /\ ingests' = ingests + 1
  /\ processed' = 0 /\ indisk' = 0 /\ outdisk' = 0
  /\ finished' = {} /\ refused' = {}
  /\ carried' = errorcount
  /\ UNCHANGED <<incoming, loggers, errorcount, index, force, cut>>

Walk ==
  /\ Begin
  /\ main' = "walking"
  /\ unread' = Images
  /\ worker' = [w \in Ids |-> IF w = Main THEN Resting ELSE GetLogger(NoImage, "idle")]

IngestOne(i) ==
  /\ Begin
  /\ main' = "single"
  /\ worker' = [worker EXCEPT ![Main] = GetLogger(i, "load")]
  /\ UNCHANGED unread

\* Mutant: the channel has no bound.
VisitUnbounded(i) ==
  /\ main = "walking"
  /\ i \in unread
  /\ unread' = unread \ {i}
  /\ incoming' = Append(incoming, i)
  /\ UNCHANGED <<main, worker, loggers, counts, index, force, history>>

\* Mutant: an image that finds the channel full is dropped.
VisitDrops(i) ==
  /\ main = "walking"
  /\ i \in unread
  /\ unread' = unread \ {i}
  /\ incoming' = IF Len(incoming) < Cap THEN Append(incoming, i) ELSE incoming
  /\ UNCHANGED <<main, worker, loggers, counts, index, force, history>>

\* processFile: the send blocks while the channel is full.
Visit(i) ==
  /\ main = "walking"
  /\ i \in unread
  /\ Len(incoming) < Cap
  /\ unread' = unread \ {i}
  /\ incoming' = Append(incoming, i)
  /\ UNCHANGED <<main, worker, loggers, counts, index, force, history>>

\* processFile hands the error back to filepath.Walk, which gives up.
VisitError ==
  /\ CanAbort
  /\ main = "walking"
  /\ main' = "aborting"
  /\ worker' = [worker EXCEPT ![Main] = GetLogger(NoImage, "idle")]
  /\ UNCHANGED <<unread, incoming, loggers, counts, index, force, history>>

Close ==
  /\ \/ main = "walking" /\ unread = {}
     \/ main = "aborting" /\ At(Main, "idle")
  /\ main' = "waiting"
  /\ UNCHANGED <<unread, incoming, worker, loggers, counts, index, force, history>>

\* wg.Wait, and the report.
Report ==
  /\ main = "waiting"
  /\ WorkersDone
  /\ processed + errorcount # 0
  /\ main' = "prompt"
  /\ UNCHANGED <<unread, incoming, worker, loggers, counts, index, force, history>>

OneDone ==
  /\ main = "single"
  /\ At(Main, "idle")
  /\ main' = "prompt"
  /\ UNCHANGED <<unread, incoming, worker, loggers, counts, index, force, history>>

------------------------------------------------------------------------------
(***************************************************************************)
(* loggy.Get: the logger is looked up, and made when it is not there.      *)
(***************************************************************************)
LoggerOf(w) == IF worker[w].then = "create" THEN Main ELSE w

GetNil(w) ==
  /\ At(w, "get")
  /\ Goto(w, IF loggers = Nil THEN "make" ELSE "find")
  /\ UNCHANGED <<main, unread, incoming, loggers, counts, index, force, history>>

\* A map that another goroutine made in between is lost.
MakeMap(w) ==
  /\ At(w, "make")
  /\ loggers' = {}
  /\ Goto(w, "find")
  /\ UNCHANGED <<main, unread, incoming, counts, index, force, history>>

Find(w) ==
  /\ At(w, "find")
  /\ Goto(w, IF LoggerOf(w) \in loggers THEN worker[w].then ELSE "new")
  /\ UNCHANGED <<main, unread, incoming, loggers, counts, index, force, history>>

NewLogger(w) ==
  /\ At(w, "new")
  /\ Goto(w, "store")
  /\ UNCHANGED <<main, unread, incoming, loggers, counts, index, force, history>>

Store(w) ==
  /\ At(w, "store")
  /\ loggers' = loggers \cup {LoggerOf(w)}
  /\ Goto(w, worker[w].then)
  /\ UNCHANGED <<main, unread, incoming, counts, index, force, history>>

\* The map is written while another goroutine reads it or is about to write.
Racing ==
  \E v, w \in Ids : v # w /\ At(v, "store") /\ (At(w, "find") \/ At(w, "store"))

------------------------------------------------------------------------------
(***************************************************************************)
(* A worker, and analyze, which the main goroutine runs for a single image. *)
(***************************************************************************)
Take(w) ==
  /\ w \in Workers
  /\ At(w, "idle")
  /\ incoming # <<>>
  /\ incoming' = Tail(incoming)
  /\ worker' = [worker EXCEPT ![w] = GetLogger(Head(incoming), "load")]
  /\ UNCHANGED <<main, unread, loggers, counts, index, force, history>>

\* Mutant: a worker that finds the channel empty does not wait for the close.
ExitOnEmpty(w) ==
  /\ w \in Workers
  /\ At(w, "idle")
  /\ incoming = <<>>
  /\ Goto(w, "done")
  /\ UNCHANGED <<main, unread, incoming, loggers, counts, index, force, history>>

Exit(w) ==
  /\ w \in Workers
  /\ At(w, "idle")
  /\ main = "waiting"
  /\ incoming = <<>>
  /\ Goto(w, "done")
  /\ UNCHANGED <<main, unread, incoming, loggers, counts, index, force, history>>

\* An image that cannot be read is an error of analyze, which walk ignores.
LoadFails(w) ==
  /\ At(w, "load")
  /\ Image(w) \in Unreadable
  /\ Goto(w, "count")
  /\ UNCHANGED <<main, unread, incoming, loggers, counts, index, force, history>>

Load(w) ==
  /\ At(w, "load")
  /\ Image(w) \notin Unreadable
  /\ indisk' = indisk + 1
  /\ Goto(w, "analyze")
  /\ UNCHANGED <<main, unread, incoming, loggers, processed, errorcount, outdisk,
                 index, force, history>>

\* Mutant: the analysis of an image can panic while its fingerprint is written.
PanicLate(w) ==
  /\ At(w, "load") \/ At(w, "analyze") \/ At(w, "encode")
  /\ At(w, "encode") \/ Image(w) \in Panicking
  /\ Goto(w, "failed")
  /\ UNCHANGED <<main, unread, incoming, loggers, counts, index, force, history>>

Panic(w) ==
  /\ At(w, "load") \/ At(w, "analyze")
  /\ Image(w) \in Panicking
  /\ Goto(w, "failed")
  /\ UNCHANGED <<main, unread, incoming, loggers, counts, index, force, history>>

\* Mutant: an image whose analysis returns early is counted out.
ReturnOut(w) ==
  /\ At(w, "analyze")
  /\ Image(w) \in Partial
  /\ Goto(w, "out")
  /\ UNCHANGED <<main, unread, incoming, loggers, counts, index, force, history>>

\* Mutant: an image whose analysis returns early is queued for another try.
ReturnRetries(w) ==
  /\ At(w, "analyze")
  /\ Image(w) \in Partial
  /\ incoming' = Append(incoming, Image(w))
  /\ Goto(w, "count")
  /\ UNCHANGED <<main, unread, loggers, counts, index, force, history>>

ReturnEarly(w) ==
  /\ At(w, "analyze")
  /\ Image(w) \in Partial
  /\ Goto(w, "count")
  /\ UNCHANGED <<main, unread, incoming, loggers, counts, index, force, history>>

\* A fingerprint file that exists, whatever is in it, is not written again.
Analyze(w) ==
  /\ At(w, "analyze")
  /\ Image(w) \in Good
  /\ worker' = IF index[Image(w)] = "none" \/ force
               THEN [worker EXCEPT ![w] = GetLogger(Image(w), "create")]
               ELSE [worker EXCEPT ![w].at = "out"]
  /\ UNCHANGED <<main, unread, incoming, loggers, counts, index, force, history>>

\* WriteToFile, which truncates the file before it writes it.
Create(w) ==
  /\ At(w, "create")
  /\ index' = [index EXCEPT ![Image(w)] = "torn"]
  /\ Goto(w, "encode")
  /\ UNCHANGED <<main, unread, incoming, loggers, counts, force, history>>

\* The host refuses the file: six of the seven analyzers do not look at the
\* error of WriteToFile, the one for 140K ProDOS disks panics.
CreateFails(w) ==
  /\ At(w, "create")
  /\ refused' = refused \cup {Image(w)}
  /\ Goto(w, IF Image(w) \in Strict THEN "failed" ELSE "out")
  /\ UNCHANGED <<main, unread, incoming, loggers, counts, index, force,
                 ingests, finished, carried, cut>>

Encode(w) ==
  /\ At(w, "encode")
  /\ index' = [index EXCEPT ![Image(w)] = "whole"]
  /\ cut' = cut \ {Image(w)}
  /\ Goto(w, "out")
  /\ UNCHANGED <<main, unread, incoming, loggers, counts, force,
                 ingests, finished, carried, refused>>

\* The error of the encoder is dropped: what has been written stays.
EncodeFails(w) ==
  /\ At(w, "encode")
  /\ cut' = cut \cup {Image(w)}
  /\ Goto(w, "out")
  /\ UNCHANGED <<main, unread, incoming, loggers, counts, index, force,
                 ingests, finished, carried, refused>>

Out(w) ==
  /\ At(w, "out")
  /\ outdisk' = outdisk + 1
  /\ Goto(w, "count")
  /\ UNCHANGED <<main, unread, incoming, loggers, processed, errorcount, indisk,
                 index, force, history>>

\* Nothing is counted for a single image.
Rest(w) ==
  /\ worker' = [worker EXCEPT ![w] = Resting]
  /\ finished' = finished \cup {Image(w)}
  /\ UNCHANGED <<main, unread, incoming, loggers, indisk, outdisk, index, force,
                 ingests, carried, cut, refused>>

\* Mutant: processed is counted without the lock, and updates get lost.
CountUnlocked(w) ==
  /\ At(w, "count")
  /\ \/ w # Main /\ processed' = processed + 1
     \/ processed' = processed /\ (w = Main \/ \E v \in Workers \ {w} : At(v, "count"))
  /\ Rest(w)
  /\ UNCHANGED errorcount

Count(w) ==
  /\ At(w, "count")
  /\ processed' = IF w = Main THEN processed ELSE processed + 1
  /\ Rest(w)
  /\ UNCHANGED errorcount

Fail(w) ==
  /\ At(w, "failed")
  /\ errorcount' = IF w = Main THEN errorcount ELSE errorcount + 1
  /\ Rest(w)
  /\ UNCHANGED processed

------------------------------------------------------------------------------
(***************************************************************************)
(* The end of the program, and its next start.                             *)
(***************************************************************************)
End(how) ==
  /\ main \notin Ended
  /\ main' = how
  /\ cut' = cut \cup {Image(w) : w \in {v \in Ids : At(v, "encode")}}
  /\ unread' = {}
  /\ incoming' = <<>>
  /\ worker' = [w \in Ids |-> Resting]
  /\ UNCHANGED <<loggers, counts, index, force, ingests, finished, carried, refused>>

Kill == End("killed")

\* "fatal error: concurrent map writes": the runtime need not notice.
FatalRace == Racing /\ End("crashed")

\* The average time per disk is a division by the number of disks.
DivideByZero ==
  /\ main = "waiting"
  /\ WorkersDone
  /\ processed + errorcount = 0
  /\ End("crashed")

Restart ==
  /\ main \in Ended
  /\ main' = "prompt"
  /\ loggers' = Nil
  /\ processed' = 0 /\ errorcount' = 0 /\ indisk' = 0 /\ outdisk' = 0
  /\ force' \in BOOLEAN
  /\ finished' = {} /\ carried' = 0 /\ refused' = {}
  /\ UNCHANGED <<unread, incoming, worker, index, ingests, cut>>

MainStep == (\E i \in Images : Visit(i)) \/ Close \/ Report \/ DivideByZero \/ OneDone

LoggerStep(w) == GetNil(w) \/ MakeMap(w) \/ Find(w) \/ NewLogger(w) \/ Store(w)

AnalyzeStep(w) ==
  \/ LoadFails(w) \/ Load(w) \/ Panic(w) \/ ReturnEarly(w) \/ Analyze(w)
  \/ Create(w) \/ CreateFails(w) \/ Encode(w) \/ EncodeFails(w) \/ Out(w)
  \/ Count(w) \/ Fail(w)

WorkerStep(w) == Take(w) \/ Exit(w) \/ LoggerStep(w) \/ AnalyzeStep(w)

Next ==
  \/ Walk \/ VisitError
  \/ \E i \in Images : IngestOne(i)
  \/ MainStep
  \/ \E w \in Ids : WorkerStep(w)
  \/ Kill \/ FatalRace \/ Restart

Spec == Init /\ [][Next]_vars

\* The Go scheduler runs every goroutine that can run.
FairSpec == Spec /\ WF_vars(MainStep) /\ \A w \in Ids : WF_vars(WorkerStep(w))

------------------------------------------------------------------------------
TypeOK ==
  /\ main \in {"prompt", "walking", "aborting", "waiting", "single"} \cup Ended
  /\ unread \subseteq Images
  /\ incoming \in Seq(Images) /\ Len(incoming) <= Cap
  /\ worker \in [Ids -> Worker]
  /\ loggers \in {Nil} \cup SUBSET Ids
  /\ processed \in Nat /\ errorcount \in Nat /\ indisk \in Nat /\ outdisk \in Nat
  /\ index \in [Images -> {"none", "torn", "whole"}]
  /\ force \in BOOLEAN
  /\ ingests \in Nat /\ finished \subseteq Images /\ carried \in Nat
  /\ cut \subseteq Images /\ refused \subseteq Images

\* No image is analyzed twice in a walk, nor by two workers: those not visited
\* yet, queued, in the hands of a worker and finished are all different.
EachImageOnce ==
  Walking =>
    /\ \A k \in 1 .. Len(incoming) :
         /\ incoming[k] \notin unread \cup finished
         /\ \A j \in 1 .. k - 1 : incoming[j] # incoming[k]
         /\ \A w \in Ids : Image(w) # incoming[k]
    /\ \A w \in Ids : Image(w) \notin unread \cup finished
    /\ \A v, w \in Ids : v # w /\ Image(v) # NoImage => Image(v) # Image(w)
    /\ unread \cap finished = {}

\* No image is lost in a walk: one that has been visited is in the channel, in
\* the hands of a worker or finished, whoever panicked or failed.
NoImageIsLost ==
  Walking =>
    \A i \in Images :
      \/ i \in unread \cup finished
      \/ \E k \in 1 .. Len(incoming) : incoming[k] = i
      \/ \E w \in Ids : Image(w) = i

\* The report counts what the workers did, under the lock s: the images read
\* in this walk, and the errors since the program was started.
CountsAgree ==
  Walking => processed + errorcount = Cardinality(finished) + carried

\* When the report is printed, as many images are out as were analyzed to the
\* end, and those that are in but not out are the ones whose analysis returned
\* early or failed, because of the image or because of the host.
ReportAddsUp ==
  Walking /\ WorkersDone =>
    /\ outdisk = Cardinality(finished \cap (Good \ Stopped))
    /\ indisk >= outdisk + Cardinality(finished \cap (Partial \cup Stopped))
    /\ indisk <= Cardinality(finished \ Unreadable)

\* A fingerprint file is torn only while it is written, or when its last write
\* was cut short, by the end of the program or by the host; after a walk every
\* image analyzed to the end has one, if the host did not refuse it.
FingerprintsAreWhole ==
  /\ \A i \in Images :
       /\ index[i] = "torn" => i \in cut \/ \E w \in Ids : At(w, "encode") /\ Image(w) = i
       /\ i \in cut => index[i] = "torn"
  /\ Walking /\ WorkersDone => \A i \in finished \cap Good : index[i] # "none" \/ i \in refused

\* Every ingest ends, with a report, unless the program does.
IngestEnds == Walking \/ main = "single" ~> main \in {"prompt"} \cup Ended
==============================================================================
