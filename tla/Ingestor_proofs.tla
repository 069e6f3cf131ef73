---------------------------- MODULE Ingestor_proofs ----------------------------
(***************************************************************************)
(* Proofs about the ingestor, for every directory, every number of workers *)
(* and every channel capacity: its type invariant, that no image is        *)
(* analyzed twice, that the counts agree, that fingerprints are whole.     *)
(***************************************************************************)
EXTENDS Ingestor, FiniteSetTheorems, TLAPS

Logging   == {"get", "make", "find", "new", "store"}
Analyzing == {"load", "analyze", "create", "encode", "out", "count", "failed"}

\* A goroutine that reads or writes the map of loggers finds it made.
Mapped == \A w \in Ids : At(w, "find") \/ At(w, "new") \/ At(w, "store") => loggers # Nil

\* An image is in the hands of the goroutines that analyze, and of those that
\* get a logger for it.
Hands ==
  \A w \in Ids :
    /\ At(w, "idle") \/ At(w, "done") => Image(w) = NoImage
    /\ worker[w].at \in Logging => (worker[w].then = "idle" <=> Image(w) = NoImage)
    /\ worker[w].at \in Analyzing => Image(w) # NoImage

\* Outside a walk the channel is empty and the workers have no image; in a
\* walk the main goroutine has none.
Quiet ==
  /\ ~Walking => incoming = <<>> /\ \A w \in Workers : Image(w) = NoImage
  /\ Walking \/ main = "prompt" => Image(Main) = NoImage
  /\ main \in Ended => \A w \in Ids : At(w, "idle")
  /\ Walking /\ (\E w \in Workers : At(w, "done")) => main = "waiting" /\ incoming = <<>>

Shape == TypeOK /\ Mapped /\ Hands /\ Quiet

------------------------------------------------------------------------------
(***************************************************************************)
(* The shape of the states.                                                *)
(***************************************************************************)
LEMMA InitShape == Init => Shape
<1> SUFFICES ASSUME Init PROVE Shape
  OBVIOUS
<1> USE ImagesAssumption, WorkersAssumption, BoundsAssumption, NilAssumption DEF Init
<1>1. TypeOK
  BY DEF TypeOK, Ended, Worker, Resting, Places
<1>2. Mapped
  BY DEF Mapped, At, Resting
<1>3. Hands
  BY DEF Hands, At, Image, Resting, Logging, Analyzing
<1>4. Quiet
  BY DEF Quiet, Walking, Ended, Image, Resting, At, Ids
<1> QED
  BY <1>1, <1>2, <1>3, <1>4 DEF Shape

\* Steps of the main goroutine outside loggy and analyze.
MainAction ==
  \/ Walk \/ VisitError \/ Close \/ Report \/ OneDone
  \/ \E i \in Images : IngestOne(i) \/ Visit(i)

\* Steps that leave the images in the hands of the goroutines they are in.
QuietStep(w) ==
  \/ LoggerStep(w) \/ LoadFails(w) \/ Load(w) \/ Panic(w) \/ ReturnEarly(w)
  \/ Analyze(w) \/ Create(w) \/ CreateFails(w) \/ Encode(w) \/ EncodeFails(w) \/ Out(w)

\* The program ends.
Ending == \E how \in Ended : End(how)

LEMMA NextCases ==
  ASSUME Next
  PROVE \/ MainAction
        \/ Ending \/ Restart
        \/ \E w \in Ids : QuietStep(w) \/ Take(w) \/ Exit(w) \/ Count(w) \/ Fail(w)
<1>1. (Kill \/ FatalRace \/ DivideByZero) => Ending
  BY DEF Kill, FatalRace, DivideByZero, Ending, Ended
<1>2. MainStep => MainAction \/ DivideByZero
  BY DEF MainStep, MainAction
<1>3. \A w \in Ids : WorkerStep(w) =>
        QuietStep(w) \/ Take(w) \/ Exit(w) \/ Count(w) \/ Fail(w)
  BY DEF WorkerStep, AnalyzeStep, QuietStep
<1> QED
  BY <1>1, <1>2, <1>3 DEF Next, MainAction

\* A goroutine moves, and no other does.
LEMMA Moved ==
  ASSUME TypeOK, NEW w \in Ids, NEW place, Goto(w, place)
  PROVE /\ worker'[w].at = place
        /\ worker'[w].image = worker[w].image
        /\ worker'[w].then = worker[w].then
        /\ \A v \in Ids : v # w => worker'[v] = worker[v]
BY DEF Goto, TypeOK, Worker

\* The steps of analyze that need no logger.
Computes(w) ==
  \/ LoadFails(w) \/ Load(w) \/ Panic(w) \/ ReturnEarly(w)
  \/ Create(w) \/ CreateFails(w) \/ Encode(w) \/ EncodeFails(w) \/ Out(w)

LEMMA ComputesMoves ==
  ASSUME TypeOK, NEW w \in Ids, Computes(w)
  PROVE /\ worker[w].at \in Analyzing
        /\ worker'[w].at \in Analyzing
        /\ worker'[w].image = worker[w].image
        /\ \A v \in Ids : v # w => worker'[v] = worker[v]
        /\ UNCHANGED <<main, unread, incoming, loggers, processed, errorcount, force>>
        /\ UNCHANGED <<ingests, finished, carried>>
<1> USE DEF Analyzing, At, counts, history
<1>1. CASE LoadFails(w)
  BY <1>1, Moved DEF LoadFails
<1>2. CASE Load(w)
  BY <1>2, Moved DEF Load
<1>3. CASE Panic(w)
  BY <1>3, Moved DEF Panic
<1>4. CASE ReturnEarly(w)
  BY <1>4, Moved DEF ReturnEarly
<1>5. CASE Create(w)
  BY <1>5, Moved DEF Create
<1>6. CASE Encode(w)
  BY <1>6, Moved DEF Encode
<1>7. CASE Out(w)
  BY <1>7, Moved DEF Out
<1>8. CASE CreateFails(w)
  BY <1>8, Moved DEF CreateFails
<1>9. CASE EncodeFails(w)
  BY <1>9, Moved DEF EncodeFails
<1> QED
  BY <1>1, <1>2, <1>3, <1>4, <1>5, <1>6, <1>7, <1>8, <1>9 DEF Computes

\* A goroutine that drops its image.
LEMMA Rested ==
  ASSUME TypeOK, NEW w \in Ids, Count(w) \/ Fail(w)
  PROVE /\ worker[w].at \in Analyzing
        /\ worker'[w] = Resting
        /\ \A v \in Ids : v # w => worker'[v] = worker[v]
        /\ finished' = finished \cup {Image(w)}
        /\ UNCHANGED <<main, unread, incoming, loggers, index, force, carried, cut, refused>>
BY DEF Count, Fail, Rest, TypeOK, At, Analyzing

\* Looking up or making a logger.
Looks(w) == GetNil(w) \/ MakeMap(w) \/ Find(w) \/ NewLogger(w) \/ Store(w)

LEMMA LooksMoves ==
  ASSUME TypeOK, NEW w \in Ids, Looks(w)
  PROVE /\ worker[w].at \in Logging
        /\ worker'[w].at \in Logging \cup {worker[w].then}
        /\ worker'[w].at \in {"find", "new", "store"} => loggers' # Nil \/ ~Mapped
        /\ worker'[w].image = worker[w].image
        /\ worker'[w].then = worker[w].then
        /\ \A v \in Ids : v # w => worker'[v] = worker[v]
        /\ loggers # Nil => loggers' # Nil
        /\ UNCHANGED <<main, unread, incoming, counts, index, force, history>>
<1> USE DEF Logging, At
<1>1. CASE GetNil(w)
  BY <1>1, Moved DEF GetNil
<1>2. CASE MakeMap(w)
  <2>1. loggers' # Nil
    BY <1>2, NilAssumption DEF MakeMap
  <2> QED
    BY <1>2, <2>1, Moved DEF MakeMap
<1>3. CASE Find(w)
  BY <1>3, Moved DEF Find, Mapped
<1>4. CASE NewLogger(w)
  BY <1>4, Moved DEF NewLogger, Mapped
<1>5. CASE Store(w)
  <2>1. loggers # Nil => loggers' \in SUBSET Ids
    BY <1>5 DEF Store, LoggerOf, Ids, TypeOK
  <2>2. loggers # Nil => loggers' # Nil
    BY <2>1, NilAssumption
  <2> QED
    BY <1>5, <2>2, Moved DEF Store, Mapped
<1> QED
  BY <1>1, <1>2, <1>3, <1>4, <1>5 DEF Looks

\* What analyze does when it comes to the fingerprint.
LEMMA AnalyzeMoves ==
  ASSUME TypeOK, NEW w \in Ids, Analyze(w)
  PROVE /\ At(w, "analyze")
        /\ worker'[w].image = worker[w].image
        /\ \/ worker'[w].at = "out"
           \/ worker'[w].at = "get" /\ worker'[w].then = "create"
        /\ \A v \in Ids : v # w => worker'[v] = worker[v]
        /\ UNCHANGED <<main, unread, incoming, loggers, counts, index, force, history>>
BY DEF Analyze, TypeOK, GetLogger, At, Image, Worker

LEMMA QuietSteps ==
  ASSUME NEW w
  PROVE QuietStep(w) <=> Looks(w) \/ Computes(w) \/ Analyze(w)
BY DEF QuietStep, LoggerStep, Looks, Computes

LEMMA TypedNext ==
  ASSUME Shape, [Next]_vars
  PROVE TypeOK'
<1> USE ImagesAssumption, WorkersAssumption, BoundsAssumption, NilAssumption DEF Shape
<1>1. CASE UNCHANGED vars
  BY <1>1 DEF TypeOK, vars, counts, history
<1>2. CASE MainAction
  <2>1. CASE Walk
    BY <2>1 DEF TypeOK, Walk, Begin, Worker, Places, GetLogger, Resting, Ended
  <2>2. CASE VisitError
    BY <2>2 DEF TypeOK, VisitError, Worker, Places, GetLogger, counts, history, Ids
  <2>3. CASE Close
    BY <2>3 DEF TypeOK, Close, counts, history
  <2>4. CASE Report
    BY <2>4 DEF TypeOK, Report, counts, history
  <2>5. CASE OneDone
    BY <2>5 DEF TypeOK, OneDone, counts, history
  <2>6. ASSUME NEW i \in Images, IngestOne(i) PROVE TypeOK'
    BY <2>6 DEF TypeOK, IngestOne, Begin, Worker, Places, GetLogger, Ids
  <2>7. ASSUME NEW i \in Images, Visit(i) PROVE TypeOK'
    BY <2>7 DEF TypeOK, Visit, counts, history
  <2> QED
    BY <1>2, <2>1, <2>2, <2>3, <2>4, <2>5, <2>6, <2>7 DEF MainAction
<1>3. CASE Ending
  BY <1>3 DEF TypeOK, Ending, End, Ended, Worker, Places, Resting, Hands, Image,
              Analyzing, At, counts
<1>4. CASE Restart
  BY <1>4 DEF TypeOK, Restart, Ended
<1>5. ASSUME NEW w \in Ids, QuietStep(w) PROVE TypeOK'
  <2> USE DEF TypeOK, Goto, Worker, Places, counts, history
  <2>1. CASE LoggerStep(w)
    <3>1. CASE Store(w)
      BY <3>1 DEF Store, Mapped, At, LoggerOf, Ids
    <3>2. CASE GetNil(w) \/ MakeMap(w) \/ Find(w) \/ NewLogger(w)
      BY <3>2 DEF GetNil, MakeMap, Find, NewLogger, At
    <3> QED
      BY <2>1, <3>1, <3>2 DEF LoggerStep
  <2>2. CASE LoadFails(w) \/ Load(w) \/ Panic(w) \/ ReturnEarly(w)
    <3>1. CASE Load(w)
      <4>1. indisk' \in Nat /\ UNCHANGED <<main, unread, incoming, loggers, processed,
                 errorcount, outdisk, index, force, history>>
        BY <3>1 DEF Load
      <4>2. worker' \in [Ids -> Worker]
        BY <3>1 DEF Load
      <4> QED
        BY <4>1, <4>2
    <3>2. CASE LoadFails(w) \/ Panic(w) \/ ReturnEarly(w)
      <4>1. worker' \in [Ids -> Worker]
        BY <3>2 DEF LoadFails, Panic, ReturnEarly
      <4> QED
        BY <3>2, <4>1 DEF LoadFails, Panic, ReturnEarly
    <3> QED
      BY <2>2, <3>1, <3>2
  <2>3. CASE Analyze(w)
    <3>1. Image(w) \in Images
      BY <2>3 DEF Analyze, Good
    <3>2. worker' \in [Ids -> Worker]
      BY <2>3, <3>1 DEF Analyze, GetLogger
    <3> QED
      BY <2>3, <3>2 DEF Analyze
  <2>4. CASE Create(w) \/ CreateFails(w) \/ Encode(w) \/ EncodeFails(w) \/ Out(w)
    <3>1. CASE Create(w) \/ CreateFails(w) \/ Encode(w) \/ EncodeFails(w)
      <4>0. Image(w) \in Images
        BY <3>1 DEF Create, CreateFails, Encode, EncodeFails, Hands, Analyzing, At, Image
      <4>1. index' \in [Images -> {"none", "torn", "whole"}]
        BY <3>1 DEF Create, CreateFails, Encode, EncodeFails
      <4>2. worker' \in [Ids -> Worker]
        BY <3>1 DEF Create, CreateFails, Encode, EncodeFails
      <4>3. cut' \subseteq Images /\ refused' \subseteq Images
        BY <3>1, <4>0 DEF Create, CreateFails, Encode, EncodeFails
      <4>4. UNCHANGED <<main, unread, incoming, loggers, counts, force, ingests, finished, carried>>
        BY <3>1 DEF Create, CreateFails, Encode, EncodeFails
      <4> QED
        BY <4>1, <4>2, <4>3, <4>4
    <3>2. CASE Out(w)
      <4>1. outdisk' \in Nat /\ UNCHANGED <<main, unread, incoming, loggers, processed,
                 errorcount, indisk, index, force, history>>
        BY <3>2 DEF Out
      <4>2. worker' \in [Ids -> Worker]
        BY <3>2 DEF Out
      <4> QED
        BY <4>1, <4>2
    <3> QED
      BY <2>4, <3>1, <3>2
  <2> QED
    BY <1>5, <2>1, <2>2, <2>3, <2>4 DEF QuietStep
<1>6. ASSUME NEW w \in Ids, Take(w) PROVE TypeOK'
  <2>1. Head(incoming) \in Images /\ Tail(incoming) \in Seq(Images)
        /\ Len(Tail(incoming)) <= Cap
    BY <1>6 DEF Take, TypeOK
  <2> QED
    BY <1>6, <2>1 DEF TypeOK, Take, Worker, Places, GetLogger, counts, history
<1>7. ASSUME NEW w \in Ids, Exit(w) PROVE TypeOK'
  BY <1>7 DEF TypeOK, Exit, Goto, Worker, Places, counts, history
<1>8. ASSUME NEW w \in Ids, Count(w) \/ Fail(w) PROVE TypeOK'
  <2>1. Image(w) \in Images
    BY <1>8 DEF Count, Fail, Hands, At, Analyzing, TypeOK, Worker, Image
  <2>2. worker' \in [Ids -> Worker]
    BY <1>8 DEF TypeOK, Count, Fail, Rest, Resting, Worker, Places
  <2>3. processed' \in Nat /\ errorcount' \in Nat
    BY <1>8 DEF TypeOK, Count, Fail
  <2>4. finished' \subseteq Images
    BY <1>8, <2>1 DEF TypeOK, Count, Fail, Rest
  <2>5. UNCHANGED <<main, unread, incoming, loggers, indisk, outdisk, index, force,
                    ingests, carried, cut, refused>>
    BY <1>8 DEF Count, Fail, Rest
  <2> QED
    BY <2>2, <2>3, <2>4, <2>5 DEF TypeOK
<1> QED
  BY <1>1, <1>2, <1>3, <1>4, <1>5, <1>6, <1>7, <1>8, NextCases

LEMMA MappedNext ==
  ASSUME Shape, [Next]_vars
  PROVE Mapped'
<1> USE ImagesAssumption, WorkersAssumption, NilAssumption DEF Shape
<1> USE DEF Mapped, At, Goto
<1>1. CASE UNCHANGED vars
  BY <1>1 DEF vars
<1>2. CASE MainAction
  <2>1. CASE Walk
    BY <2>1 DEF Walk, Begin, GetLogger, Resting
  <2>2. CASE VisitError \/ \E i \in Images : IngestOne(i)
    BY <2>2 DEF VisitError, IngestOne, Begin, GetLogger, TypeOK
  <2>3. CASE Close \/ Report \/ OneDone \/ \E i \in Images : Visit(i)
    BY <2>3 DEF Close, Report, OneDone, Visit
  <2> QED
    BY <1>2, <2>1, <2>2, <2>3 DEF MainAction
<1>3. CASE Ending
  BY <1>3 DEF Ending, End, Resting
<1>4. CASE Restart
  BY <1>4 DEF Restart, Quiet
<1>5. ASSUME NEW w \in Ids, QuietStep(w) PROVE Mapped'
  <2>1. CASE Looks(w)
    BY <2>1, LooksMoves
  <2>2. CASE Computes(w)
    BY <2>2, ComputesMoves DEF Analyzing
  <2>3. CASE Analyze(w)
    BY <2>3, AnalyzeMoves
  <2> QED
    BY <1>5, <2>1, <2>2, <2>3, QuietSteps
<1>6. ASSUME NEW w \in Ids, Take(w) PROVE Mapped'
  BY <1>6 DEF Take, GetLogger, TypeOK
<1>7. ASSUME NEW w \in Ids, Exit(w) PROVE Mapped'
  BY <1>7, Moved DEF Exit
<1>8. ASSUME NEW w \in Ids, Count(w) \/ Fail(w) PROVE Mapped'
  BY <1>8, Rested DEF Resting
<1> QED
  BY <1>1, <1>2, <1>3, <1>4, <1>5, <1>6, <1>7, <1>8, NextCases

LEMMA HandsNext ==
  ASSUME Shape, [Next]_vars
  PROVE Hands'
<1> USE ImagesAssumption, WorkersAssumption DEF Shape
<1> USE DEF Hands, At, Goto, Image, Logging, Analyzing
<1>1. CASE UNCHANGED vars
  BY <1>1 DEF vars
<1>2. CASE MainAction
  <2>1. CASE Walk
    BY <2>1 DEF Walk, Begin, GetLogger, Resting
  <2>2. CASE VisitError \/ \E i \in Images : IngestOne(i)
    BY <2>2 DEF VisitError, IngestOne, Begin, GetLogger, TypeOK
  <2>3. CASE Close \/ Report \/ OneDone \/ \E i \in Images : Visit(i)
    BY <2>3 DEF Close, Report, OneDone, Visit
  <2> QED
    BY <1>2, <2>1, <2>2, <2>3 DEF MainAction
<1>3. CASE Ending
  BY <1>3 DEF Ending, End, Resting
<1>4. CASE Restart
  BY <1>4 DEF Restart
<1>5. ASSUME NEW w \in Ids, QuietStep(w) PROVE Hands'
  <2>1. CASE Looks(w)
    <3>1. worker[w].then \in {"idle", "load", "create"}
      BY DEF TypeOK, Worker
    <3> QED
      BY <2>1, <3>1, LooksMoves
  <2>2. CASE Computes(w)
    BY <2>2, ComputesMoves
  <2>3. CASE Analyze(w)
    BY <2>3, AnalyzeMoves
  <2> QED
    BY <1>5, <2>1, <2>2, <2>3, QuietSteps
<1>6. ASSUME NEW w \in Ids, Take(w) PROVE Hands'
  <2>1. Head(incoming) \in Images
    BY <1>6 DEF Take, TypeOK
  <2> QED
    BY <1>6, <2>1 DEF Take, GetLogger, TypeOK
<1>7. ASSUME NEW w \in Ids, Exit(w) PROVE Hands'
  BY <1>7, Moved DEF Exit
<1>8. ASSUME NEW w \in Ids, Count(w) \/ Fail(w) PROVE Hands'
  BY <1>8, Rested DEF Resting
<1> QED
  BY <1>1, <1>2, <1>3, <1>4, <1>5, <1>6, <1>7, <1>8, NextCases

\* What a quiet step leaves alone.
LEMMA QuietStepKeeps ==
  ASSUME Shape, NEW w \in Ids, QuietStep(w)
  PROVE /\ UNCHANGED <<main, unread, incoming, processed, errorcount, force>>
        /\ UNCHANGED <<ingests, finished, carried>>
        /\ \A v \in Ids : Image(v)' = Image(v)
        /\ \A v \in Ids : v # w => worker'[v] = worker[v]
        /\ worker[w].at \in Logging \cup Analyzing
        /\ worker'[w].at # "done"
<1> USE DEF Shape, Image, Logging, Analyzing, At, history
<1>1. CASE Looks(w)
  <2>1. worker[w].then \in {"idle", "load", "create"}
    BY DEF TypeOK, Worker
  <2> QED
    BY <1>1, <2>1, LooksMoves DEF counts
<1>2. CASE Computes(w)
  BY <1>2, ComputesMoves
<1>3. CASE Analyze(w)
  BY <1>3, AnalyzeMoves DEF counts
<1> QED
  BY <1>1, <1>2, <1>3, QuietSteps

LEMMA QuietNext ==
  ASSUME Shape, [Next]_vars
  PROVE Quiet'
<1> USE ImagesAssumption, WorkersAssumption DEF Shape
<1> USE DEF Quiet, Walking, Ended, Ids
<1>1. CASE UNCHANGED vars
  BY <1>1 DEF vars, At, Image
<1>2. CASE MainAction
  <2> USE DEF TypeOK, At, Image
  <2>1. CASE Walk
    BY <2>1 DEF Walk, Begin, GetLogger, Resting
  <2>2. CASE VisitError
    BY <2>2 DEF VisitError, GetLogger
  <2>3. CASE Close
    BY <2>3 DEF Close
  <2>4. CASE Report
    <3>1. PICK w \in Workers : At(w, "done")
      BY <2>4 DEF Report, WorkersDone
    <3> QED
      BY <2>4, <3>1 DEF Report, WorkersDone, Hands
  <2>5. CASE OneDone
    BY <2>5 DEF OneDone, Hands
  <2>6. ASSUME NEW i \in Images, IngestOne(i) PROVE Quiet'
    BY <2>6 DEF IngestOne, Begin, GetLogger
  <2>7. ASSUME NEW i \in Images, Visit(i) PROVE Quiet'
    BY <2>7 DEF Visit
  <2> QED
    BY <1>2, <2>1, <2>2, <2>3, <2>4, <2>5, <2>6, <2>7 DEF MainAction
<1>3. CASE Ending
  BY <1>3 DEF Ending, End, Resting, At, Image
<1>4. CASE Restart
  BY <1>4 DEF Restart, At, Image, Hands
<1>5. ASSUME NEW w \in Ids, QuietStep(w) PROVE Quiet'
  <2>1. worker[w].at \in Logging \cup Analyzing /\ worker'[w].at # "done"
        /\ UNCHANGED <<main, incoming>>
    BY <1>5, QuietStepKeeps
  <2>2. (\A v \in Ids : Image(v)' = Image(v)) /\ \A v \in Ids : v # w => worker'[v] = worker[v]
    BY <1>5, QuietStepKeeps
  <2>3. main \notin Ended
    BY <2>1 DEF At, Logging, Analyzing
  <2>4. \A v \in Workers : At(v, "done")' => At(v, "done")
    BY <2>1, <2>2 DEF At
  <2> QED
    BY <2>1, <2>2, <2>3, <2>4
<1>6. ASSUME NEW w \in Ids, Take(w) PROVE Quiet'
  BY <1>6 DEF Take, GetLogger, TypeOK, At, Image
<1>7. ASSUME NEW w \in Ids, Exit(w) PROVE Quiet'
  BY <1>7 DEF Exit, Goto, TypeOK, At, Image
<1>8. ASSUME NEW w \in Ids, Count(w) \/ Fail(w) PROVE Quiet'
  BY <1>8 DEF Count, Fail, Rest, Resting, TypeOK, At, Image, Hands
<1> QED
  BY <1>1, <1>2, <1>3, <1>4, <1>5, <1>6, <1>7, <1>8, NextCases

LEMMA ShapeAlways == Spec => []Shape
<1>1. Init => Shape
  BY InitShape
<1>2. Shape /\ [Next]_vars => Shape'
  BY TypedNext, MappedNext, HandsNext, QuietNext DEF Shape
<1> QED
  BY <1>1, <1>2, PTL DEF Spec

\* The states of the ingestor are well typed: the channel never holds more
\* than its capacity, and no goroutine uses the loggers before the map is made.
THEOREM IngestorTyped == Spec => []TypeOK
<1>1. Shape => TypeOK
  BY DEF Shape
<1> QED
  BY <1>1, ShapeAlways, PTL

------------------------------------------------------------------------------
(***************************************************************************)
(* No image is analyzed twice.                                             *)
(***************************************************************************)
\* Only Walk begins a walk.
LEMMA WalkingBefore ==
  ASSUME Next, Walking', ~Walk
  PROVE Walking
<1>1. CASE MainAction
  BY <1>1 DEF MainAction, VisitError, Close, Report, OneDone, IngestOne, Begin, Visit, Walking
<1>2. CASE Ending \/ Restart
  BY <1>2 DEF Ending, End, Restart, Walking, Ended
<1>3. ASSUME NEW w \in Ids, LoggerStep(w) \/ AnalyzeStep(w) \/ Take(w) \/ Exit(w)
      PROVE Walking
  <2>1. main' = main
    BY <1>3 DEF LoggerStep, GetNil, MakeMap, Find, NewLogger, Store, AnalyzeStep, LoadFails,
                Load, Panic, ReturnEarly, Analyze, Create, CreateFails, Encode, EncodeFails,
                Out, Count, Fail, Rest, Take, Exit
  <2> QED
    BY <2>1 DEF Walking
<1> QED
  BY <1>1, <1>2, <1>3, NextCases DEF QuietStep, AnalyzeStep

LEMMA OnceNext ==
  ASSUME Shape, EachImageOnce, [Next]_vars
  PROVE EachImageOnce'
<1> USE ImagesAssumption, WorkersAssumption DEF Shape
<1>1. CASE UNCHANGED vars
  BY <1>1 DEF EachImageOnce, vars, history, Walking, Image
<1>2. CASE Walk
  <2>1. incoming' = <<>> /\ unread' = Images /\ finished' = {}
    BY <1>2 DEF Walk, Begin, Quiet, Walking
  <2>2. \A w \in Ids : Image(w)' = NoImage
    BY <1>2 DEF Walk, GetLogger, Resting, Image
  <2> QED
    BY <2>1, <2>2 DEF EachImageOnce
<1>3. ASSUME Next, ~Walk, Walking' PROVE EachImageOnce'
  <2>0. Walking
    BY <1>3, WalkingBefore
  <2>1. CASE MainAction
    <3>1. CASE VisitError
      <4>1. \A w \in Ids : Image(w)' = Image(w)
        BY <3>1, <2>0 DEF VisitError, Image, TypeOK, GetLogger, Quiet
      <4> QED
        BY <3>1, <4>1, <2>0 DEF VisitError, EachImageOnce, history
    <3>2. CASE Close
      BY <3>2, <2>0 DEF Close, EachImageOnce, history, Image
    <3>3. CASE Report \/ OneDone
      BY <3>3, <1>3 DEF Report, OneDone, Walking
    <3>4. ASSUME NEW i \in Images, IngestOne(i) PROVE FALSE
      BY <3>4, <1>3 DEF IngestOne, Walking
    <3>5. ASSUME NEW i \in Images, Visit(i) PROVE EachImageOnce'
      <4>1. /\ i \in unread /\ unread' = unread \ {i}
            /\ incoming' = Append(incoming, i)
            /\ incoming \in Seq(Images)
            /\ finished' = finished
        BY <3>5 DEF Visit, TypeOK, history
      <4>2. \A w \in Ids : Image(w)' = Image(w) /\ Image(w) # i
        BY <3>5, <2>0, <4>1 DEF Visit, Image, EachImageOnce
      <4>3. \A k \in 1 .. Len(incoming') :
              incoming'[k] = IF k = Len(incoming) + 1 THEN i ELSE incoming[k]
        BY <4>1
      <4>4. Len(incoming') = Len(incoming) + 1 /\ Len(incoming) \in Nat
        BY <4>1
      <4>5. \A k \in 1 .. Len(incoming) : incoming[k] # i
        BY <4>1, <2>0 DEF EachImageOnce
      <4>6. ASSUME NEW k \in 1 .. Len(incoming')
            PROVE /\ incoming'[k] \notin unread' \cup finished'
                  /\ \A j \in 1 .. k - 1 : incoming'[j] # incoming'[k]
                  /\ \A w \in Ids : Image(w)' # incoming'[k]
        <5>1. CASE k = Len(incoming) + 1
          BY <5>1, <4>1, <4>2, <4>3, <4>4, <4>5, <2>0 DEF EachImageOnce
        <5>2. CASE k \in 1 .. Len(incoming)
          BY <5>2, <4>1, <4>2, <4>3, <4>4, <4>5, <2>0 DEF EachImageOnce
        <5> QED
          BY <5>1, <5>2, <4>4
      <4> QED
        BY <4>1, <4>2, <4>6, <2>0 DEF EachImageOnce
    <3> QED
      BY <2>1, <1>3, <3>1, <3>2, <3>3, <3>4, <3>5 DEF MainAction
  <2>2. CASE Ending \/ Restart
    BY <2>2, <1>3 DEF Ending, End, Restart, Walking, Ended
  <2>3. ASSUME NEW w \in Ids, QuietStep(w) PROVE EachImageOnce'
    <3>1. UNCHANGED <<unread, incoming, finished>> /\ \A v \in Ids : Image(v)' = Image(v)
      BY <2>3, QuietStepKeeps DEF history
    <3> QED
      BY <3>1, <2>0 DEF EachImageOnce
  <2>4. ASSUME NEW w \in Ids, Take(w) PROVE EachImageOnce'
    <3>1. /\ incoming \in Seq(Images) /\ incoming # <<>>
          /\ incoming' = Tail(incoming)
          /\ UNCHANGED <<unread, finished>>
      BY <2>4 DEF Take, TypeOK, history
    <3>2. /\ Len(incoming) \in Nat \ {0} /\ Len(incoming') = Len(incoming) - 1
          /\ \A k \in 1 .. Len(incoming') : incoming'[k] = incoming[k + 1]
          /\ Head(incoming) = incoming[1] /\ incoming[1] \in Images
      BY <3>1
    <3>3. Image(w)' = incoming[1] /\ \A v \in Ids : v # w => Image(v)' = Image(v)
      BY <2>4, <3>2 DEF Take, GetLogger, Image, TypeOK
    <3>4. \A k \in 2 .. Len(incoming) : incoming[k] # incoming[1]
      BY <3>2, <2>0 DEF EachImageOnce
    <3>5. ASSUME NEW k \in 1 .. Len(incoming')
          PROVE /\ incoming'[k] \notin unread' \cup finished'
                /\ \A j \in 1 .. k - 1 : incoming'[j] # incoming'[k]
                /\ \A v \in Ids : Image(v)' # incoming'[k]
      <4>1. k + 1 \in 2 .. Len(incoming) /\ incoming'[k] = incoming[k + 1]
        BY <3>2
      <4>2. incoming[k + 1] # incoming[1]
        BY <4>1, <3>4
      <4>3. \A j \in 1 .. k - 1 : incoming'[j] = incoming[j + 1] /\ j + 1 \in 1 .. (k + 1) - 1
        BY <3>2
      <4> QED
        BY <4>1, <4>2, <4>3, <3>1, <3>2, <3>3, <2>0 DEF EachImageOnce
    <3>6. /\ incoming[1] \notin unread \cup finished
          /\ \A v \in Ids : Image(v) # incoming[1]
      BY <3>2, <2>0 DEF EachImageOnce
    <3> QED
      BY <3>1, <3>3, <3>5, <3>6, <2>0 DEF EachImageOnce
  <2>5. ASSUME NEW w \in Ids, Exit(w) PROVE EachImageOnce'
    <3>1. \A v \in Ids : Image(v)' = Image(v)
      BY <2>5, Moved DEF Exit, Image
    <3> QED
      BY <2>5, <3>1, <2>0 DEF Exit, EachImageOnce, history
  <2>6. ASSUME NEW w \in Ids, Count(w) \/ Fail(w) PROVE EachImageOnce'
    <3>1. /\ Image(w)' = NoImage /\ Image(w) # NoImage
          /\ \A v \in Ids : v # w => Image(v)' = Image(v)
          /\ finished' = finished \cup {Image(w)}
          /\ UNCHANGED <<unread, incoming>>
      BY <2>6, Rested DEF Image, Resting, Hands
    <3>2. \A v \in Ids : v # w => Image(v) # Image(w)
      BY <3>1, <2>0 DEF EachImageOnce
    <3>3. /\ Image(w) \notin unread \cup finished
          /\ \A k \in 1 .. Len(incoming) : incoming[k] # Image(w)
      BY <2>0 DEF EachImageOnce
    <3>4. \A k \in 1 .. Len(incoming) : incoming[k] # NoImage
      BY DEF TypeOK
    <3>5. \A v \in Ids : Image(v)' \notin unread' \cup finished'
      BY <3>1, <3>2, <2>0 DEF EachImageOnce, TypeOK
    <3>6. \A k \in 1 .. Len(incoming') :
            /\ incoming'[k] \notin unread' \cup finished'
            /\ \A j \in 1 .. k - 1 : incoming'[j] # incoming'[k]
            /\ \A v \in Ids : Image(v)' # incoming'[k]
      BY <3>1, <3>3, <3>4, <2>0 DEF EachImageOnce
    <3> QED
      BY <3>1, <3>2, <3>3, <3>5, <3>6, <2>0 DEF EachImageOnce
  <2> QED
    BY <1>3, <2>1, <2>2, <2>3, <2>4, <2>5, <2>6, NextCases
<1> QED
  BY <1>1, <1>2, <1>3 DEF EachImageOnce

\* In every walk, whatever the workers do and in whatever order, the images
\* not visited yet, queued, in the hands of a worker and finished are
\* different images: none is analyzed twice.
THEOREM ImagesAreAnalyzedOnce == Spec => []EachImageOnce
<1>1. Init => EachImageOnce
  BY DEF Init, EachImageOnce, Walking
<1>2. Shape /\ EachImageOnce /\ [Next]_vars => EachImageOnce'
  BY OnceNext
<1> QED
  BY <1>1, <1>2, ShapeAlways, PTL DEF Spec

------------------------------------------------------------------------------
(***************************************************************************)
(* No image is lost.                                                       *)
(***************************************************************************)
\* Where an image of a walk is.
Queued(i) == \E k \in 1 .. Len(incoming) : incoming[k] = i
Held(i)   == \E w \in Ids : Image(w) = i
Kept(i)   == i \in unread \cup finished \/ Queued(i) \/ Held(i)

LEMMA KeptByMain ==
  ASSUME Shape, NoImageIsLost, MainAction, ~Walk, Walking, Walking'
  PROVE NoImageIsLost'
<1> USE DEF Shape
<1>0. \A i \in Images : Kept(i)
  BY DEF NoImageIsLost, Kept, Queued, Held
<1>1. CASE VisitError
  <2>1. \A w \in Ids : Image(w)' = Image(w)
    BY <1>1 DEF VisitError, Image, TypeOK, GetLogger, Quiet
  <2> QED
    BY <1>0, <1>1, <2>1 DEF VisitError, NoImageIsLost, Kept, Queued, Held, history
<1>2. CASE Close
  BY <1>0, <1>2 DEF Close, NoImageIsLost, Kept, Queued, Held, history, Image
<1>3. CASE Report \/ OneDone \/ \E i \in Images : IngestOne(i)
  BY <1>3 DEF Report, OneDone, IngestOne, Walking
<1>4. ASSUME NEW j \in Images, Visit(j) PROVE NoImageIsLost'
  <2>1. /\ unread' = unread \ {j} /\ finished' = finished
        /\ incoming \in Seq(Images) /\ incoming' = Append(incoming, j)
        /\ \A w \in Ids : Image(w)' = Image(w)
    BY <1>4 DEF Visit, TypeOK, history, Image
  <2>2. /\ Len(incoming') = Len(incoming) + 1 /\ Len(incoming) \in Nat
        /\ incoming'[Len(incoming) + 1] = j
        /\ \A k \in 1 .. Len(incoming) : incoming'[k] = incoming[k]
    BY <2>1
  <2>3. ASSUME NEW i \in Images
        PROVE i \in unread' \cup finished' \/ Queued(i)' \/ Held(i)'
    <3>1. CASE i = j
      <4>1. Len(incoming) + 1 \in 1 .. Len(incoming')
        BY <2>2
      <4> QED
        BY <3>1, <4>1, <2>2 DEF Queued
    <3>2. CASE i # j /\ i \in unread \cup finished
      BY <3>2, <2>1
    <3>3. CASE Queued(i)
      BY <3>3, <2>2 DEF Queued
    <3>4. CASE Held(i)
      BY <3>4, <2>1 DEF Held
    <3> QED
      BY <1>0, <3>1, <3>2, <3>3, <3>4 DEF Kept
  <2> QED
    BY <2>3 DEF NoImageIsLost, Queued, Held
<1> QED
  BY <1>1, <1>2, <1>3, <1>4 DEF MainAction

LEMMA KeptByTake ==
  ASSUME Shape, NoImageIsLost, Walking, NEW w \in Ids, Take(w)
  PROVE NoImageIsLost'
<1> USE DEF Shape
<1>1. /\ incoming \in Seq(Images) /\ incoming # <<>>
      /\ incoming' = Tail(incoming)
      /\ UNCHANGED <<unread, finished>>
  BY DEF Take, TypeOK, history
<1>2. /\ Len(incoming) \in Nat \ {0} /\ Len(incoming') = Len(incoming) - 1
      /\ \A k \in 1 .. Len(incoming') : incoming'[k] = incoming[k + 1]
      /\ Head(incoming) = incoming[1]
  BY <1>1
<1>3. Image(w)' = incoming[1] /\ Image(w) = NoImage
  BY <1>2 DEF Take, GetLogger, Image, TypeOK, Hands
<1>4. \A v \in Ids : v # w => Image(v)' = Image(v)
  BY DEF Take, Image, TypeOK
<1>5. ASSUME NEW i \in Images
      PROVE i \in unread' \cup finished' \/ Queued(i)' \/ Held(i)'
  <2>1. CASE i \in unread \cup finished
    BY <2>1, <1>1
  <2>2. ASSUME NEW k \in 1 .. Len(incoming), incoming[k] = i
        PROVE Queued(i)' \/ Held(i)'
    <3>1. CASE k = 1
      BY <3>1, <2>2, <1>3 DEF Held
    <3>2. CASE k # 1
      <4>1. k - 1 \in 1 .. Len(incoming') /\ (k - 1) + 1 = k
        BY <3>2, <1>2
      <4>2. incoming'[k - 1] = i
        BY <4>1, <2>2, <1>2
      <4> QED
        BY <4>1, <4>2 DEF Queued
    <3> QED
      BY <3>1, <3>2
  <2>3. CASE Held(i)
    BY <2>3, <1>3, <1>4, ImagesAssumption DEF Held
  <2> QED
    BY <2>1, <2>2, <2>3 DEF NoImageIsLost, Held
<1> QED
  BY <1>5 DEF NoImageIsLost, Queued, Held

LEMMA KeptNext ==
  ASSUME Shape, NoImageIsLost, [Next]_vars
  PROVE NoImageIsLost'
<1>1. CASE UNCHANGED vars
  BY <1>1 DEF NoImageIsLost, vars, history, Walking, Image
<1>2. CASE Walk
  BY <1>2 DEF Walk, NoImageIsLost
<1>3. ASSUME Next, ~Walk, Walking' PROVE NoImageIsLost'
  <2>0. Walking
    BY <1>3, WalkingBefore
  <2>1. CASE MainAction
    BY <2>0, <2>1, <1>3, KeptByMain
  <2>2. CASE Ending \/ Restart
    BY <2>2, <1>3 DEF Ending, End, Restart, Walking, Ended
  <2>3. ASSUME NEW w \in Ids, QuietStep(w) \/ Exit(w) PROVE NoImageIsLost'
    <3>1. CASE QuietStep(w)
      <4>1. UNCHANGED <<unread, incoming, finished>> /\ \A v \in Ids : Image(v)' = Image(v)
        BY <3>1, QuietStepKeeps DEF history, Shape
      <4> QED
        BY <4>1, <2>0 DEF NoImageIsLost
    <3>2. CASE Exit(w)
      <4>1. \A v \in Ids : Image(v)' = Image(v)
        BY <3>2, Moved DEF Exit, Image, Shape
      <4> QED
        BY <3>2, <4>1, <2>0 DEF Exit, NoImageIsLost, history
    <3> QED
      BY <2>3, <3>1, <3>2
  <2>4. ASSUME NEW w \in Ids, Take(w) PROVE NoImageIsLost'
    BY <2>0, <2>4, KeptByTake
  <2>5. ASSUME NEW w \in Ids, Count(w) \/ Fail(w) PROVE NoImageIsLost'
    <3>1. /\ \A v \in Ids : v # w => Image(v)' = Image(v)
          /\ finished' = finished \cup {Image(w)}
          /\ UNCHANGED <<unread, incoming>>
      BY <2>5, Rested DEF Image, Resting, Shape
    <3> QED
      BY <3>1, <2>0 DEF NoImageIsLost
  <2> QED
    BY <1>3, <2>1, <2>2, <2>3, <2>4, <2>5, NextCases
<1> QED
  BY <1>1, <1>2, <1>3 DEF NoImageIsLost

\* An image of a walk is never lost: until it is finished it is unvisited, in
\* the channel or in the hands of a worker, whatever fails.
THEOREM EveryImageIsKept == Spec => []NoImageIsLost
<1>1. Init => NoImageIsLost
  BY DEF Init, NoImageIsLost, Walking
<1>2. Shape /\ NoImageIsLost /\ [Next]_vars => NoImageIsLost'
  BY KeptNext
<1> QED
  BY <1>1, <1>2, ShapeAlways, PTL DEF Spec

------------------------------------------------------------------------------
(***************************************************************************)
(* The counts.                                                             *)
(***************************************************************************)
LEMMA CountsNext ==
  ASSUME Shape, EachImageOnce, CountsAgree, [Next]_vars
  PROVE CountsAgree'
<1> USE ImagesAssumption, WorkersAssumption DEF Shape
<1>1. CASE UNCHANGED vars
  BY <1>1 DEF CountsAgree, vars, history, counts, Walking
<1>2. CASE Walk
  <2>1. processed' = 0 /\ errorcount' = errorcount /\ carried' = errorcount /\ finished' = {}
    BY <1>2 DEF Walk, Begin
  <2> QED
    BY <2>1, FS_EmptySet DEF CountsAgree, TypeOK
<1>3. ASSUME Next, ~Walk, Walking' PROVE CountsAgree'
  <2>0. Walking
    BY <1>3, WalkingBefore
  <2>1. CASE MainAction
    <3>1. UNCHANGED <<processed, errorcount, finished, carried>>
      BY <2>1, <1>3 DEF MainAction, VisitError, Close, Report, OneDone, IngestOne, Visit,
                        Walking, counts, history
    <3> QED
      BY <3>1, <2>0 DEF CountsAgree
  <2>2. CASE Ending \/ Restart
    BY <2>2, <1>3 DEF Ending, End, Restart, Walking, Ended
  <2>3. ASSUME NEW w \in Ids, QuietStep(w) PROVE CountsAgree'
    <3>1. UNCHANGED <<processed, errorcount, finished, carried>>
      BY <2>3, QuietStepKeeps DEF history
    <3> QED
      BY <3>1, <2>0 DEF CountsAgree
  <2>4. ASSUME NEW w \in Ids, Take(w) \/ Exit(w) PROVE CountsAgree'
    BY <2>4, <2>0 DEF Take, Exit, CountsAgree, counts, history
  <2>5. ASSUME NEW w \in Ids, Count(w) \/ Fail(w) PROVE CountsAgree'
    <3>1. w # Main /\ Image(w) \in Images
      BY <2>5, <2>0, Rested DEF Quiet, Hands, Image, TypeOK, Worker
    <3>2. Image(w) \notin finished
      BY <2>0 DEF EachImageOnce
    <3>3. finished' = finished \cup {Image(w)} /\ carried' = carried
      BY <2>5, Rested
    <3>4. IsFiniteSet(finished)
      BY FS_Subset DEF TypeOK
    <3>5. Cardinality(finished') = Cardinality(finished) + 1
      BY <3>2, <3>3, <3>4, FS_AddElement
    <3>6. Cardinality(finished) \in Nat
      BY <3>4, FS_CardinalityType
    <3>7. processed' + errorcount' = processed + errorcount + 1
      BY <2>5, <3>1 DEF Count, Fail, TypeOK
    <3> QED
      BY <2>0, <3>3, <3>5, <3>6, <3>7 DEF CountsAgree, TypeOK
  <2> QED
    BY <1>3, <2>1, <2>2, <2>3, <2>4, <2>5, NextCases
<1> QED
  BY <1>1, <1>2, <1>3 DEF CountsAgree

\* The report counts every image once: in a walk, processed and errorcount
\* together are the images the workers are done with and the errors of the
\* ingests before.
THEOREM ReportCountsAgree == Spec => []CountsAgree
<1>1. Init => CountsAgree
  BY DEF Init, CountsAgree, Walking
<1>2. Shape /\ EachImageOnce /\ CountsAgree /\ [Next]_vars => CountsAgree'
  BY CountsNext
<1> QED
  BY <1>1, <1>2, ShapeAlways, ImagesAreAnalyzedOnce, PTL DEF Spec

------------------------------------------------------------------------------
(***************************************************************************)
(* The fingerprints.                                                       *)
(***************************************************************************)
Writing(i) == \E w \in Ids : At(w, "encode") /\ Image(w) = i

\* The image has its fingerprint file, unless the host refused it.
Printed(i) == index[i] # "none" \/ i \in refused

\* Only images that can be analyzed to the end get as far as a fingerprint.
PrintBy(w) ==
  /\ worker[w].at \in Logging /\ worker[w].then = "create" => Image(w) \in Good
  /\ worker[w].at \in {"create", "encode", "out"} => Image(w) \in Good
  /\ At(w, "encode") => index[Image(w)] = "torn"
  /\ At(w, "out") => Printed(Image(w))
  /\ At(w, "count") /\ Image(w) \in Good => Printed(Image(w))
  /\ At(w, "failed") => Image(w) \in Panicking \cup Stopped

Torn(i) == index[i] = "torn" => i \in cut \/ Writing(i)
Cut(i)  == i \in cut => index[i] = "torn"
InIndex == Walking => \A i \in finished \cap Good : Printed(i)

Prints ==
  /\ \A i \in Images : Torn(i)
  /\ \A i \in Images : Cut(i)
  /\ \A w \in Ids : PrintBy(w)
  /\ InIndex

\* Outside the steps of WriteToFile the fingerprints stay as they are, and the
\* host refuses none; a new ingest and a new start forget the refusals.
LEMMA IndexKept ==
  ASSUME Shape, Next, ~\E w \in Ids : QuietStep(w)
  PROVE /\ index' = index
        /\ refused' = refused \/ Walk \/ Restart \/ \E i \in Images : IngestOne(i)
<1>1. CASE MainAction
  BY <1>1 DEF MainAction, Walk, VisitError, Close, Report, OneDone, IngestOne, Begin, Visit, history
<1>2. CASE Ending \/ Restart
  BY <1>2 DEF Ending, End, Restart
<1>3. ASSUME NEW w \in Ids, Take(w) \/ Exit(w) \/ Count(w) \/ Fail(w)
      PROVE UNCHANGED <<index, refused>>
  BY <1>3 DEF Take, Exit, Count, Fail, Rest, history
<1> QED
  BY <1>1, <1>2, <1>3, NextCases

\* The steps of a goroutine disturb no fingerprint but that of its image.
LEMMA IndexElsewhere ==
  ASSUME Shape, NEW w \in Ids, QuietStep(w)
  PROVE /\ \A i \in Images : i # Image(w) => index'[i] = index[i]
        /\ \A i \in Images : index[i] # "none" => index'[i] # "none"
        /\ \/ refused' = refused
           \/ CreateFails(w) /\ refused' = refused \cup {Image(w)}
        /\ \/ cut' = cut
           \/ EncodeFails(w) /\ cut' = cut \cup {Image(w)}
           \/ Encode(w) /\ cut' = cut \ {Image(w)}
        /\ index' = index \/ Create(w) \/ Encode(w)
<1> USE DEF Shape
<1>1. CASE Looks(w) \/ Analyze(w)
  BY <1>1, LooksMoves, AnalyzeMoves DEF history
<1>2. CASE LoadFails(w) \/ Load(w) \/ Panic(w) \/ ReturnEarly(w) \/ Out(w)
  BY <1>2 DEF LoadFails, Load, Panic, ReturnEarly, Out, history
<1>3. CASE CreateFails(w) \/ EncodeFails(w)
  BY <1>3 DEF CreateFails, EncodeFails
<1>4. CASE Create(w)
  BY <1>4 DEF Create, TypeOK, history
<1>5. CASE Encode(w)
  BY <1>5 DEF Encode, TypeOK
<1> QED
  BY <1>1, <1>2, <1>3, <1>4, <1>5, QuietSteps DEF Computes

\* A goroutine that gets a logger, or rests, or is done has no fingerprint.
LEMMA PrintFree ==
  ASSUME NEW w,
         \/ worker[w].at \in Logging /\ worker[w].then # "create"
         \/ worker[w].at \in {"idle", "done", "load", "analyze"}
  PROVE PrintBy(w)
BY DEF PrintBy, Logging, At

PrintFreely ==
  \A w \in Ids :
    \/ worker[w].at \in Logging /\ worker[w].then # "create"
    \/ worker[w].at \in {"idle", "done", "load", "analyze"}
    => PrintBy(w)

LEMMA PrintFrees == PrintFreely
BY PrintFree DEF PrintFreely

\* No two goroutines have the same image in their hands.
LEMMA OneHolder ==
  ASSUME Shape, EachImageOnce, NEW v \in Ids, NEW w \in Ids, v # w, Image(v) # NoImage
  PROVE Image(v) # Image(w)
<1>1. CASE Walking
  BY <1>1 DEF EachImageOnce
<1>2. CASE ~Walking
  <2>1. v = Main
    BY <1>2 DEF Shape, Quiet, Ids
  <2>2. w \in Workers
    BY <2>1 DEF Ids
  <2>3. Image(w) = NoImage
    BY <1>2, <2>2 DEF Shape, Quiet
  <2> QED
    BY <2>3
<1> QED
  BY <1>1, <1>2

\* What PrintBy says of a goroutine that does not move.
LEMMA PrintStays ==
  ASSUME NEW v \in Ids, PrintBy(v), worker'[v] = worker[v], refused \subseteq refused',
         Image(v) \in Good => index'[Image(v)] = index[Image(v)]
  PROVE PrintBy(v)'
<1>1. Image(v)' = Image(v)
  BY DEF Image
<1>2. Printed(Image(v)) /\ Image(v) \in Good => Printed(Image(v))'
  BY <1>1 DEF Printed
<1> QED
  BY <1>1, <1>2 DEF PrintBy, Stopped, At, Printed

LEMMA PrintNext ==
  ASSUME Shape, EachImageOnce, \A w \in Ids : PrintBy(w), Next
  PROVE \A v \in Ids : PrintBy(v)'
<1> USE ImagesAssumption, WorkersAssumption DEF Shape
<1>0. PrintFreely'
  BY PrintFrees, PTL
<1>1. CASE MainAction
  <2>1. ASSUME Walk, NEW v \in Ids PROVE PrintBy(v)'
    BY <1>0, <2>1 DEF Walk, GetLogger, Resting, PrintFreely, Logging
  <2>2. ASSUME NEW i \in Images, IngestOne(i), NEW v \in Ids PROVE PrintBy(v)'
    <3>1. CASE v = Main
      BY <1>0, <2>2, <3>1 DEF IngestOne, TypeOK, GetLogger, PrintFreely, Logging
    <3>2. CASE v # Main
      <4>1. worker'[v] = worker[v] /\ Image(v) = NoImage
        BY <2>2, <3>2 DEF IngestOne, Begin, TypeOK, Quiet, Walking, Ids
      <4>2. worker[v].at \notin Analyzing /\ (worker[v].at \in Logging => worker[v].then = "idle")
        BY <4>1 DEF Hands
      <4>3. worker[v].at \in Places
        BY DEF TypeOK, Worker
      <4> QED
        BY <1>0, <4>1, <4>2, <4>3 DEF PrintFreely, Places, Analyzing, Logging
    <3> QED
      BY <3>1, <3>2
  <2>3. ASSUME VisitError, NEW v \in Ids PROVE PrintBy(v)'
    <3>1. CASE v = Main
      BY <1>0, <2>3, <3>1 DEF VisitError, TypeOK, GetLogger, PrintFreely, Logging
    <3>2. CASE v # Main
      BY <2>3, <3>2, PrintStays DEF VisitError, TypeOK, history
    <3> QED
      BY <3>1, <3>2
  <2>4. ASSUME Close \/ Report \/ OneDone \/ \E i \in Images : Visit(i), NEW v \in Ids
        PROVE PrintBy(v)'
    <3>1. UNCHANGED <<worker, index, refused>>
      BY <2>4 DEF Close, Report, OneDone, Visit, history
    <3> QED
      BY <3>1, PrintStays
  <2> QED
    BY <1>1, <2>1, <2>2, <2>3, <2>4 DEF MainAction
<1>2. CASE Ending
  BY <1>0, <1>2 DEF Ending, End, Resting, PrintFreely
<1>3. CASE Restart
  BY <1>0, <1>3 DEF Restart, Quiet, PrintFreely, At
<1>4. ASSUME NEW w \in Ids, QuietStep(w) PROVE \A v \in Ids : PrintBy(v)'
  <2>1. ASSUME NEW v \in Ids, v # w PROVE PrintBy(v)'
    <3>1. worker'[v] = worker[v] /\ refused \subseteq refused'
      BY <1>4, <2>1, QuietStepKeeps, IndexElsewhere
    <3>2. ASSUME Image(v) \in Good PROVE index'[Image(v)] = index[Image(v)]
      <4>1. Image(v) \in Images /\ Image(v) # NoImage
        BY <3>2 DEF Good
      <4>2. Image(v) # Image(w)
        BY <2>1, <4>1, OneHolder
      <4> QED
        BY <1>4, <4>1, <4>2, IndexElsewhere
    <3> QED
      BY <3>1, <3>2, PrintStays
  <2>2. Image(w)' = Image(w)
    BY <1>4, QuietStepKeeps
  <2>3. PrintBy(w)'
    <3>1. CASE Looks(w)
      <4>1. worker[w].then \in {"idle", "load", "create"}
        BY DEF TypeOK, Worker
      <4>2. Image(w) \in Good => Printed(Image(w))' = Printed(Image(w))
        BY <2>2, <3>1, LooksMoves DEF Printed, history
      <4> QED
        BY <3>1, <4>1, <2>2, LooksMoves DEF PrintBy, Logging, At
    <3>2. CASE LoadFails(w) \/ Panic(w) \/ ReturnEarly(w)
      <4>1. Image(w) \notin Good
        BY <3>2 DEF LoadFails, Panic, ReturnEarly, Good
      <4>2. /\ worker'[w].at \in {"count", "failed"}
            /\ worker'[w].at = "failed" => Image(w) \in Panicking
        BY <3>2, Moved DEF LoadFails, Panic, ReturnEarly
      <4> QED
        BY <4>1, <4>2, <2>2 DEF PrintBy, Logging, At
    <3>3. CASE Load(w)
      BY <3>3, Moved DEF Load, PrintBy, Logging, At
    <3>4. CASE Create(w)
      <4>1. Image(w) \in Good /\ Image(w) \in Images
        BY <3>4 DEF Create, PrintBy, Good, At
      <4>2. worker'[w].at = "encode"
        BY <3>4, Moved DEF Create
      <4>3. index'[Image(w)] = "torn"
        BY <3>4, <4>1 DEF Create, TypeOK
      <4> QED
        BY <4>1, <4>2, <4>3, <2>2 DEF PrintBy, Logging, At
    <3>5. CASE CreateFails(w)
      <4>1. Image(w) \in Good
        BY <3>5 DEF CreateFails, PrintBy, At
      <4>2. worker'[w].at = IF Image(w) \in Strict THEN "failed" ELSE "out"
        BY <3>5, Moved DEF CreateFails
      <4>3. Image(w) \in refused'
        BY <3>5 DEF CreateFails
      <4>4. Printed(Image(w))'
        BY <2>2, <4>3 DEF Printed
      <4>5. Image(w) \in Strict => Image(w)' \in Stopped'
        BY <2>2, <4>3 DEF Stopped
      <4> QED
        BY <4>1, <4>2, <4>4, <4>5, <2>2 DEF PrintBy, Logging, At
    <3>6. CASE Encode(w) \/ EncodeFails(w)
      <4>1. Image(w) \in Good /\ Image(w) \in Images /\ index[Image(w)] = "torn"
        BY <3>6 DEF Encode, EncodeFails, PrintBy, Good, At
      <4>2. worker'[w].at = "out"
        BY <3>6, Moved DEF Encode, EncodeFails
      <4>3. index'[Image(w)] # "none"
        BY <3>6, <4>1 DEF Encode, EncodeFails, TypeOK
      <4>4. Printed(Image(w))'
        BY <2>2, <4>3 DEF Printed
      <4> QED
        BY <4>1, <4>2, <4>4, <2>2 DEF PrintBy, Logging, At
    <3>7. CASE Out(w)
      <4>1. worker'[w].at = "count" /\ UNCHANGED <<index, refused>>
        BY <3>7, Moved DEF Out, history
      <4>2. Printed(Image(w))' = Printed(Image(w))
        BY <2>2, <4>1 DEF Printed
      <4> QED
        BY <3>7, <4>1, <4>2, <2>2 DEF Out, PrintBy, Logging, At
    <3>8. CASE Analyze(w)
      <4>1. Image(w) \in Good /\ index' = index
        BY <3>8 DEF Analyze
      <4>2. worker'[w].at = "out" => index[Image(w)] # "none"
        BY <3>8 DEF Analyze, TypeOK, GetLogger
      <4>3. worker'[w].at = "out" => Printed(Image(w))'
        BY <2>2, <4>1, <4>2 DEF Printed
      <4> QED
        BY <3>8, <4>1, <4>3, <2>2, AnalyzeMoves DEF PrintBy, Logging, At
    <3> QED
      BY <1>4, <3>1, <3>2, <3>3, <3>4, <3>5, <3>6, <3>7, <3>8, QuietSteps DEF Computes
  <2> QED
    BY <2>1, <2>3
<1>5. ASSUME NEW w \in Ids, Take(w) \/ Exit(w) \/ Count(w) \/ Fail(w), NEW v \in Ids
      PROVE PrintBy(v)'
  <2>1. CASE v = w
    <3>1. \/ worker'[w].at \in Logging /\ worker'[w].then = "load"
          \/ worker'[w].at \in {"idle", "done"}
      BY <1>5, Moved, Rested DEF Take, Exit, Resting, TypeOK, GetLogger, Logging
    <3> QED
      BY <1>0, <2>1, <3>1 DEF PrintFreely
  <2>2. CASE v # w
    <3>1. worker'[v] = worker[v] /\ UNCHANGED <<index, refused>>
      BY <1>5, <2>2 DEF Take, Exit, Goto, Count, Fail, Rest, TypeOK, history
    <3> QED
      BY <3>1, PrintStays
  <2> QED
    BY <2>1, <2>2
<1> QED
  BY <1>1, <1>2, <1>3, <1>4, <1>5, NextCases

\* A goroutine that writes a fingerprint goes on, or is cut short, or does so.
LEMMA WritingGoesOn ==
  ASSUME Shape, Next, NEW w \in Ids, At(w, "encode"), ~QuietStep(w), ~Ending
  PROVE worker'[w] = worker[w]
<1> USE ImagesAssumption, WorkersAssumption DEF Shape
<1>1. Image(w) # NoImage
  BY DEF Hands, Analyzing, At
<1>2. main # "prompt" /\ (Walking => w # Main)
  BY <1>1 DEF Quiet, Walking, Ids
<1>3. CASE MainAction
  <2>1. CASE VisitError
    BY <2>1, <1>2 DEF VisitError, TypeOK, Walking
  <2>2. CASE Close \/ Report \/ OneDone \/ \E j \in Images : Visit(j)
    BY <2>2 DEF Close, Report, OneDone, Visit
  <2>3. CASE Walk \/ \E j \in Images : IngestOne(j)
    BY <2>3, <1>2 DEF Walk, IngestOne, Begin
  <2> QED
    BY <1>3, <2>1, <2>2, <2>3 DEF MainAction
<1>4. CASE Restart
  BY <1>4 DEF Restart
<1>5. ASSUME NEW v \in Ids, QuietStep(v) PROVE worker'[w] = worker[w]
  BY <1>5, QuietStepKeeps
<1>6. ASSUME NEW v \in Ids, Take(v) \/ Exit(v) \/ Count(v) \/ Fail(v)
      PROVE worker'[w] = worker[w]
  <2>1. v # w
    BY <1>6 DEF Take, Exit, Count, Fail, At
  <2> QED
    BY <1>6, <2>1 DEF Take, Exit, Goto, Count, Fail, Rest, TypeOK
<1> QED
  BY <1>3, <1>4, <1>5, <1>6, NextCases

LEMMA TornNext ==
  ASSUME Shape, \A i \in Images : Torn(i), Next, NEW i \in Images
  PROVE Torn(i)'
<1> USE ImagesAssumption, WorkersAssumption DEF Shape
<1> SUFFICES ASSUME index'[i] = "torn" PROVE i \in cut' \/ Writing(i)'
  BY DEF Torn
<1>1. ASSUME NEW w \in Ids, QuietStep(w) PROVE i \in cut' \/ Writing(i)'
  <2>1. Image(w)' = Image(w) /\ \A v \in Ids : v # w => worker'[v] = worker[v]
    BY <1>1, QuietStepKeeps
  <2>2. ASSUME i \in cut PROVE i \in cut'
    BY <1>1, <2>2, IndexElsewhere DEF Encode, TypeOK
  <2>3. CASE Create(w) /\ Image(w) = i
    <3>1. At(w, "encode")'
      BY <2>3, Moved DEF Create, At
    <3> QED
      BY <2>1, <2>3, <3>1 DEF Writing
  <2>4. CASE EncodeFails(w) /\ Image(w) = i
    BY <2>4 DEF EncodeFails
  <2>5. CASE Encode(w) /\ Image(w) = i
    BY <2>5 DEF Encode, TypeOK
  <2>6. ASSUME ~(Create(w) /\ Image(w) = i), ~(EncodeFails(w) /\ Image(w) = i),
               ~(Encode(w) /\ Image(w) = i)
        PROVE i \in cut' \/ Writing(i)'
    <3>1. index[i] = "torn"
      BY <1>1, <2>6, IndexElsewhere
    <3>2. i \in cut \/ Writing(i)
      BY <3>1 DEF Torn
    <3>3. ASSUME NEW v \in Ids, At(v, "encode"), Image(v) = i PROVE Writing(i)'
      <4>1. v # w
        <5>1. At(w, "encode") => Encode(w) \/ EncodeFails(w)
          BY <1>1 DEF QuietStep, LoggerStep, LoadFails, Load, Panic, ReturnEarly, Analyze, Create,
                      CreateFails, Out, At, GetNil, MakeMap, Find, NewLogger, Store
        <5> QED
          BY <2>6, <3>3, <5>1
      <4> QED
        BY <2>1, <3>3, <4>1 DEF Writing, At, Image
    <3> QED
      BY <2>2, <3>2, <3>3 DEF Writing
  <2> QED
    BY <2>3, <2>4, <2>5, <2>6
<1>2. ASSUME ~\E w \in Ids : QuietStep(w) PROVE i \in cut' \/ Writing(i)'
  <2>1. index[i] = "torn"
    BY <1>2, IndexKept
  <2>2. i \in cut \/ Writing(i)
    BY <2>1 DEF Torn
  <2>3. cut \subseteq cut'
    <3>1. CASE MainAction
      BY <3>1 DEF MainAction, Walk, VisitError, Close, Report, OneDone, IngestOne, Begin, Visit,
                  history
    <3>2. CASE Ending \/ Restart
      BY <3>2 DEF Ending, End, Restart
    <3>3. ASSUME NEW w \in Ids, Take(w) \/ Exit(w) \/ Count(w) \/ Fail(w) PROVE cut' = cut
      BY <3>3 DEF Take, Exit, Count, Fail, Rest, history
    <3> QED
      BY <1>2, <3>1, <3>2, <3>3, NextCases
  <2>4. ASSUME NEW w \in Ids, At(w, "encode"), Image(w) = i PROVE Writing(i)' \/ i \in cut'
    <3>1. CASE Ending
      BY <3>1, <2>4 DEF Ending, End
    <3>2. CASE ~Ending
      BY <1>2, <2>4, <3>2, WritingGoesOn DEF Writing, At, Image
    <3> QED
      BY <3>1, <3>2
  <2> QED
    BY <2>2, <2>3, <2>4 DEF Writing
<1> QED
  BY <1>1, <1>2

LEMMA CutNext ==
  ASSUME Shape, \A j \in Images : Cut(j), \A w \in Ids : PrintBy(w), Next, NEW i \in Images
  PROVE Cut(i)'
<1> USE DEF Shape
<1> SUFFICES ASSUME i \in cut' PROVE index'[i] = "torn"
  BY DEF Cut
<1>1. ASSUME NEW w \in Ids, QuietStep(w) PROVE index'[i] = "torn"
  <2>1. CASE EncodeFails(w) /\ Image(w) = i
    BY <2>1 DEF EncodeFails, PrintBy, At
  <2>2. CASE Create(w) /\ Image(w) = i
    BY <2>2 DEF Create, TypeOK
  <2>3. CASE Encode(w) /\ Image(w) = i
    BY <2>3 DEF Encode
  <2>4. ASSUME ~(EncodeFails(w) /\ Image(w) = i), ~(Create(w) /\ Image(w) = i),
               ~(Encode(w) /\ Image(w) = i)
        PROVE index'[i] = "torn"
    <3>1. i \in cut /\ index'[i] = index[i]
      BY <1>1, <2>4, IndexElsewhere
    <3> QED
      BY <3>1 DEF Cut
  <2> QED
    BY <2>1, <2>2, <2>3, <2>4
<1>2. ASSUME ~\E w \in Ids : QuietStep(w) PROVE index'[i] = "torn"
  <2>1. index' = index
    BY <1>2, IndexKept
  <2>2. CASE i \in cut
    BY <2>1, <2>2 DEF Cut
  <2>3. ASSUME Ending PROVE index'[i] = "torn"
    <3>1. i \in cut \/ \E w \in Ids : At(w, "encode") /\ Image(w) = i
      BY <2>3 DEF Ending, End
    <3> QED
      BY <2>1, <2>2, <3>1 DEF PrintBy
  <2>4. ASSUME ~Ending PROVE i \in cut
    <3>1. CASE MainAction
      BY <3>1 DEF MainAction, Walk, VisitError, Close, Report, OneDone, IngestOne, Begin, Visit,
                  history
    <3>2. CASE Restart
      BY <3>2 DEF Restart
    <3>3. ASSUME NEW w \in Ids, Take(w) \/ Exit(w) \/ Count(w) \/ Fail(w) PROVE cut' = cut
      BY <3>3 DEF Take, Exit, Count, Fail, Rest, history
    <3> QED
      BY <1>2, <2>4, <3>1, <3>2, <3>3, NextCases
  <2> QED
    BY <2>2, <2>3, <2>4
<1> QED
  BY <1>1, <1>2

LEMMA InIndexNext ==
  ASSUME Shape, \A w \in Ids : PrintBy(w), InIndex, Next
  PROVE InIndex'
<1> USE ImagesAssumption, WorkersAssumption DEF Shape
<1>1. CASE Walk
  BY <1>1 DEF Walk, Begin, InIndex
<1>2. ASSUME ~Walk, Walking' PROVE InIndex'
  <2>0. Walking
    BY <1>2, WalkingBefore
  <2>1. ~Restart /\ ~\E i \in Images : IngestOne(i)
    BY <1>2 DEF Restart, IngestOne, Walking
  <2>2. ASSUME finished' = finished, ~\E w \in Ids : QuietStep(w) PROVE InIndex'
    BY <2>0, <2>1, <2>2, <1>2, IndexKept DEF InIndex, Printed
  <2>3. CASE MainAction /\ ~\E w \in Ids : QuietStep(w)
    BY <2>3, <2>2, <1>2 DEF MainAction, VisitError, Close, Report, OneDone, IngestOne, Visit,
                            Walking, history
  <2>4. CASE Ending
    BY <2>4, <1>2 DEF Ending, End, Walking, Ended
  <2>5. ASSUME NEW w \in Ids, QuietStep(w) PROVE InIndex'
    <3>1. finished' = finished /\ refused \subseteq refused'
          /\ \A i \in Images : index[i] # "none" => index'[i] # "none"
      BY <2>5, QuietStepKeeps, IndexElsewhere
    <3> QED
      BY <2>0, <3>1 DEF InIndex, Printed, Good
  <2>6. ASSUME NEW w \in Ids, Take(w) \/ Exit(w), ~\E v \in Ids : QuietStep(v) PROVE InIndex'
    BY <2>6, <2>2 DEF Take, Exit, history
  <2>7. ASSUME NEW w \in Ids, Count(w) \/ Fail(w) PROVE InIndex'
    <3>1. finished' = finished \cup {Image(w)} /\ UNCHANGED <<index, refused>>
      BY <2>7, Rested
    <3>2. Image(w) \in Good => Printed(Image(w))
      BY <2>7 DEF Count, Fail, PrintBy, At, Good, Stopped, Printed
    <3> QED
      BY <2>0, <3>1, <3>2 DEF InIndex, Printed
  <2> QED
    BY <2>1, <2>3, <2>4, <2>5, <2>6, <2>7, NextCases
<1> QED
  BY <1>1, <1>2 DEF InIndex

LEMMA PrintsAlways == Spec => []Prints
<1>1. Init => Prints
  <2> SUFFICES ASSUME Init PROVE Prints
    OBVIOUS
  <2>1. \A w \in Ids : PrintBy(w)
    BY PrintFrees DEF Init, Resting, PrintFreely
  <2> QED
    BY <2>1 DEF Init, Prints, Torn, Cut, InIndex, Walking
<1>2. Shape /\ EachImageOnce /\ Prints /\ [Next]_vars => Prints'
  <2>1. ASSUME Shape, EachImageOnce, Prints, Next PROVE Prints'
    <3>1. (\A i \in Images : Torn(i))'
      BY <2>1, TornNext DEF Prints
    <3>2. (\A i \in Images : Cut(i))'
      BY <2>1, CutNext DEF Prints
    <3>3. (\A w \in Ids : PrintBy(w))'
      BY <2>1, PrintNext DEF Prints
    <3>4. InIndex'
      BY <2>1, InIndexNext DEF Prints
    <3> QED
      BY <3>1, <3>2, <3>3, <3>4 DEF Prints
  <2>2. ASSUME Prints, UNCHANGED vars PROVE Prints'
    BY <2>2 DEF Prints, Torn, Cut, PrintBy, InIndex, Printed, Stopped, vars, history, At, Image,
                Writing, Walking
  <2> QED
    BY <2>1, <2>2
<1> QED
  BY <1>1, <1>2, ShapeAlways, ImagesAreAnalyzedOnce, PTL DEF Spec

\* A fingerprint file is torn only while it is written, or when its last write
\* was cut short, by the end of the program or by the host, and every image
\* that a walk analyzed to the end has one, if the host did not refuse it.
THEOREM FingerprintsStayWhole == Spec => []FingerprintsAreWhole
<1>1. Prints => FingerprintsAreWhole
  BY DEF Prints, Torn, Cut, InIndex, Printed, FingerprintsAreWhole, Writing
<1> QED
  BY <1>1, PrintsAlways, PTL

------------------------------------------------------------------------------
(***************************************************************************)
(* The sums of the report.  An image counts as in from Load on, as out     *)
(* from Out on, and stays so when its worker is done with it.  Whether an  *)
(* image that panicked was in is not known: it may have panicked before.   *)
(***************************************************************************)
\* A refused image is in the hands of the goroutine that was refused it, until
\* it is finished.
RefusedBy(i) ==
  \/ i \in finished
  \/ \E w \in Ids : /\ Image(w) = i
                    /\ worker[w].at \in {"out", "count", "failed"}
                    /\ i \in Strict => At(w, "failed")

Refusals == Walking => \A i \in refused : RefusedBy(i)

LEMMA RefusalsNext ==
  ASSUME Shape, Refusals, [Next]_vars
  PROVE  Refusals'
<1> USE ImagesAssumption, WorkersAssumption DEF Shape
<1>1. CASE UNCHANGED vars
  BY <1>1 DEF vars, history, Refusals, RefusedBy, At, Image, Walking
<1>2. CASE Walk
  BY <1>2 DEF Walk, Begin, Refusals
<1>3. ASSUME Next, ~Walk, Walking' PROVE Refusals'
  <2>0. Walking
    BY <1>3, WalkingBefore
  <2>1. ASSUME NEW i \in refused, RefusedBy(i), finished' = finished,
               NEW w \in Ids, \A v \in Ids : v # w => worker'[v] = worker[v],
               Image(w) = i /\ worker[w].at \in {"out", "count", "failed"} => FALSE
        PROVE  RefusedBy(i)'
    BY <2>1 DEF RefusedBy, At, Image
  <2>2. ASSUME NEW w \in Ids, QuietStep(w), NEW i \in refused' PROVE RefusedBy(i)'
    <3>1. /\ Image(w)' = Image(w) /\ finished' = finished
          /\ \A v \in Ids : v # w => worker'[v] = worker[v]
      BY <2>2, QuietStepKeeps
    <3>2. CASE CreateFails(w) /\ i = Image(w)
      <4>1. worker'[w].at = IF i \in Strict THEN "failed" ELSE "out"
        BY <3>2, Moved DEF CreateFails
      <4> QED BY <3>1, <3>2, <4>1 DEF RefusedBy, At
    <3>3. CASE Out(w) /\ i \in refused /\ i = Image(w) /\ i \notin Strict
      <4>1. worker'[w].at = "count"
        BY <3>3, Moved DEF Out
      <4> QED BY <3>1, <3>3, <4>1 DEF RefusedBy
    <3>4. ASSUME ~(CreateFails(w) /\ i = Image(w)),
                 ~(Out(w) /\ i = Image(w) /\ i \notin Strict)
          PROVE  RefusedBy(i)'
      <4>1. i \in refused
        BY <2>2, <3>4, IndexElsewhere
      <4>2. RefusedBy(i)
        BY <2>0, <4>1 DEF Refusals
      <4>3. ~At(w, "count") /\ ~At(w, "failed") /\ (At(w, "out") => Out(w))
        BY <2>2 DEF QuietStep, LoggerStep, LoadFails, Load, Panic, ReturnEarly, Analyze, Create,
                    CreateFails, Encode, EncodeFails, Out, At, GetNil, MakeMap, Find, NewLogger, Store
      <4>4. ASSUME NEW v \in Ids, Image(v) = i, worker[v].at \in {"out", "count", "failed"},
                   i \in Strict => At(v, "failed")
            PROVE  v # w
        BY <3>4, <4>3, <4>4 DEF At
      <4> QED BY <3>1, <4>2, <4>4 DEF RefusedBy, At, Image
    <3> QED BY <3>2, <3>3, <3>4, <2>2, IndexElsewhere DEF CreateFails
  <2>3. CASE MainAction /\ ~\E w \in Ids : QuietStep(w)
    <3>1. ~\E i \in Images : IngestOne(i)
      BY <2>0 DEF IngestOne, Begin, Walking
    <3>2. UNCHANGED <<finished, refused>>
      BY <1>3, <2>3, <3>1 DEF MainAction, VisitError, Close, Report, OneDone, Visit, history
    <3>3. \A v \in Ids : v # Main => worker'[v] = worker[v]
      BY <1>3, <2>3, <3>1 DEF MainAction, VisitError, Close, Report, OneDone, Visit, TypeOK
    <3>4. Image(Main) = NoImage /\ Main \in Ids
      BY <2>0 DEF Quiet, Ids
    <3>5. ASSUME NEW i \in refused' PROVE RefusedBy(i)'
      <4>1. i \in refused /\ i \in Images /\ RefusedBy(i)
        BY <2>0, <3>2, <3>5 DEF Refusals, TypeOK
      <4> QED BY <2>1, <3>2, <3>3, <3>4, <4>1
    <3> QED BY <3>5 DEF Refusals
  <2>4. CASE Ending \/ Restart
    BY <2>4, <1>3 DEF Ending, End, Restart, Walking, Ended
  <2>5. ASSUME NEW w \in Ids, Take(w) \/ Exit(w), NEW i \in refused' PROVE RefusedBy(i)'
    <3>1. i \in refused /\ finished' = finished /\ RefusedBy(i)
      BY <2>0, <2>5 DEF Take, Exit, history, Refusals
    <3>2. At(w, "idle") /\ \A v \in Ids : v # w => worker'[v] = worker[v]
      BY <2>5 DEF Take, Exit, Goto, TypeOK
    <3> QED BY <2>1, <3>1, <3>2 DEF At
  <2>6. ASSUME NEW w \in Ids, Count(w) \/ Fail(w), NEW i \in refused' PROVE RefusedBy(i)'
    <3>1. /\ i \in refused /\ finished' = finished \cup {Image(w)}
          /\ \A v \in Ids : v # w => worker'[v] = worker[v]
      BY <2>6, Rested
    <3>2. RefusedBy(i)
      BY <2>0, <3>1 DEF Refusals
    <3> QED BY <3>1, <3>2 DEF RefusedBy, At, Image
  <2> QED BY <1>3, <2>2, <2>3, <2>4, <2>5, <2>6, NextCases DEF Refusals
<1> QED BY <1>1, <1>2, <1>3 DEF Refusals

LEMMA RefusalsAlways == Spec => []Refusals
<1>1. Init => Refusals
  BY DEF Init, Refusals, Walking
<1>2. Shape /\ Refusals /\ [Next]_vars => Refusals'
  BY RefusalsNext
<1> QED
  BY <1>1, <1>2, ShapeAlways, PTL DEF Spec

Ends == Good \cup Partial

Loaded(w) ==
  \/ worker[w].at \in {"analyze", "create", "encode", "out", "count"}
  \/ worker[w].at \in Logging /\ worker[w].then = "create"

IsOut(i) ==
  /\ i \in Good
  /\ i \in finished \ Stopped \/ \E w \in Ids : At(w, "count") /\ Image(w) = i
IsIn(i) ==
  /\ i \in Ends
  /\ i \in finished \/ \E w \in Ids : (Loaded(w) \/ At(w, "failed")) /\ Image(w) = i
MayBeIn(i) ==
  /\ i \notin Unreadable
  /\ i \in finished \/ \E w \in Ids : (Loaded(w) \/ At(w, "failed")) /\ Image(w) = i

OutImages  == {i \in Images : IsOut(i)}
InImages   == {i \in Images : IsIn(i)}
MaybeImages == {i \in Images : MayBeIn(i)}

Sums ==
  Walking =>
    /\ outdisk = Cardinality(OutImages)
    /\ Cardinality(InImages) <= indisk /\ indisk <= Cardinality(MaybeImages)

\* An image counts as before.
Same(i) == /\ IsOut(i)' <=> IsOut(i)
           /\ IsIn(i)' <=> IsIn(i)
           /\ MayBeIn(i)' <=> MayBeIn(i)

\* What an image counts as is decided by the goroutine that holds it.
Holds(w) ==
  LET i == Image(w) IN
    i # NoImage =>
      /\ IsOut(i) <=> i \in Good /\ At(w, "count")
      /\ IsIn(i) <=> i \in Ends /\ (Loaded(w) \/ At(w, "failed"))
      /\ MayBeIn(i) <=> i \notin Unreadable /\ (Loaded(w) \/ At(w, "failed"))

HoldersDecide == EachImageOnce /\ Walking => \A w \in Ids : Holds(w)

LEMMA HolderDecides == HoldersDecide
<1> SUFFICES ASSUME EachImageOnce, Walking, NEW w \in Ids, Image(w) # NoImage
             PROVE  LET i == Image(w) IN
                      /\ IsOut(i) <=> i \in Good /\ At(w, "count")
                      /\ IsIn(i) <=> i \in Ends /\ (Loaded(w) \/ At(w, "failed"))
                      /\ MayBeIn(i) <=> i \notin Unreadable /\ (Loaded(w) \/ At(w, "failed"))
  BY DEF Holds, HoldersDecide
<1>1. Image(w) \notin finished
  BY DEF EachImageOnce
<1>2. \A v \in Ids : Image(v) = Image(w) <=> v = w
  BY DEF EachImageOnce
<1> QED BY <1>1, <1>2 DEF IsOut, IsIn, MayBeIn

\* Nothing changes for the images that the goroutine that steps does not hold.
LEMMA OthersSame ==
  ASSUME NEW w, NEW j \in Images, \A v \in Ids : v # w => worker'[v] = worker[v],
         j # Image(w), j # Image(w)', j \in finished' <=> j \in finished,
         j \in refused' <=> j \in refused
  PROVE  Same(j)
<1>1. \A v \in Ids : Image(v) = j => v # w /\ worker'[v] = worker[v]
  BY DEF Image
<1>2. \A v \in Ids : Image(v)' = j => v # w /\ worker'[v] = worker[v]
  BY DEF Image
<1>3. IsOut(j)' <=> IsOut(j)
  BY <1>1, <1>2 DEF IsOut, At, Image, Stopped
<1>4. IsIn(j)' <=> IsIn(j)
  BY <1>1, <1>2 DEF IsIn, Loaded, At, Image
<1>5. MayBeIn(j)' <=> MayBeIn(j)
  BY <1>1, <1>2 DEF MayBeIn, Loaded, At, Image
<1> QED BY <1>3, <1>4, <1>5 DEF Same

\* No goroutine has done anything yet with an image it does not hold.
LEMMA AllSame ==
  ASSUME \A j \in Images : Same(j), UNCHANGED <<main, indisk, outdisk>>, Sums
  PROVE  Sums'
<1>1. OutImages' = OutImages /\ InImages' = InImages /\ MaybeImages' = MaybeImages
  BY DEF Same, OutImages, InImages, MaybeImages
<1> QED BY <1>1 DEF Sums, Walking

LEMMA SumsFinite ==
  /\ IsFiniteSet(OutImages) /\ IsFiniteSet(InImages) /\ IsFiniteSet(MaybeImages)
  /\ Cardinality(OutImages) \in Nat /\ Cardinality(InImages) \in Nat
  /\ Cardinality(MaybeImages) \in Nat
<1>1. \A S \in SUBSET Images : IsFiniteSet(S) /\ Cardinality(S) \in Nat
  BY ImagesAssumption, FS_Subset, FS_CardinalityType
<1> QED BY <1>1 DEF OutImages, InImages, MaybeImages

\* The steps of a goroutine with the image in its hands.
LEMMA SumsQuiet ==
  ASSUME Shape, EachImageOnce, EachImageOnce', \A w \in Ids : PrintBy(w), Sums, Walking,
         NEW w \in Ids, QuietStep(w)
  PROVE  Sums'
<1> DEFINE i == Image(w)
<1>1. /\ UNCHANGED <<main, finished>>
      /\ Image(w)' = Image(w)
      /\ \A v \in Ids : v # w => worker'[v] = worker[v]
  BY QuietStepKeeps
<1>2. \A j \in Images : j # i => Same(j)
  <2> SUFFICES ASSUME NEW j \in Images, j # i PROVE Same(j)
    OBVIOUS
  <2>1. j \in refused' <=> j \in refused
    BY IndexElsewhere
  <2> QED BY <1>1, <2>1, OthersSame
<1>3. Walking'
  BY <1>1 DEF Walking
<1>4. Holds(w)
  BY HolderDecides DEF HoldersDecide
<1>5. HoldersDecide'
  BY HolderDecides, PTL
<1>6. Holds(w)'
  BY <1>3, <1>5 DEF HoldersDecide
<1>7. worker[w].then \in {"idle", "load", "create"} /\ i \in Images \cup {NoImage} /\ worker[w] \in Worker
  BY DEF Shape, TypeOK, Worker, Image
<1>8. TypeOK
  BY DEF Shape
<1>9. ASSUME Same(i), UNCHANGED <<indisk, outdisk>> PROVE Sums'
  BY <1>1, <1>2, <1>9, AllSame
<1>10. CASE Looks(w)
  <2>1. CASE i = NoImage
    <3>1. \A j \in Images : Same(j)
      BY <1>2, <2>1, ImagesAssumption
    <3> QED BY <1>1, <1>10, <3>1, AllSame, LooksMoves, <1>8 DEF counts
  <2>2. CASE i # NoImage
    <3>1. /\ worker[w].at \in Logging
          /\ worker'[w].at \in Logging \cup {worker[w].then}
          /\ worker'[w].then = worker[w].then
          /\ UNCHANGED <<indisk, outdisk>>
      BY <1>8, <1>10, LooksMoves DEF counts
    <3>2. worker[w].then # "idle"
      BY <2>2, <3>1 DEF Shape, Hands
    <3>3. /\ Loaded(w)' <=> Loaded(w)
          /\ At(w, "count")' <=> At(w, "count")
          /\ At(w, "failed")' <=> At(w, "failed")
      BY <3>1, <3>2, <1>7 DEF Loaded, At, Logging
    <3>4. Same(i)
      BY <1>1, <1>4, <1>6, <2>2, <3>3 DEF Holds, Same
    <3> QED BY <1>9, <3>1, <3>4
  <2> QED BY <2>1, <2>2
<1>11. CASE Analyze(w)
  <2>1. Loaded(w) /\ Loaded(w)' /\ ~At(w, "count") /\ ~At(w, "count")'
    BY <1>8, <1>11, AnalyzeMoves DEF Loaded, At, Logging
  <2>2. i # NoImage /\ UNCHANGED <<indisk, outdisk>>
    BY <1>8, <1>11, AnalyzeMoves DEF Shape, Hands, At, Analyzing, counts
  <2>3. Same(i)
    BY <1>1, <1>4, <1>6, <2>1, <2>2 DEF Holds, Same
  <2> QED BY <1>9, <2>2, <2>3
<1>12. CASE Computes(w)
  <2>0. i # NoImage /\ i \in Images
    BY <1>7, <1>8, <1>12, ComputesMoves DEF Shape, Hands
  <2>1. CASE LoadFails(w) \/ ReturnEarly(w) \/ Create(w) \/ Encode(w) \/ EncodeFails(w)
    <3>1. /\ UNCHANGED <<indisk, outdisk>>
          /\ LoadFails(w) => i \in Unreadable
          /\ ReturnEarly(w) => i \in Partial
      BY <2>1 DEF LoadFails, ReturnEarly, Create, Encode, EncodeFails, counts
    <3>2. ~At(w, "count") /\ ~At(w, "failed") /\ ~At(w, "failed")' /\ (At(w, "count")' => i \notin Good)
      BY <1>8, <2>1, <3>1, Moved, ImagesAssumption
         DEF LoadFails, ReturnEarly, Create, Encode, EncodeFails, At, Good
    <3>3. (Loaded(w)' <=> Loaded(w)) \/ i \in Unreadable
      BY <1>8, <2>1, <3>1, Moved DEF LoadFails, ReturnEarly, Create, Encode, EncodeFails, At, Loaded
    <3>4. Same(i)
      BY <1>1, <1>4, <1>6, <2>0, <3>2, <3>3, ImagesAssumption DEF Holds, Same, Ends, Good
    <3> QED BY <1>9, <3>1, <3>4
  <2>2. CASE Panic(w)
    <3>1. UNCHANGED <<indisk, outdisk>> /\ i \in Panicking /\ i \notin Good \cup Partial \cup Unreadable
      BY <2>2, ImagesAssumption DEF Panic, counts, Good
    <3>2. OutImages' = OutImages
      BY <1>1, <1>2, <1>4, <1>6, <2>0, <3>1 DEF Holds, Same, OutImages
    <3>3. InImages' = InImages
      BY <1>1, <1>2, <1>4, <1>6, <2>0, <3>1 DEF Holds, Same, InImages, Ends
    <3>4. At(w, "failed")'
      BY <1>8, <2>2, Moved DEF Panic, At
    <3>5. MaybeImages' = MaybeImages \cup {i}
      BY <1>1, <1>2, <1>4, <1>6, <2>0, <3>1, <3>4 DEF Holds, Same, MaybeImages
    <3>6. Cardinality(MaybeImages') \in {Cardinality(MaybeImages), Cardinality(MaybeImages) + 1}
      BY <3>5, SumsFinite, FS_AddElement
    <3> QED BY <1>1, <1>8, <3>1, <3>2, <3>3, <3>6, SumsFinite DEF Sums, TypeOK
  <2>3. CASE Load(w)
    <3>1. indisk' = indisk + 1 /\ outdisk' = outdisk /\ i \notin Unreadable
      BY <2>3 DEF Load
    <3>2. ~At(w, "count") /\ ~At(w, "count")' /\ ~At(w, "failed") /\ ~Loaded(w) /\ Loaded(w)'
      BY <1>8, <2>3, Moved DEF Load, At, Loaded, Logging
    <3>3. OutImages' = OutImages
      BY <1>1, <1>2, <1>4, <1>6, <2>0, <3>2 DEF Holds, Same, OutImages
    <3>4. InImages' = InImages \/ InImages' = InImages \cup {i}
      BY <1>1, <1>2, <1>4, <1>6, <2>0, <3>2 DEF Holds, Same, InImages
    <3>5. MaybeImages' = MaybeImages \cup {i} /\ i \notin MaybeImages
      BY <1>1, <1>2, <1>4, <1>6, <2>0, <3>1, <3>2 DEF Holds, Same, MaybeImages
    <3>6. Cardinality(MaybeImages') = Cardinality(MaybeImages) + 1
      BY <3>5, SumsFinite, FS_AddElement
    <3>7. Cardinality(InImages') \in {Cardinality(InImages), Cardinality(InImages) + 1}
      BY <3>4, SumsFinite, FS_AddElement
    <3> QED BY <1>1, <1>8, <3>1, <3>3, <3>6, <3>7, SumsFinite DEF Sums, TypeOK
  <2>4. CASE Out(w)
    <3>1. indisk' = indisk /\ outdisk' = outdisk + 1 /\ i \in Good
      BY <2>4 DEF Out, PrintBy, At
    <3>2. /\ ~At(w, "count") /\ At(w, "count")' /\ Loaded(w) /\ Loaded(w)'
      BY <1>8, <2>4, Moved DEF Out, At, Loaded, Logging
    <3>3. OutImages' = OutImages \cup {i} /\ i \notin OutImages
      BY <1>1, <1>2, <1>4, <1>6, <2>0, <3>1, <3>2 DEF Holds, Same, OutImages
    <3>4. InImages' = InImages
      BY <1>1, <1>2, <1>4, <1>6, <2>0, <3>2 DEF Holds, Same, InImages
    <3>5. MaybeImages' = MaybeImages
      BY <1>1, <1>2, <1>4, <1>6, <2>0, <3>2 DEF Holds, Same, MaybeImages
    <3>6. Cardinality(OutImages') = Cardinality(OutImages) + 1
      BY <3>3, SumsFinite, FS_AddElement
    <3> QED BY <1>1, <1>8, <3>1, <3>4, <3>5, <3>6, SumsFinite DEF Sums, TypeOK
  <2>5. CASE CreateFails(w)
    <3>1. UNCHANGED <<indisk, outdisk>>
      BY <2>5 DEF CreateFails, counts
    <3>2. /\ ~At(w, "count") /\ ~At(w, "count")' /\ Loaded(w)
          /\ Loaded(w)' \/ At(w, "failed")'
      BY <1>8, <2>5, Moved DEF CreateFails, At, Loaded
    <3>3. Same(i)
      BY <1>1, <1>4, <1>6, <2>0, <3>2 DEF Holds, Same
    <3> QED BY <1>9, <3>1, <3>3
  <2> QED BY <1>12, <2>1, <2>2, <2>3, <2>4, <2>5 DEF Computes
<1> QED BY <1>10, <1>11, <1>12, QuietSteps

\* A worker is done with its image.
LEMMA SumsRest ==
  ASSUME Shape, EachImageOnce, \A w \in Ids : PrintBy(w), Refusals, Sums, Walking,
         NEW w \in Ids, Count(w) \/ Fail(w)
  PROVE  Sums'
<1>0. PICK i : i = Image(w)
  OBVIOUS
<1>1. /\ worker[w].at \in Analyzing
      /\ worker'[w] = Resting
      /\ \A v \in Ids : v # w => worker'[v] = worker[v]
      /\ finished' = finished \cup {i} /\ refused' = refused
      /\ main' = main
  BY <1>0, Rested DEF Shape
<1>2. i # NoImage /\ i \in Images
  BY <1>0, <1>1 DEF Shape, TypeOK, Worker, Hands, Image
<1>3. Image(w)' = NoImage
  BY <1>1 DEF Image, Resting
<1>4. \A j \in Images : j # i => Same(j)
  <2> SUFFICES ASSUME NEW j \in Images, j # i PROVE Same(j)
    OBVIOUS
  <2>1. j # Image(w)' /\ (j \in finished' <=> j \in finished)
    BY <1>1, <1>3, ImagesAssumption
  <2>2. j \in refused' <=> j \in refused
    BY <1>1
  <2> QED BY <1>0, <1>1, <2>1, <2>2, OthersSame
<1>5. Holds(w)
  BY HolderDecides DEF HoldersDecide
<1>6. UNCHANGED <<indisk, outdisk>>
  BY DEF Count, Fail, Rest
<1>7. /\ IsOut(i)' <=> i \in Good \ Stopped
      /\ IsIn(i)' <=> i \in Ends
      /\ MayBeIn(i)' <=> i \notin Unreadable
  <2>1. \A v \in Ids : Image(v)' = i => v # w /\ Image(v) = i
    BY <1>1, <1>2, <1>3, ImagesAssumption DEF Image
  <2>2. \A v \in Ids : Image(v)' # i
    BY <1>0, <1>2, <2>1 DEF EachImageOnce
  <2>3. Stopped' = Stopped
    BY <1>1 DEF Stopped
  <2> QED BY <1>1, <2>2, <2>3 DEF IsOut, IsIn, MayBeIn
<1>8. \/ At(w, "count") /\ Loaded(w) /\ i \notin Stopped
      \/ At(w, "failed") /\ i \in Panicking \cup Stopped
  <2>1. CASE Count(w)
    <3>1. At(w, "count") /\ i \notin finished
      BY <1>0, <2>1 DEF Count, EachImageOnce
    <3>2. \A v \in Ids : Image(v) = i => v = w
      BY <1>0, <1>2 DEF EachImageOnce
    <3>3. i \notin Stopped
      BY <3>1, <3>2 DEF Stopped, Refusals, RefusedBy, At
    <3> QED BY <3>1, <3>3 DEF At, Loaded
  <2>2. CASE Fail(w)
    BY <1>0, <2>2 DEF Fail, At, PrintBy
  <2> QED BY <2>1, <2>2
<1>9. Same(i)
  <2>1. Stopped \subseteq Good
    BY ImagesAssumption DEF Stopped
  <2>2. /\ IsOut(i) <=> i \in Good /\ At(w, "count")
        /\ IsIn(i) <=> i \in Ends /\ (Loaded(w) \/ At(w, "failed"))
        /\ MayBeIn(i) <=> i \notin Unreadable /\ (Loaded(w) \/ At(w, "failed"))
    BY <1>0, <1>2, <1>5 DEF Holds
  <2>3. i \in Panicking => i \notin Ends \cup Good
    BY ImagesAssumption DEF Good, Ends
  <2>4. Good \subseteq Ends
    BY DEF Ends
  <2>5. At(w, "failed") => ~At(w, "count")
    BY DEF At
  <2> QED BY <1>7, <1>8, <2>1, <2>2, <2>3, <2>4, <2>5 DEF Same
<1> QED BY <1>1, <1>4, <1>6, <1>9, AllSame

LEMMA SumsNext ==
  ASSUME Shape, EachImageOnce, EachImageOnce', \A w \in Ids : PrintBy(w), Refusals, Sums,
         [Next]_vars
  PROVE  Sums'
<1>1. CASE UNCHANGED vars
  <2>1. \A j \in Images : Same(j)
    BY <1>1 DEF vars, history, Same, IsOut, IsIn, MayBeIn, Loaded, At, Image, Stopped
  <2> QED BY <1>1, <2>1, AllSame DEF vars, counts
<1>2. CASE Walk
  <2>1. /\ finished' = {} /\ indisk' = 0 /\ outdisk' = 0
        /\ \A w \in Ids : worker'[w].at \notin Analyzing /\ worker'[w].then = "idle"
    BY <1>2 DEF Walk, Begin, GetLogger, Resting, Analyzing
  <2>2. \A w \in Ids : ~Loaded(w)' /\ ~At(w, "count")' /\ ~At(w, "failed")'
    BY <2>1 DEF Loaded, At, Analyzing
  <2>3. OutImages' = {} /\ InImages' = {} /\ MaybeImages' = {}
    BY <2>1, <2>2 DEF OutImages, InImages, MaybeImages, IsOut, IsIn, MayBeIn
  <2> QED BY <2>1, <2>3, FS_EmptySet DEF Sums
<1>3. ASSUME Next, ~Walk, Walking' PROVE Sums'
  <2>0. Walking
    BY <1>3, WalkingBefore
  <2>1. CASE MainAction
    <3>1. ~\E i \in Images : IngestOne(i)
      BY <2>0 DEF IngestOne, Begin, Walking
    <3>2. UNCHANGED <<indisk, outdisk, finished, refused>>
      BY <1>3, <2>1, <3>1 DEF MainAction, VisitError, Close, Report, OneDone, Visit, counts, history
    <3>3. \A v \in Ids : v # Main => worker'[v] = worker[v]
      BY <1>3, <2>1, <3>1 DEF MainAction, VisitError, Close, Report, OneDone, Visit, Shape, TypeOK
    <3>4. Image(Main) = NoImage /\ Image(Main)' = NoImage
      BY <1>3, <2>0, <2>1, <3>1
         DEF MainAction, VisitError, Close, Report, OneDone, Visit, Shape, TypeOK, Quiet, Image,
             GetLogger, Ids
    <3>5. \A j \in Images : Same(j)
      <4> SUFFICES ASSUME NEW j \in Images PROVE Same(j)
        OBVIOUS
      <4>1. /\ j # Image(Main) /\ j # Image(Main)' /\ (j \in finished' <=> j \in finished)
            /\ j \in refused' <=> j \in refused
        BY <3>2, <3>4, ImagesAssumption
      <4> QED BY <3>3, <4>1, OthersSame
    <3>6. OutImages' = OutImages /\ InImages' = InImages /\ MaybeImages' = MaybeImages
      BY <3>5 DEF Same, OutImages, InImages, MaybeImages
    <3> QED BY <2>0, <3>2, <3>6 DEF Sums
  <2>2. CASE Ending \/ Restart
    BY <2>2, <1>3 DEF Ending, End, Restart, Walking, Ended
  <2>3. ASSUME NEW w \in Ids, QuietStep(w) PROVE Sums'
    BY <2>0, <2>3, SumsQuiet
  <2>4. ASSUME NEW w \in Ids, Take(w) PROVE Sums'
    <3>1. PICK i : i = Head(incoming)
      OBVIOUS
    <3>2. /\ Len(incoming) \in Nat /\ 1 \in 1 .. Len(incoming) /\ i = incoming[1] /\ i \in Images
      BY <2>4, <3>1 DEF Take, Shape, TypeOK
    <3>3. i \notin finished /\ \A v \in Ids : Image(v) # i
      BY <2>0, <3>2 DEF EachImageOnce
    <3>4. /\ worker'[w] = GetLogger(i, "load")
          /\ \A v \in Ids : v # w => worker'[v] = worker[v]
          /\ UNCHANGED <<main, finished, refused, indisk, outdisk>>
      BY <2>4, <3>1 DEF Take, Shape, TypeOK, counts, history
    <3>5. /\ Image(w)' = i /\ ~Loaded(w)' /\ ~At(w, "count")' /\ ~At(w, "failed")'
      BY <3>4 DEF GetLogger, Image, Loaded, At, Logging
    <3>6. Image(w) = NoImage
      BY <2>4 DEF Take, Shape, Hands
    <3>7. Same(i)
      <4>1. ~IsOut(i) /\ ~IsIn(i) /\ ~MayBeIn(i)
        BY <3>3 DEF IsOut, IsIn, MayBeIn
      <4>2. \A v \in Ids : Image(v)' = i => v = w
        BY <3>3, <3>4 DEF Image
      <4>3. i \notin finished'
        BY <3>3, <3>4
      <4>4. ~IsOut(i)' /\ ~IsIn(i)' /\ ~MayBeIn(i)'
        BY <3>5, <4>2, <4>3 DEF IsOut, IsIn, MayBeIn
      <4> QED BY <4>1, <4>4 DEF Same
    <3>8. \A j \in Images : j # i => Same(j)
      <4> SUFFICES ASSUME NEW j \in Images, j # i PROVE Same(j)
        OBVIOUS
      <4>1. /\ j # Image(w) /\ j # Image(w)' /\ (j \in finished' <=> j \in finished)
            /\ j \in refused' <=> j \in refused
        BY <3>4, <3>5, <3>6, ImagesAssumption
      <4> QED BY <3>4, <4>1, OthersSame
    <3> QED BY <3>4, <3>7, <3>8, AllSame
  <2>5. ASSUME NEW w \in Ids, Exit(w) PROVE Sums'
    <3>1. /\ Image(w) = NoImage /\ Image(w)' = NoImage
          /\ \A v \in Ids : v # w => worker'[v] = worker[v]
          /\ UNCHANGED <<main, finished, refused, indisk, outdisk>>
      BY <2>5, Moved DEF Exit, Shape, Hands, Image, counts, history
    <3>2. \A j \in Images : Same(j)
      <4> SUFFICES ASSUME NEW j \in Images PROVE Same(j)
        OBVIOUS
      <4>1. /\ j # Image(w) /\ j # Image(w)' /\ (j \in finished' <=> j \in finished)
            /\ j \in refused' <=> j \in refused
        BY <3>1, ImagesAssumption
      <4> QED BY <3>1, <4>1, OthersSame
    <3> QED BY <3>1, <3>2, AllSame
  <2>6. ASSUME NEW w \in Ids, Count(w) \/ Fail(w) PROVE Sums'
    BY <2>0, <2>6, SumsRest
  <2> QED
    BY <1>3, <2>1, <2>2, <2>3, <2>4, <2>5, <2>6, NextCases
<1> QED
  BY <1>1, <1>2, <1>3 DEF Sums

\* When the workers are done, only the images they are done with count.
LEMMA SumsOfReport ==
  ASSUME Shape, Sums, Walking, WorkersDone
  PROVE  ReportAddsUp
<1>1. \A w \in Ids : Image(w) = NoImage
  BY DEF Shape, Hands, Quiet, WorkersDone, Ids
<1>2. \A i \in Images, w \in Ids : Image(w) # i
  BY <1>1, ImagesAssumption
<1>3. /\ OutImages = finished \cap (Good \ Stopped)
      /\ InImages = (finished \cap (Good \ Stopped)) \cup (finished \cap (Partial \cup Stopped))
      /\ MaybeImages = finished \ Unreadable
  <2>1. Stopped \subseteq Good
    BY ImagesAssumption DEF Stopped
  <2> QED
    BY <1>2, <2>1 DEF Shape, TypeOK, OutImages, InImages, MaybeImages, IsOut, IsIn, MayBeIn, Ends
<1>4. PICK S, T : S = finished \cap (Good \ Stopped) /\ T = finished \cap (Partial \cup Stopped)
  OBVIOUS
<1>5. Cardinality(InImages) = Cardinality(S) + Cardinality(T)
  <2>1. IsFiniteSet(S) /\ IsFiniteSet(T)
    BY <1>4, ImagesAssumption, FS_Subset DEF Shape, TypeOK
  <2>2. S \cap T = {}
    BY <1>4, ImagesAssumption DEF Good
  <2>3. Cardinality(S \cap T) = 0
    BY <2>2, FS_EmptySet
  <2>4. Cardinality(S) \in Nat /\ Cardinality(T) \in Nat
    BY <2>1, FS_CardinalityType
  <2>5. Cardinality(S \cup T) = Cardinality(S) + Cardinality(T) - Cardinality(S \cap T)
    BY <2>1, FS_Union
  <2>6. Cardinality(S \cup T) = Cardinality(S) + Cardinality(T)
    BY <2>3, <2>4, <2>5
  <2> QED BY <1>3, <1>4, <2>6
<1> QED BY <1>3, <1>4, <1>5 DEF Sums, ReportAddsUp

\* The report's sums: as many images are out as were analyzed to the end, the
\* ones whose analysis returned early, or failed because the host refused the
\* fingerprint, are in and not out, and none that could not be read is in,
\* however the workers' counting falls.
THEOREM ReportSums == Spec => []ReportAddsUp
<1>1. Init => Sums
  BY DEF Init, Sums, Walking
<1>2. Prints => \A w \in Ids : PrintBy(w)
  BY DEF Prints
<1>3. /\ Shape /\ EachImageOnce /\ EachImageOnce' /\ (\A w \in Ids : PrintBy(w)) /\ Refusals
      /\ Sums /\ [Next]_vars
      => Sums'
  BY SumsNext
<1>4. Shape /\ EachImageOnce /\ EachImageOnce' /\ Prints /\ Refusals /\ Sums /\ [Next]_vars => Sums'
  BY <1>2, <1>3
<1>5. Shape /\ Sums => ReportAddsUp
  BY SumsOfReport DEF ReportAddsUp
<1> QED
  BY <1>1, <1>4, <1>5, ShapeAlways, ImagesAreAnalyzedOnce, PrintsAlways, RefusalsAlways, PTL DEF Spec
==============================================================================
