---------------------------- MODULE Overlaps_proofs ----------------------------
(***************************************************************************)
(* The reports that compare all disks, for any number of fingerprints,     *)
(* loaders, comparers and places in the channel: whatever the goroutines   *)
(* do in which order, a report is about every disk, holds what comparing   *)
(* it with all the others gives, and says the same of two disks from both  *)
(* sides.                                                                  *)
(***************************************************************************)
EXTENDS Overlaps, NumberLemmas

\* What is handed out and not done: to be sent, in the channel, in a hand.
Pending(x) ==
  \/ x \in feed
  \/ \E i \in 1 .. Len(workchan) : workchan[i] = x
  \/ \E w \in Here : hand[w] = x

\* What is handed out in this phase, to the workers of this phase.
Items == IF phase = "load" THEN Fingerprints ELSE DOMAIN table

Handing ==
  /\ feed \subseteq Items
  /\ workchan \in Seq(Items)
  /\ hand \in [Workers -> Items \cup {None}]
  /\ \A w \in Workers : hand[w] # None => w \in Here \ exited
  /\ Here \cap exited # {} => closed /\ workchan = <<>>
  /\ closed /\ feed # {} => ctrlC = "closed"

\* What the table says is what some fingerprint of the path says.
TableSound ==
  /\ table = [p \in DOMAIN table |-> table[p]]
  /\ \A p \in DOMAIN table : p \in Paths /\ \E f \in Good(p) : table[p] = Loaded(store[f])

\* What the results say is what comparing with all the others gives.
ResultsSound ==
  /\ results = [m \in DOMAIN results |-> results[m]]
  /\ \A m \in DOMAIN results :
       m \in DOMAIN table /\ results[m] = OverlapRecord(m) /\ Entered(results[m])

LoadInv ==
  /\ Handing
  /\ exited \subseteq Loaders
  /\ results = NoPaths
  /\ ctrlC = "none"
  /\ \A p \in Paths : \A f \in Good(p) : p \in DOMAIN table \/ Pending(f)

CompareInv ==
  /\ Handing
  /\ Loaders \subseteq exited
  /\ \A p \in Paths : Good(p) # {} => p \in DOMAIN table
  /\ \A m \in DOMAIN table :
       Entered(OverlapRecord(m)) => m \in DOMAIN results \/ Pending(m)

Inv ==
  /\ TypeOK
  /\ TableSound
  /\ ResultsSound
  /\ phase = "load" => LoadInv
  /\ phase = "compare" => CompareInv
  /\ ReportIsWhole

------------------------------------------------------------------------------
\* The loaders work in the first phase, the comparers in the second.
LEMMA WorkersHere ==
  /\ Here \subseteq Workers
  /\ phase = "load" => Here = Loaders
  /\ phase = "compare" => Here = Comparers
BY DEF Here, Workers

\* A step of the handing out loses no item.
LEMMA FeedHands ==
  ASSUME TypeOK, Handing, NEW x \in feed, Feed(x)
  PROVE  /\ Handing'
         /\ \A y : Pending(y) => Pending(y)'
<1>1. /\ workchan \in Seq(Items) /\ x \in Items
      /\ workchan' = Append(workchan, x) /\ feed' = feed \ {x} /\ ~closed
      /\ UNCHANGED <<phase, table, closed, hand, exited, ctrlC>>
  BY DEF Handing, Feed
<1>2. Items' = Items /\ Here' = Here BY <1>1 DEF Items, Here
<1>3. /\ workchan' \in Seq(Items)
      /\ Len(workchan') = Len(workchan) + 1
      /\ \A i \in 1 .. Len(workchan) : workchan'[i] = workchan[i]
      /\ workchan'[Len(workchan) + 1] = x
      /\ Len(workchan) \in Nat
  BY <1>1
<1>4. Handing' BY <1>1, <1>2, <1>3 DEF Handing
<1>5. ASSUME NEW y, Pending(y) PROVE Pending(y)'
  <2>1. CASE y = x BY <1>3, <2>1 DEF Pending
  <2>2. CASE y # x /\ y \in feed BY <1>1, <2>2 DEF Pending
  <2>3. CASE \E i \in 1 .. Len(workchan) : workchan[i] = y
    <3>1. PICK i \in 1 .. Len(workchan) : workchan[i] = y BY <2>3
    <3>2. i \in 1 .. Len(workchan') /\ workchan'[i] = y BY <1>3, <3>1
    <3> QED BY <3>2 DEF Pending
  <2>4. CASE \E w \in Here : hand[w] = y BY <1>1, <1>2, <2>4 DEF Pending
  <2> QED BY <1>5, <2>1, <2>2, <2>3, <2>4 DEF Pending
<1> QED BY <1>4, <1>5

LEMMA TakeHands ==
  ASSUME TypeOK, Handing, NEW w \in Workers, Take(w)
  PROVE  /\ Handing'
         /\ \A y : y # None /\ Pending(y) => Pending(y)'
<1>1. /\ workchan \in Seq(Items) /\ workchan # <<>> /\ hand[w] = None
      /\ w \in Here /\ w \notin exited
      /\ workchan' = Tail(workchan) /\ hand' = [hand EXCEPT ![w] = Head(workchan)]
      /\ UNCHANGED <<phase, table, closed, feed, exited, ctrlC>>
      /\ hand \in [Workers -> Items \cup {None}]
  BY DEF Handing, Take
<1>2. Items' = Items /\ Here' = Here BY <1>1 DEF Items, Here
<1>3. /\ workchan' \in Seq(Items)
      /\ Head(workchan) = workchan[1] /\ Head(workchan) \in Items
      /\ Len(workchan) \in Nat /\ Len(workchan') = Len(workchan) - 1
      /\ \A i \in 1 .. Len(workchan') : workchan'[i] = workchan[i + 1]
  BY <1>1
<1>4. Handing' BY <1>1, <1>2, <1>3 DEF Handing
<1>5. ASSUME NEW y, y # None, Pending(y) PROVE Pending(y)'
  <2>1. CASE y \in feed BY <1>1, <2>1 DEF Pending
  <2>2. CASE \E i \in 1 .. Len(workchan) : workchan[i] = y
    <3>1. PICK i \in 1 .. Len(workchan) : workchan[i] = y BY <2>2
    <3>2. CASE i = 1
      <4>1. hand'[w] = y BY <1>1, <1>3, <3>1, <3>2
      <4> QED BY <1>1, <1>2, <4>1 DEF Pending
    <3>3. CASE i # 1
      <4>1. i - 1 \in 1 .. Len(workchan') /\ workchan'[i - 1] = y BY <1>3, <3>1, <3>3
      <4> QED BY <4>1 DEF Pending
    <3> QED BY <3>2, <3>3
  <2>3. CASE \E v \in Here : hand[v] = y
    <3>1. PICK v \in Here : hand[v] = y BY <2>3
    <3>2. v # w /\ v \in Workers BY <1>1, <1>5, <3>1, WorkersHere
    <3>3. hand'[v] = y BY <1>1, <3>1, <3>2
    <3> QED BY <1>2, <3>1, <3>3 DEF Pending
  <2> QED BY <1>5, <2>1, <2>2, <2>3 DEF Pending
<1> QED BY <1>4, <1>5

\* A worker that has done its item has it no longer, and nothing else gets lost.
LEMMA DoneHands ==
  ASSUME TypeOK, Handing, NEW w \in Workers, hand[w] # None, Done(w),
         UNCHANGED <<phase, feed, workchan, closed, exited, ctrlC>>, Items' = Items
  PROVE  /\ Handing'
         /\ \A y : y # hand[w] /\ Pending(y) => Pending(y)'
<1>1. /\ hand \in [Workers -> Items \cup {None}]
      /\ hand' = [hand EXCEPT ![w] = None]
  BY DEF Handing, Done
<1>2. Here' = Here BY DEF Here
<1>3. Handing' BY <1>1, <1>2 DEF Handing
<1>4. ASSUME NEW y, y # hand[w], Pending(y) PROVE Pending(y)'
  <2>1. CASE \E v \in Here : hand[v] = y
    <3>1. PICK v \in Here : hand[v] = y BY <2>1
    <3>2. v # w /\ v \in Workers BY <1>4, <3>1, WorkersHere
    <3>3. hand'[v] = y BY <1>1, <3>1, <3>2
    <3> QED BY <1>2, <3>1, <3>3 DEF Pending
  <2> QED BY <1>4, <2>1 DEF Pending
<1> QED BY <1>3, <1>4
------------------------------------------------------------------------------
\* What the steps of the handing out leave alone.
LEMMA RecordFrame ==
  ASSUME UNCHANGED <<report, table>>, NEW m
  PROVE  /\ OverlapRecord(m)' = OverlapRecord(m)
         /\ Entered(OverlapRecord(m))' = Entered(OverlapRecord(m))
BY DEF OverlapRecord, Entered, Keep, Compare,
       AboveThreshold, IsSubsetOf, KeeperAtLeastNSame, KeeperMaximumNDiff

LEMMA GoodFrame ==
  ASSUME UNCHANGED <<store, report>>, NEW p
  PROVE  Good(p)' = Good(p) /\ \A d : Loaded(d)' = Loaded(d)
BY DEF Good, Loads, Loaded

LEMMA SoundFrame ==
  ASSUME TableSound, ResultsSound, UNCHANGED <<store, report, table, results>>
  PROVE  TableSound' /\ ResultsSound'
<1>1. \A p : /\ Good(p)' = Good(p)
             /\ (\A d : Loaded(d)' = Loaded(d))
             /\ OverlapRecord(p)' = OverlapRecord(p)
  BY GoodFrame, RecordFrame
<1>2. TableSound' BY <1>1 DEF TableSound
<1>3. ResultsSound' BY <1>1 DEF ResultsSound, Entered
<1> QED BY <1>2, <1>3

\* A step that changes nothing but what is handed out, and loses none of it.
LEMMA HandStep ==
  ASSUME Inv, TypeOK', Running, Handing',
         UNCHANGED <<store, report, phase, table, results>>,
         \A x \in Fingerprints \cup Paths : Pending(x) => Pending(x)',
         phase = "load" => exited' \subseteq Loaders /\ ctrlC' = "none",
         phase = "compare" => exited \subseteq exited'
  PROVE  Inv'
<1>1. TableSound' /\ ResultsSound' BY SoundFrame DEF Inv
<1>2. (phase = "load" => LoadInv)'
  <2>1. \A p \in Paths : Good(p)' = Good(p) BY GoodFrame
  <2>2. \A p \in Paths : Good(p) \subseteq Fingerprints BY DEF Good
  <2> QED BY <2>1, <2>2 DEF Inv, LoadInv
<1>3. (phase = "compare" => CompareInv)'
  <2>1. \A p \in Paths : Good(p)' = Good(p) BY GoodFrame
  <2>2. \A m : /\ OverlapRecord(m)' = OverlapRecord(m)
               /\ Entered(OverlapRecord(m))' = Entered(OverlapRecord(m))
    BY RecordFrame
  <2>3. DOMAIN table \subseteq Paths BY DEF Inv, TableSound
  <2> QED BY <2>1, <2>2, <2>3 DEF Inv, CompareInv
<1>4. ReportIsWhole' BY DEF Running, ReportIsWhole
<1> QED BY <1>1, <1>2, <1>3, <1>4 DEF Inv

LEMMA FeedInv ==
  ASSUME Inv, NEW x \in feed, Feed(x)
  PROVE  Inv'
<1>1. TypeOK /\ Running /\ Handing BY DEF Inv, Feed, Running, LoadInv, CompareInv
<1>2. Handing' /\ \A y : Pending(y) => Pending(y)' BY <1>1, FeedHands
<1>3. TypeOK'
  <2>1. Len(workchan') <= Cap
    <3>1. workchan \in Seq(Items) /\ x \in Items BY <1>1 DEF Handing
    <3>2. Len(workchan') = Len(workchan) + 1 /\ Len(workchan) \in Nat BY <3>1 DEF Feed
    <3> QED BY <3>2, WorkerAssumption DEF Feed
  <2> QED BY <1>1, <2>1 DEF TypeOK, Feed
<1> QED BY <1>1, <1>2, <1>3, HandStep DEF Feed, Inv, LoadInv, CompareInv

LEMMA CloseInv ==
  ASSUME Inv, CloseWhenFed \/ CloseInterrupted
  PROVE  Inv'
<1>1. TypeOK /\ Running /\ Handing
  BY DEF Inv, CloseWhenFed, CloseInterrupted, Running, LoadInv, CompareInv
<1>2. UNCHANGED <<store, report, phase, feed, workchan, hand, exited, table, results>>
  BY DEF CloseWhenFed, CloseInterrupted
<1>3. Items' = Items /\ Here' = Here BY <1>2 DEF Items, Here
<1>4. Handing' BY <1>1, <1>2, <1>3 DEF Handing, CloseWhenFed, CloseInterrupted
<1>5. \A y : Pending(y) => Pending(y)' BY <1>2, <1>3 DEF Pending
<1>6. TypeOK' BY <1>1, <1>2 DEF TypeOK, CloseWhenFed, CloseInterrupted
<1>7. phase = "load" => ctrlC' = "none"
  BY DEF Inv, LoadInv, CloseWhenFed, CloseInterrupted
<1> QED BY <1>1, <1>2, <1>4, <1>5, <1>6, <1>7, HandStep DEF Inv, LoadInv, CompareInv

LEMMA TakeInv ==
  ASSUME Inv, NEW w \in Workers, Take(w)
  PROVE  Inv'
<1>1. TypeOK /\ Running /\ Handing BY DEF Inv, Take, Running, LoadInv, CompareInv
<1>2. Handing' /\ \A y : y # None /\ Pending(y) => Pending(y)' BY <1>1, TakeHands
<1>3. \A y \in Fingerprints \cup Paths : Pending(y) => Pending(y)' BY <1>2, ItemAssumption
<1>4. TypeOK'
  <2>1. workchan \in Seq(Items) /\ workchan # <<>> BY <1>1 DEF Handing, Take
  <2>2. Len(workchan') = Len(workchan) - 1 /\ Len(workchan) \in Nat BY <2>1 DEF Take
  <2>3. Len(workchan') <= Cap BY <1>1, <2>2, WorkerAssumption DEF TypeOK
  <2>4. Head(workchan) \in Fingerprints \cup Paths
    <3>1. Items \subseteq Fingerprints \cup Paths BY <1>1 DEF Items, TypeOK
    <3> QED BY <2>1, <3>1
  <2> QED BY <1>1, <2>3, <2>4 DEF TypeOK, Take
<1> QED BY <1>1, <1>2, <1>3, <1>4, HandStep DEF Take, Inv, LoadInv, CompareInv

LEMMA ExitInv ==
  ASSUME Inv, NEW w \in Workers, Exit(w)
  PROVE  Inv'
<1>1. TypeOK /\ Running /\ Handing BY DEF Inv, Exit, Running, LoadInv, CompareInv
<1>2. /\ w \in Here /\ hand[w] = None /\ closed /\ workchan = <<>>
      /\ exited' = exited \cup {w}
      /\ UNCHANGED <<store, report, phase, feed, workchan, closed, hand, table, results, ctrlC>>
  BY DEF Exit
<1>3. Items' = Items /\ Here' = Here BY <1>2 DEF Items, Here
<1>4. Handing' BY <1>1, <1>2, <1>3 DEF Handing
<1>5. \A y : Pending(y) => Pending(y)' BY <1>2, <1>3 DEF Pending
<1>6. TypeOK' BY <1>1, <1>2 DEF TypeOK
<1>7. phase = "load" => exited' \subseteq Loaders BY <1>2, WorkersHere DEF Inv, LoadInv
<1> QED BY <1>1, <1>2, <1>4, <1>5, <1>6, <1>7, HandStep DEF Inv, LoadInv, CompareInv

\* A loader enters what its fingerprint says into the table.
LEMMA LoadStep ==
  ASSUME Inv, NEW w \in Workers, Load(w)
  PROVE  Inv'
<1> DEFINE f == hand[w]
           loads == store[f] # Torn /\ Loads(store[f])
<1>1. /\ Running /\ w \in Loaders /\ f # None
      /\ UNCHANGED <<store, report, phase, feed, workchan, closed, exited, results, ctrlC>>
      /\ table' = IF loads
                  THEN [p \in DOMAIN table \cup {PathOf[f]} |->
                          IF p = PathOf[f] THEN Loaded(store[f]) ELSE table[p]]
                  ELSE table
      /\ Done(w)
  BY DEF Load
<1>2. TypeOK /\ Handing /\ TableSound /\ ResultsSound
  BY <1>1 DEF Inv, Running, LoadInv, CompareInv
<1>3. phase = "load"
  <2>1. phase # "compare"
    BY <1>1, <1>2, WorkersHere, WorkerAssumption DEF Handing
  <2> QED BY <1>1, <2>1 DEF Running
<1>4. LoadInv BY <1>3 DEF Inv
<1>5. f \in Fingerprints BY <1>1, <1>2, <1>3 DEF Handing, Items
<1>6. PathOf[f] \in Paths BY <1>5 DEF Paths
<1>7. Items' = Items BY <1>1, <1>3 DEF Items
<1>8. Handing' /\ \A y : y # f /\ Pending(y) => Pending(y)'
  BY <1>1, <1>2, <1>7, DoneHands
<1>9. DOMAIN table' = DOMAIN table \cup (IF loads THEN {PathOf[f]} ELSE {})
  BY <1>1
<1>10. results = NoPaths /\ DOMAIN results = {} BY <1>4 DEF LoadInv, NoPaths
<1>11. TypeOK'
  <2>1. hand' \in [Workers -> Fingerprints \cup Paths \cup {None}]
    BY <1>1, <1>2 DEF TypeOK, Done
  <2> QED BY <1>1, <1>2, <1>6, <1>9, <1>10, <2>1 DEF TypeOK
<1>12. \A p : Good(p)' = Good(p) /\ \A d : Loaded(d)' = Loaded(d) BY <1>1, GoodFrame
<1>13. TableSound'
  <2>1. table' = [p \in DOMAIN table' |-> table'[p]]
    BY <1>1, <1>2 DEF TableSound
  <2>2. ASSUME NEW p \in DOMAIN table'
        PROVE  p \in Paths /\ \E g \in Good(p) : table'[p] = Loaded(store[g])
    <3>1. CASE loads /\ p = PathOf[f]
      <4>1. f \in Good(p) BY <1>5, <3>1 DEF Good
      <4> QED BY <1>1, <1>6, <3>1, <4>1
    <3>2. CASE ~(loads /\ p = PathOf[f])
      <4>1. p \in DOMAIN table /\ table'[p] = table[p] BY <1>1, <1>9, <3>2
      <4> QED BY <1>2, <4>1 DEF TableSound
    <3> QED BY <3>1, <3>2
  <2>3. \A p \in DOMAIN table' :
          p \in Paths /\ \E g \in Good(p)' : table'[p] = Loaded(store[g])'
    BY <1>1, <1>12, <2>2
  <2> QED BY <2>1, <2>3 DEF TableSound
<1>14. ResultsSound' BY <1>1, <1>2, <1>10 DEF ResultsSound
<1>15. LoadInv'
  <2>1. ASSUME NEW p \in Paths, NEW g \in Good(p)
        PROVE  p \in DOMAIN table' \/ Pending(g)'
    <3>1. CASE g = f
      <4>1. loads /\ p = PathOf[f] BY <3>1 DEF Good
      <4> QED BY <1>9, <4>1
    <3>2. CASE g # f BY <1>4, <1>8, <1>9, <3>2 DEF LoadInv
    <3> QED BY <3>1, <3>2
  <2> QED BY <1>1, <1>4, <1>8, <1>12, <2>1 DEF LoadInv
<1> QED BY <1>1, <1>3, <1>11, <1>13, <1>14, <1>15 DEF Inv, ReportIsWhole

\* A comparer enters what it keeps of the comparisons of one disk.
LEMMA CompareStep ==
  ASSUME Inv, NEW w \in Workers, CompareWithOthers(w)
  PROVE  Inv'
<1> DEFINE m == hand[w]
           record == OverlapRecord(m)
<1>1. /\ Running /\ w \in Comparers /\ m # None
      /\ UNCHANGED <<store, report, phase, feed, workchan, closed, exited, table, ctrlC>>
      /\ results' = IF Entered(record)
                    THEN [p \in DOMAIN results \cup {m} |-> IF p = m THEN record ELSE results[p]]
                    ELSE results
      /\ Done(w)
  BY DEF CompareWithOthers
<1>2. TypeOK /\ Handing /\ TableSound /\ ResultsSound
  BY <1>1 DEF Inv, Running, LoadInv, CompareInv
<1>3. phase = "compare"
  <2>1. phase # "load"
    BY <1>1, <1>2, WorkersHere, WorkerAssumption DEF Handing
  <2> QED BY <1>1, <2>1 DEF Running
<1>4. CompareInv BY <1>3 DEF Inv
<1>5. m \in DOMAIN table BY <1>1, <1>2, <1>3 DEF Handing, Items
<1>6. Items' = Items BY <1>1 DEF Items
<1>7. Handing' /\ \A y : y # m /\ Pending(y) => Pending(y)'
  BY <1>1, <1>2, <1>6, DoneHands
<1>8. DOMAIN results' = DOMAIN results \cup (IF Entered(record) THEN {m} ELSE {})
  BY <1>1
<1>9. \A k : /\ OverlapRecord(k)' = OverlapRecord(k)
             /\ Entered(OverlapRecord(k))' = Entered(OverlapRecord(k))
  BY <1>1, RecordFrame
<1>10. \A p : Good(p)' = Good(p) /\ \A d : Loaded(d)' = Loaded(d) BY <1>1, GoodFrame
<1>11. ResultsSound'
  <2>1. results' = [k \in DOMAIN results' |-> results'[k]]
    BY <1>1, <1>2 DEF ResultsSound
  <2>2. ASSUME NEW k \in DOMAIN results'
        PROVE  k \in DOMAIN table /\ results'[k] = OverlapRecord(k) /\ Entered(results'[k])
    <3>1. CASE k = m /\ Entered(record) BY <1>1, <1>5, <3>1
    <3>2. CASE ~(k = m /\ Entered(record))
      <4>1. k \in DOMAIN results /\ results'[k] = results[k] BY <1>1, <1>8, <3>2
      <4> QED BY <1>2, <4>1 DEF ResultsSound
    <3> QED BY <3>1, <3>2
  <2> QED BY <1>1, <1>9, <2>1, <2>2 DEF ResultsSound, Entered
<1>12. TableSound' BY <1>1, <1>2, <1>10 DEF TableSound
<1>13. TypeOK'
  <2>1. hand' \in [Workers -> Fingerprints \cup Paths \cup {None}]
    BY <1>1, <1>2 DEF TypeOK, Done
  <2>2. ASSUME NEW k \in DOMAIN results'
        PROVE  DOMAIN results'[k] \subseteq DOMAIN table' \ {k}
    <3>1. results'[k] = OverlapRecord(k) BY <1>9, <1>11, <2>2 DEF ResultsSound
    <3> QED BY <1>1, <3>1 DEF OverlapRecord
  <2> QED BY <1>1, <1>2, <1>5, <1>8, <2>1, <2>2 DEF TypeOK
<1>14. CompareInv'
  <2>1. ASSUME NEW k \in DOMAIN table, Entered(OverlapRecord(k))
        PROVE  k \in DOMAIN results' \/ Pending(k)'
    <3>1. CASE k = m BY <1>8, <2>1, <3>1
    <3>2. CASE k # m BY <1>4, <1>7, <1>8, <2>1, <3>2 DEF CompareInv
    <3> QED BY <3>1, <3>2
  <2> QED BY <1>1, <1>4, <1>7, <1>9, <1>10, <2>1 DEF CompareInv
<1> QED BY <1>1, <1>3, <1>11, <1>12, <1>13, <1>14 DEF Inv, ReportIsWhole

\* When all loaders have returned nothing is pending: the table is complete.
LEMMA StartCompareInv ==
  ASSUME Inv, StartCompare
  PROVE  Inv'
<1>1. /\ phase = "load" /\ closed /\ Loaders \subseteq exited /\ phase' = "compare"
      /\ feed' = DOMAIN table /\ ~closed' /\ ctrlC' = "empty"
      /\ UNCHANGED <<store, report, workchan, hand, exited, table, results>>
  BY DEF StartCompare
<1>2. TypeOK /\ LoadInv /\ Handing /\ TableSound /\ ResultsSound BY <1>1 DEF Inv, LoadInv
<1>3. Here = Loaders /\ Here' = Comparers BY <1>1, WorkersHere DEF Here
<1>4. workchan = <<>> /\ feed = {} /\ \A w \in Workers : hand[w] = None
  BY <1>1, <1>2, <1>3, WorkerAssumption DEF Handing, LoadInv
<1>5. \A f \in Fingerprints : ~Pending(f)
  BY <1>4, ItemAssumption, WorkersHere DEF Pending
<1>6. \A p \in Paths : Good(p) # {} => p \in DOMAIN table
  BY <1>2, <1>5 DEF LoadInv, Good
<1>7. exited' = Loaders /\ Here' \cap exited' = {}
  BY <1>1, <1>2, <1>3, WorkerAssumption DEF LoadInv
<1>8. Items' = DOMAIN table BY <1>1 DEF Items
<1>9. Handing'
  <2>1. workchan' \in Seq(DOMAIN table) BY <1>1, <1>4
  <2>2. hand' \in [Workers -> DOMAIN table \cup {None}]
    BY <1>1, <1>2, <1>4 DEF TypeOK
  <2> QED BY <1>1, <1>4, <1>7, <1>8, <2>1, <2>2 DEF Handing
<1>10. TableSound' /\ ResultsSound' BY <1>1, <1>2, SoundFrame
<1>11. TypeOK' BY <1>1, <1>2 DEF TypeOK
<1>12. \A p : Good(p)' = Good(p) BY <1>1, GoodFrame
<1>13. CompareInv' BY <1>1, <1>6, <1>7, <1>9, <1>12 DEF CompareInv, Pending
<1> QED BY <1>1, <1>10, <1>11, <1>13 DEF Inv, ReportIsWhole

\* When all comparers have returned, what is not compared was never handed out.
LEMMA FinishInv ==
  ASSUME Inv, Finish
  PROVE  Inv'
<1>1. /\ phase = "compare" /\ closed /\ Comparers \subseteq exited /\ phase' = "done"
      /\ UNCHANGED <<store, report, feed, workchan, closed, hand, exited, table, results, ctrlC>>
  BY DEF Finish
<1>2. TypeOK /\ CompareInv /\ Handing /\ TableSound /\ ResultsSound
  BY <1>1 DEF Inv, CompareInv
<1>3. Here = Comparers BY <1>1, WorkersHere
<1>4. workchan = <<>> /\ (feed # {} => ctrlC = "closed") /\ \A w \in Comparers : hand[w] = None
  BY <1>1, <1>2, <1>3, WorkersHere, WorkerAssumption DEF Handing
<1>5. ASSUME ctrlC # "closed", NEW m \in DOMAIN table PROVE ~Pending(m)
  <2>1. m # None BY <1>2, <1>5, ItemAssumption DEF TypeOK
  <2> QED BY <1>3, <1>4, <1>5, <2>1 DEF Pending
<1>6. TableSound' /\ ResultsSound' BY <1>1, <1>2, SoundFrame
<1>7. TypeOK' BY <1>1, <1>2 DEF TypeOK
<1>8. DOMAIN table = {p \in Paths : Good(p) # {}}
  BY <1>2 DEF CompareInv, TableSound
<1>9. ctrlC # "closed" => DOMAIN results = {m \in DOMAIN table : Entered(OverlapRecord(m))}
  BY <1>2, <1>5 DEF CompareInv, ResultsSound
<1>10. \A p : /\ Good(p)' = Good(p)
              /\ (\A d : Loaded(d)' = Loaded(d))
              /\ OverlapRecord(p)' = OverlapRecord(p)
              /\ Entered(OverlapRecord(p))' = Entered(OverlapRecord(p))
  BY <1>1, GoodFrame, RecordFrame
<1>11. ReportIsWhole'
  BY <1>1, <1>2, <1>8, <1>9, <1>10 DEF ReportIsWhole, TableSound, ResultsSound
<1> QED BY <1>1, <1>6, <1>7, <1>11 DEF Inv

LEMMA InterruptInv ==
  ASSUME Inv, Interrupt
  PROVE  Inv'
<1>1. /\ Running
      /\ UNCHANGED <<store, report, feed, workchan, closed, hand, exited, table, results>>
  BY DEF Interrupt
<1>2. TypeOK /\ Handing /\ TableSound /\ ResultsSound
  BY <1>1 DEF Inv, Running, LoadInv, CompareInv
<1>3. TypeOK' BY <1>1, <1>2 DEF TypeOK, Interrupt
<1>4. TableSound' /\ ResultsSound' BY <1>1, <1>2, SoundFrame
<1>5. CASE phase' = "crashed" BY <1>3, <1>4, <1>5 DEF Inv, ReportIsWhole
<1>6. CASE ctrlC = "empty" /\ ctrlC' = "full" /\ phase' = phase
  <2>1. phase = "compare" BY <1>1, <1>6 DEF Running, Inv, LoadInv
  <2>2. Items' = Items /\ Here' = Here BY <1>1, <1>6 DEF Items, Here
  <2>3. Handing' BY <1>1, <1>2, <1>6, <2>2 DEF Handing
  <2>4. \A y : Pending(y) => Pending(y)' BY <1>1, <2>2 DEF Pending
  <2> QED BY <1>1, <1>3, <1>6, <2>1, <2>3, <2>4, HandStep DEF Inv
<1> QED BY <1>5, <1>6 DEF Interrupt
------------------------------------------------------------------------------
LEMMA InitInv ==
  ASSUME Init
  PROVE  Inv
<1>1. DOMAIN NoPaths = {} BY DEF NoPaths
<1>2. Here = Loaders /\ Items = Fingerprints BY DEF Init, Here, Items
<1>3. TypeOK BY <1>1, WorkerAssumption DEF Init, TypeOK
<1>4. Handing BY <1>2 DEF Init, Handing
<1>5. TableSound /\ ResultsSound BY <1>1 DEF Init, TableSound, ResultsSound, NoPaths
<1>6. \A p \in Paths : \A f \in Good(p) : Pending(f) BY DEF Init, Good, Pending
<1>7. LoadInv BY <1>4, <1>6 DEF Init, LoadInv
<1> QED BY <1>3, <1>5, <1>7 DEF Init, Inv, ReportIsWhole

LEMMA NextInv ==
  ASSUME Inv, [Next]_vars
  PROVE  Inv'
<1>1. CASE UNCHANGED vars
  <2>1. Items' = Items /\ Here' = Here BY <1>1 DEF vars, Items, Here
  <2>2. \A y : Pending(y)' <=> Pending(y) BY <1>1, <2>1 DEF vars, Pending
  <2>3. \A p : /\ Good(p)' = Good(p)
               /\ (\A d : Loaded(d)' = Loaded(d))
               /\ OverlapRecord(p)' = OverlapRecord(p)
               /\ Entered(OverlapRecord(p))' = Entered(OverlapRecord(p))
    BY <1>1, GoodFrame, RecordFrame DEF vars
  <2>4. TypeOK' BY <1>1 DEF Inv, TypeOK, vars
  <2>5. TableSound' /\ ResultsSound' BY <1>1, SoundFrame DEF Inv, vars
  <2>6. (phase = "load" => LoadInv)'
    BY <1>1, <2>1, <2>2, <2>3 DEF Inv, LoadInv, Handing, vars
  <2>7. (phase = "compare" => CompareInv)'
    BY <1>1, <2>1, <2>2, <2>3 DEF Inv, CompareInv, Handing, vars
  <2>8. ReportIsWhole' BY <1>1, <2>3 DEF Inv, ReportIsWhole, vars
  <2> QED BY <2>4, <2>5, <2>6, <2>7, <2>8 DEF Inv
<1>2. CASE Next
  BY <1>2, FeedInv, CloseInv, TakeInv, ExitInv, LoadStep, CompareStep, StartCompareInv,
     FinishInv, InterruptInv DEF Next, Step
<1> QED BY <1>1, <1>2

\* The reports stay well typed, and the channel within its capacity.
THEOREM OverlapsTyped == Spec => []TypeOK
<1>1. Init => Inv BY InitInv
<1>2. Inv /\ [Next]_vars => Inv' BY NextInv
<1>3. Inv => TypeOK BY DEF Inv
<1> QED BY <1>1, <1>2, <1>3, PTL DEF Spec

\* A report is about all disks with a fingerprint that can be read, and holds for each of
\* them what comparing it with all the others gives, whatever the order in which the
\* goroutines load and compare; one that was cut short holds that for some of them.
THEOREM ReportsAreWhole == Spec => []ReportIsWhole
<1>1. Init => Inv BY InitInv
<1>2. Inv /\ [Next]_vars => Inv' BY NextInv
<1>3. Inv => ReportIsWhole BY DEF Inv
<1> QED BY <1>1, <1>2, <1>3, PTL DEF Spec
------------------------------------------------------------------------------
\* What two comparisons of the same two disks, from one side and from the other, share.
Mirror(r, q) ==
  /\ q.same = r.same
  /\ Cardinality(r.same) \in Nat
  /\ Cardinality(r.missing) + Cardinality(r.extras) \in Nat
  /\ Cardinality(q.missing) + Cardinality(q.extras)
       = Cardinality(r.missing) + Cardinality(r.extras)
  /\ Total(q) = Total(r)
  /\ r.missing = {} /\ r.extras # {} => q.missing # {}

\* GetCatalogMap maps a checksum to a file that has it.
LEMMA CatalogEntry ==
  ASSUME NEW files \in Files, NEW c \in {files[i].sum : i \in DOMAIN files}
  PROVE  \E i \in DOMAIN files : files[i].sum = c /\ CatalogMap(files)[c] = files[i]
<1> DEFINE S == {i \in DOMAIN files : files[i].sum = c}
           Back == {Len(files) - i : i \in S}
<1>1. Len(files) \in Nat /\ DOMAIN files = 1 .. Len(files) BY DEF Files
<1>2. Back \in SUBSET Nat /\ Back # {} BY <1>1
<1>3. PICK b \in Back : \A x \in Back : b <= x
  <2> HIDE DEF Back
  <2> QED BY <1>2, LeastElement
<1>4. PICK i \in S : b = Len(files) - i BY <1>3
<1>5. \A j \in S : j <= i
  <2> TAKE j \in S
  <2>1. Len(files) - i <= Len(files) - j BY <1>3, <1>4
  <2> QED BY <1>1, <2>1
<1>6. \E k \in DOMAIN files :
        files[k].sum = c /\ \A j \in DOMAIN files : files[j].sum = c => j <= k
  BY <1>5
<1>7. CatalogMap(files)[c] =
        files[CHOOSE k \in DOMAIN files :
                files[k].sum = c /\ \A j \in DOMAIN files : files[j].sum = c => j <= k]
  BY DEF CatalogMap
<1> QED BY <1>6, <1>7

LEMMA CatalogFinite ==
  ASSUME NEW files \in Files
  PROVE  IsFiniteSet(DOMAIN CatalogMap(files))
<1> DEFINE sum == [i \in DOMAIN files |-> files[i].sum]
           C == DOMAIN CatalogMap(files)
<1>1. DOMAIN files = 1 .. Len(files) /\ Len(files) \in Nat BY DEF Files
<1>2. C = {files[i].sum : i \in DOMAIN files} BY DEF CatalogMap
<1>3. sum \in Surjection(DOMAIN files, C)
  <2>1. sum \in [DOMAIN files -> C] BY <1>2
  <2>2. \A c \in C : \E i \in DOMAIN files : sum[i] = c BY <1>2
  <2> QED BY <2>1, <2>2 DEF Surjection
<1>4. IsFiniteSet(DOMAIN files) BY <1>1, FS_Interval
<1> HIDE DEF sum, C
<1>5. IsFiniteSet(C) BY <1>3, <1>4, FS_Surjection
<1> QED BY <1>5 DEF C

\* The comparison of two catalogs from one side and from the other: they differ in boot
\* programs called hello only.
ButHello(r, q, dhello, bhello) ==
  /\ r.same \ q.same \subseteq bhello
  /\ r.missing \subseteq q.extras
  /\ q.extras \ r.missing \subseteq dhello

LEMMA CatalogsAgree ==
  ASSUME NEW d \in Files, NEW b \in Files,
         \A i \in DOMAIN d, j \in DOMAIN b : d[i].sum = b[j].sum => d[i].size = b[j].size
  PROVE  ButHello(CompareCatalogs(d, b), CompareCatalogs(b, d), Hellos(d), Hellos(b))
<1> DEFINE D == DOMAIN CatalogMap(d)
           B == DOMAIN CatalogMap(b)
           dcounted == {c \in D : CatalogMap(d)[c].size # 0 /\ ~CatalogMap(d)[c].hello}
           bcounted == {c \in B : CatalogMap(b)[c].size # 0 /\ ~CatalogMap(b)[c].hello}
           r == CompareCatalogs(d, b)
           q == CompareCatalogs(b, d)
<1>1. D = {d[i].sum : i \in DOMAIN d} /\ B = {b[i].sum : i \in DOMAIN b} BY DEF CatalogMap
<1>2. \A c \in D : CatalogMap(d)[c].hello => c \in Hellos(d)
  BY <1>1, CatalogEntry DEF Hellos
<1>3. \A c \in B : CatalogMap(b)[c].hello => c \in Hellos(b)
  BY <1>1, CatalogEntry DEF Hellos
<1>4. \A c \in D \cap B : CatalogMap(d)[c].size = CatalogMap(b)[c].size
  <2> TAKE c \in D \cap B
  <2>1. PICK i \in DOMAIN d : d[i].sum = c /\ CatalogMap(d)[c] = d[i] BY <1>1, CatalogEntry
  <2>2. PICK j \in DOMAIN b : b[j].sum = c /\ CatalogMap(b)[c] = b[j] BY <1>1, CatalogEntry
  <2> QED BY <2>1, <2>2
<1>5. r.same = dcounted \cap B /\ r.missing = dcounted \ B
  BY DEF CompareCatalogs
<1>6. q.same = bcounted \cap D /\ q.extras = {c \in D \ B : CatalogMap(d)[c].size # 0}
  BY DEF CompareCatalogs
<1>7. r.same \ q.same \subseteq Hellos(b) BY <1>3, <1>4, <1>5, <1>6
<1>8. r.missing \subseteq q.extras BY <1>5, <1>6
<1>9. q.extras \ r.missing \subseteq Hellos(d) BY <1>2, <1>5, <1>6
<1> QED BY <1>7, <1>8, <1>9 DEF ButHello

\* Without boot programs the comparison of catalogs is the same from both sides.
LEMMA CatalogsMirror ==
  ASSUME NEW d \in Files, NEW b \in Files,
         \A i \in DOMAIN d : ~d[i].hello,
         \A i \in DOMAIN b : ~b[i].hello,
         \A i \in DOMAIN d, j \in DOMAIN b : d[i].sum = b[j].sum => d[i].size = b[j].size
  PROVE  Mirror(CompareCatalogs(d, b), CompareCatalogs(b, d))
<1> DEFINE D == DOMAIN CatalogMap(d)
           B == DOMAIN CatalogMap(b)
           dcounted == {c \in D : CatalogMap(d)[c].size # 0}
           bcounted == {c \in B : CatalogMap(b)[c].size # 0}
           r == CompareCatalogs(d, b)
           q == CompareCatalogs(b, d)
<1>1. D = {d[i].sum : i \in DOMAIN d} /\ B = {b[i].sum : i \in DOMAIN b} BY DEF CatalogMap
<1>2. \A c \in D : ~CatalogMap(d)[c].hello BY <1>1, CatalogEntry
<1>3. \A c \in B : ~CatalogMap(b)[c].hello BY <1>1, CatalogEntry
<1>4. \A c \in D \cap B : CatalogMap(d)[c].size = CatalogMap(b)[c].size
  <2> TAKE c \in D \cap B
  <2>1. PICK i \in DOMAIN d : d[i].sum = c /\ CatalogMap(d)[c] = d[i] BY <1>1, CatalogEntry
  <2>2. PICK j \in DOMAIN b : b[j].sum = c /\ CatalogMap(b)[c] = b[j] BY <1>1, CatalogEntry
  <2> QED BY <2>1, <2>2
<1>5. /\ r.same = dcounted \cap B /\ r.missing = dcounted \ B
      /\ r.extras = bcounted \ D
  BY <1>2 DEF CompareCatalogs
<1>6. /\ q.same = bcounted \cap D /\ q.missing = bcounted \ D
      /\ q.extras = dcounted \ B
  BY <1>3 DEF CompareCatalogs
<1>7. q.same = r.same BY <1>4, <1>5, <1>6
<1>8. IsFiniteSet(D) /\ IsFiniteSet(B) BY CatalogFinite
<1>9. /\ r.same \in SUBSET D /\ r.missing \in SUBSET D /\ r.extras \in SUBSET B
  BY <1>5
<1>10. /\ Cardinality(r.same) \in Nat /\ Cardinality(r.missing) \in Nat
       /\ Cardinality(r.extras) \in Nat
  <2> HIDE DEF D, B, r
  <2> QED BY <1>8, <1>9, FS_Subset, FS_CardinalityType
<1>11. q.missing = r.extras /\ q.extras = r.missing BY <1>5, <1>6
<1> HIDE DEF D, B, dcounted, bcounted, r, q
<1>12. Mirror(r, q) BY <1>7, <1>10, <1>11 DEF Mirror, Total
<1> QED BY <1>12 DEF r, q

\* A sector that differs is missing from both sides, and extra from none.
LEMMA SectorsMirror ==
  ASSUME NEW d, NEW b, IsFiniteSet(DOMAIN d), IsFiniteSet(DOMAIN b)
  PROVE  Mirror(CompareSectors(d, b), CompareSectors(b, d))
<1> DEFINE D == DOMAIN d
           B == DOMAIN b
           same == {s \in D \cap B : d[s] = b[s]}
           r == CompareSectors(d, b)
           q == CompareSectors(b, d)
<1>1. r.same = same /\ r.missing = D \ same /\ r.extras = B \ D BY DEF CompareSectors
<1>2. q.same = same /\ q.missing = B \ same /\ q.extras = D \ B BY DEF CompareSectors
<1>3. same \in SUBSET D /\ same \in SUBSET B OBVIOUS
<1>4. r.missing = {} /\ r.extras # {} => q.missing # {} BY <1>1, <1>2
<1> HIDE DEF D, B, same, r, q
<1>5. IsFiniteSet(D) /\ IsFiniteSet(B) BY DEF D, B
<1>6. /\ IsFiniteSet(same) /\ IsFiniteSet(D \ same) /\ IsFiniteSet(B \ same)
      /\ IsFiniteSet(D \ B) /\ IsFiniteSet(B \ D)
  BY <1>3, <1>5, FS_Subset
<1>7. /\ Cardinality(same) \in Nat
      /\ Cardinality(D \ same) \in Nat /\ Cardinality(B \ same) \in Nat
      /\ Cardinality(D \ B) \in Nat /\ Cardinality(B \ D) \in Nat
  BY <1>6, FS_CardinalityType
<1>8. Cardinality((D \ same) \cup (B \ D)) = Cardinality(D \ same) + Cardinality(B \ D)
  <2>1. (D \ same) \cap (B \ D) = {} OBVIOUS
  <2>2. Cardinality((D \ same) \cap (B \ D)) = 0 BY <2>1, FS_EmptySet
  <2> DEFINE X == D \ same
             Y == B \ D
  <2> HIDE DEF X, Y
  <2>3. Cardinality(X \cup Y) = Cardinality(X) + Cardinality(Y) - Cardinality(X \cap Y)
    <3>1. IsFiniteSet(X) /\ IsFiniteSet(Y) BY <1>6 DEF X, Y
    <3> QED BY <3>1, FS_Union
  <2> QED BY <1>7, <2>2, <2>3 DEF X, Y
<1>9. Cardinality((B \ same) \cup (D \ B)) = Cardinality(B \ same) + Cardinality(D \ B)
  <2>1. (B \ same) \cap (D \ B) = {} OBVIOUS
  <2>2. Cardinality((B \ same) \cap (D \ B)) = 0 BY <2>1, FS_EmptySet
  <2> DEFINE X == B \ same
             Y == D \ B
  <2> HIDE DEF X, Y
  <2>3. Cardinality(X \cup Y) = Cardinality(X) + Cardinality(Y) - Cardinality(X \cap Y)
    <3>1. IsFiniteSet(X) /\ IsFiniteSet(Y) BY <1>6 DEF X, Y
    <3> QED BY <3>1, FS_Union
  <2> QED BY <1>7, <2>2, <2>3 DEF X, Y
<1>10. (D \ same) \cup (B \ D) = (B \ same) \cup (D \ B) BY <1>3
<1>11. Mirror(r, q)
  BY <1>1, <1>2, <1>4, <1>7, <1>8, <1>9, <1>10 DEF Mirror, Total
<1> QED BY <1>11 DEF r, q

\* Two disks of the table, neither with a boot program, mirror each other.
LEMMA DisksMirror ==
  ASSUME TypeOK, TableSound, NEW m \in DOMAIN table, NEW k \in DOMAIN table,
         HelloFiles(m) \cup HelloFiles(k) = {}
  PROVE  Mirror(Compare(table[m], table[k]), Compare(table[k], table[m]))
<1>1. PICK f \in Good(m) : table[m] = Loaded(store[f]) BY DEF TableSound
<1>2. PICK g \in Good(k) : table[k] = Loaded(store[g]) BY DEF TableSound
<1>3. /\ f \in Fingerprints /\ store[f] # Torn /\ IsDisk(store[f])
      /\ g \in Fingerprints /\ store[g] # Torn /\ IsDisk(store[g])
      /\ store \in Stores
      /\ report.of \in {"files", "sectors", "active"}
  BY StoreAssumption, ReportAssumption DEF Good, TypeOK
<1>4. CASE report.of = "files"
  <2>1. table[m] = store[f].files /\ table[k] = store[g].files
    BY <1>1, <1>2, <1>4 DEF Loaded
  <2>2. table[m] \in Files /\ table[k] \in Files BY <1>3, <2>1 DEF IsDisk
  <2>3. \A i \in DOMAIN table[m], j \in DOMAIN table[k] :
          table[m][i].sum = table[k][j].sum => table[m][i].size = table[k][j].size
    BY <1>3, <2>1, ChecksumAssumption
  <2>4. /\ \A i \in DOMAIN table[m] : ~table[m][i].hello
        /\ \A i \in DOMAIN table[k] : ~table[k][i].hello
    BY <1>4 DEF HelloFiles, Hellos
  <2>5. Mirror(CompareCatalogs(table[m], table[k]), CompareCatalogs(table[k], table[m]))
    BY <2>2, <2>3, <2>4, CatalogsMirror
  <2> QED BY <1>4, <2>5 DEF Compare
<1>5. CASE report.of # "files"
  <2>1. ASSUME NEW d, IsDisk(d) PROVE IsFiniteSet(DOMAIN Loaded(d))
    <3>1. IsFiniteSet(DOMAIN d.active \cup DOMAIN d.inactive) BY <2>1 DEF IsDisk
    <3>2. DOMAIN Loaded(d) \in SUBSET (DOMAIN d.active \cup DOMAIN d.inactive)
      <4>1. CASE report.of = "active" BY <4>1 DEF Loaded
      <4>2. CASE report.of = "sectors"
        <5>1. Loaded(d) = NotEmpty(Merged(d)) BY <4>2 DEF Loaded
        <5>2. DOMAIN Merged(d) = DOMAIN d.active \cup DOMAIN d.inactive BY DEF Merged
        <5>3. DOMAIN NotEmpty(Merged(d)) \subseteq DOMAIN Merged(d) BY DEF NotEmpty
        <5> QED BY <5>1, <5>2, <5>3
      <4> QED BY <1>3, <1>5, <4>1, <4>2
    <3> QED BY <3>1, <3>2, FS_Subset
  <2>2. IsFiniteSet(DOMAIN table[m]) /\ IsFiniteSet(DOMAIN table[k])
    BY <1>1, <1>2, <1>3, <2>1
  <2>3. Mirror(CompareSectors(table[m], table[k]), CompareSectors(table[k], table[m]))
    BY <2>2, SectorsMirror
  <2> QED BY <1>5, <2>3 DEF Compare
<1> QED BY <1>4, <1>5

\* What is kept from one side is kept from the other, and has something in common if the
\* report asks for that; of subsets it is the other way round.
LEMMA KeepMirror ==
  ASSUME TypeOK, NEW r, NEW q, Mirror(r, q), Keep(r)
  PROVE  IF report.keep = "subset" THEN ~Keep(q)
         ELSE Keep(q) /\ (report.keep \in {"same", "diff"} => q.same # {})
<1>1. /\ report.keep \in {"above", "subset", "same", "diff"} /\ report.n \in Nat
      /\ report.keep \in {"same", "diff"} => report.n # 0
  BY ReportAssumption DEF TypeOK
<1>2. CASE report.keep = "above"
  BY <1>2 DEF Keep, AboveThreshold, Mirror
<1>3. CASE report.keep = "subset"
  BY <1>3 DEF Keep, IsSubsetOf, Mirror
<1>4. CASE report.keep = "same"
  <2>1. Cardinality(q.same) # 0 BY <1>1, <1>4 DEF Keep, KeeperAtLeastNSame, Mirror
  <2> QED BY <1>4, <2>1, FS_EmptySet DEF Keep, KeeperAtLeastNSame, Mirror
<1>5. CASE report.keep = "diff"
  BY <1>5 DEF Keep, KeeperMaximumNDiff, Mirror
<1> QED BY <1>1, <1>2, <1>3, <1>4, <1>5

\* Two disks that match each other do so in the same files, but for boot programs.
LEMMA DisksAgree ==
  ASSUME TypeOK, TableSound, NEW m \in DOMAIN table, NEW k \in DOMAIN table, m # k,
         m \in DOMAIN results, k \in DOMAIN results[m], results[m] = OverlapRecord(m),
         k \in DOMAIN results, m \in DOMAIN results[k], results[k] = OverlapRecord(k)
  PROVE  FilesAgree(m, k)
<1>1. /\ results[m][k] = Compare(table[m], table[k])
      /\ results[k][m] = Compare(table[k], table[m])
  BY DEF OverlapRecord
<1>2. CASE report.of = "files"
  <2>1. PICK f \in Good(m) : table[m] = Loaded(store[f]) BY DEF TableSound
  <2>2. PICK g \in Good(k) : table[k] = Loaded(store[g]) BY DEF TableSound
  <2>3. /\ f \in Fingerprints /\ store[f] # Torn /\ IsDisk(store[f])
        /\ g \in Fingerprints /\ store[g] # Torn /\ IsDisk(store[g])
        /\ store \in Stores
    BY StoreAssumption DEF Good, TypeOK
  <2>4. table[m] = store[f].files /\ table[k] = store[g].files
    BY <1>2, <2>1, <2>2 DEF Loaded
  <2>5. table[m] \in Files /\ table[k] \in Files BY <2>3, <2>4 DEF IsDisk
  <2>6. \A i \in DOMAIN table[m], j \in DOMAIN table[k] :
          table[m][i].sum = table[k][j].sum => table[m][i].size = table[k][j].size
    BY <2>3, <2>4, ChecksumAssumption
  <2>7. ButHello(CompareCatalogs(table[m], table[k]), CompareCatalogs(table[k], table[m]),
                 Hellos(table[m]), Hellos(table[k]))
    BY <2>5, <2>6, CatalogsAgree
  <2> QED BY <1>1, <1>2, <2>7 DEF ButHello, FilesAgree, HelloFiles, Compare
<1>3. CASE report.of # "files"
  <2>1. /\ results[m][k] = CompareSectors(table[m], table[k])
        /\ results[k][m] = CompareSectors(table[k], table[m])
    BY <1>1, <1>3 DEF Compare
  <2>2. results[m][k].same \subseteq results[k][m].same
    BY <2>1 DEF CompareSectors
  <2> QED BY <1>3, <2>2 DEF FilesAgree
<1> QED BY <1>2, <1>3

LEMMA InvMatches ==
  ASSUME Inv, phase = "done", ctrlC # "closed",
         NEW m \in DOMAIN table, NEW k \in Kept(m),
         HelloFiles(m) \cup HelloFiles(k) = {}
  PROVE  MatchesAgree(m, k)
<1>1. /\ TypeOK /\ TableSound
      /\ \A p \in DOMAIN results : results[p] = OverlapRecord(p)
      /\ DOMAIN results = {p \in DOMAIN table : Entered(OverlapRecord(p))}
  BY DEF Inv, ReportIsWhole
<1> DEFINE C(x, y) == Compare(table[x], table[y])
<1>2. \A x : /\ DOMAIN OverlapRecord(x) = {p \in DOMAIN table \ {x} : Keep(C(x, p))}
             /\ \A p \in DOMAIN OverlapRecord(x) : OverlapRecord(x)[p] = C(x, p)
  BY DEF OverlapRecord
<1>3. m \in DOMAIN results /\ k \in DOMAIN OverlapRecord(m) BY <1>1 DEF Kept
<1>4. k \in DOMAIN table /\ k # m /\ Keep(C(m, k)) BY <1>2, <1>3
<1>5. Mirror(C(m, k), C(k, m)) BY <1>1, <1>4, DisksMirror
<1> HIDE DEF C
<1>6. IF report.keep = "subset" THEN ~Keep(C(k, m))
      ELSE Keep(C(k, m)) /\ (report.keep \in {"same", "diff"} => C(k, m).same # {})
  BY <1>1, <1>4, <1>5, KeepMirror
<1>7. CASE report.keep = "subset"
  <2>1. m \notin DOMAIN OverlapRecord(k) BY <1>2, <1>6, <1>7
  <2> QED BY <1>1, <1>7, <2>1 DEF Kept, MatchesAgree
<1>8. CASE report.keep # "subset"
  <2>1. m \in DOMAIN OverlapRecord(k) BY <1>2, <1>4, <1>6, <1>8
  <2>2. Entered(OverlapRecord(k))
    <3>1. CASE report.keep \in {"same", "diff"}
      <4>1. OverlapRecord(k)[m].same # {} BY <1>2, <1>6, <1>8, <2>1, <3>1
      <4> QED BY <2>1, <3>1, <4>1 DEF Entered
    <3>2. CASE report.keep \notin {"same", "diff"} BY <2>1, <3>2 DEF Entered
    <3> QED BY <3>1, <3>2
  <2> QED BY <1>1, <1>4, <1>8, <2>1, <2>2 DEF Kept, MatchesAgree
<1> QED BY <1>7, <1>8

LEMMA InvAgrees ==
  ASSUME Inv
  PROVE  ReportsAgree
<1> SUFFICES ASSUME phase = "done", ctrlC # "closed",
                    NEW m \in DOMAIN table, NEW k \in Kept(m)
             PROVE  /\ HelloFiles(m) \cup HelloFiles(k) = {} => MatchesAgree(m, k)
                    /\ m \in Kept(k) => FilesAgree(m, k)
  BY DEF ReportsAgree
<1>1. HelloFiles(m) \cup HelloFiles(k) = {} => MatchesAgree(m, k)
  BY InvMatches
<1>2. ASSUME m \in Kept(k) PROVE FilesAgree(m, k)
  <2>1. /\ TypeOK /\ TableSound
        /\ \A p \in DOMAIN results : results[p] = OverlapRecord(p)
    BY DEF Inv, ReportIsWhole
  <2>2. /\ m \in DOMAIN results /\ k \in DOMAIN results[m]
        /\ k \in DOMAIN results /\ m \in DOMAIN results[k]
    BY <1>2 DEF Kept
  <2>3. k \in DOMAIN table /\ k # m
    BY <2>1, <2>2 DEF OverlapRecord
  <2> QED BY <2>1, <2>2, <2>3, DisksAgree
<1> QED BY <1>1, <1>2

\* A report that was not cut short says the same of two disks from both sides: two disks
\* match each other, and one at most is a subset of the other, when neither has a boot
\* program called hello; when one has, the two reports differ in such programs only.
THEOREM ReportsSayTheSame == Spec => []ReportsAgree
<1>1. Init => Inv BY InitInv
<1>2. Inv /\ [Next]_vars => Inv' BY NextInv
<1>3. Inv => ReportsAgree BY InvAgrees
<1> QED BY <1>1, <1>2, <1>3, PTL DEF Spec
==============================================================================
