--------------------------- MODULE Quarantine_proofs ---------------------------
(***************************************************************************)
(* What the quarantine command keeps, for any number of images, contents   *)
(* and fingerprints: no image is lost wherever the program is killed; and  *)
(* when no fingerprint was stale at the start, the disks the user keeps    *)
(* stay and the store stays true of the images.                            *)
(***************************************************************************)
EXTENDS Quarantine, TLAPS

Groupings == SUBSET SUBSET Fingerprints
Moving == {"create", "write", "remove", "fingerprint"}

\* The fields a job has at each stage.
Jobs ==
  [stage : {"idle"}]
    \cup [stage : {"ask"}, todo : Groupings]
    \cup [stage : {"next"}, todo : Groupings, list : SUBSET Fingerprints]
    \cup [stage : Moving, todo : Groupings, list : SUBSET Fingerprints,
          at : Fingerprints, data : Contents]

ShapeInv == TypeOK /\ job \in Jobs

\* The images change by the command only, and only by going away; the image
\* that is moved is in the quarantine before it is removed.
AwayOnly ==
  /\ AtStage("idle") => history = NoHistory
  /\ ~AtStage("idle") => \A p \in Paths : live[p] \in {Absent, history.before[p]}
  /\ job.stage \in {"create", "write", "remove"} => live[job.at[1]] = job.data
  /\ AtStage("remove") => quarantined[job.at[1]] = job.data

SurvivalInv == ShapeInv /\ AwayOnly /\ ImagesSurvive

------------------------------------------------------------------------------
\* The fingerprints that the command may still move.
Pending ==
  {f \in Fingerprints :
     \/ ~AtStage("idle") /\ \E g \in job.todo : f \in g
     \/ job.stage \in {"next"} \cup Moving /\ f \in job.list
     \/ job.stage \in Moving /\ f = job.at}

\* They are in the store, and no two groups share one.
StillThere ==
  /\ Pending \subseteq fingerprint
  /\ ~AtStage("idle") =>
       \A g, h \in job.todo : g = h \/ g \cap h = {}
  /\ job.stage \in {"next"} \cup Moving =>
       \A g \in job.todo : g \cap job.list = {}
  /\ job.stage \in Moving =>
       job.at \notin job.list /\ \A g \in job.todo : job.at \notin g

\* The store is true of the images, but for the one that was just removed.
NearlyFresh ==
  \A f \in fingerprint :
    live[f[1]] = f[2] \/ (AtStage("fingerprint") /\ f = job.at)

\* A disk that is kept is there, and none of its fingerprints is pending.
KeptIsLeft ==
  \A p \in history.kept : live[p] # Absent /\ \A f \in Pending : f[1] # p

FreshInv ==
  /\ ShapeInv
  /\ AtStage("idle") => history = NoHistory
  /\ (history.fresh /\ ~AtStage("idle")) => StillThere /\ NearlyFresh /\ KeptIsLeft

------------------------------------------------------------------------------
\* Facts about the stage of the job, spelled out.
LEMMA JobAt ==
  ASSUME job \in Jobs
  PROVE  /\ job.stage \in Stages
         /\ AtStage("ask") => job \in [stage : {"ask"}, todo : Groupings]
         /\ AtStage("next") =>
              job \in [stage : {"next"}, todo : Groupings, list : SUBSET Fingerprints]
         /\ job.stage \in Moving =>
              job \in [stage : Moving, todo : Groupings, list : SUBSET Fingerprints,
                       at : Fingerprints, data : Contents]
BY DEF Jobs, Stages, Moving, AtStage

\* A job of one of the four forms has the types that TypeOK asks of it.
LEMMA JobTyped ==
  ASSUME job \in Jobs
  PROVE  /\ job.stage \in Stages
         /\ ~AtStage("idle") => job.todo \subseteq SUBSET Fingerprints
         /\ job.stage \in Stages \ {"idle", "ask"} => job.list \subseteq Fingerprints
         /\ job.stage \in Stages \ {"idle", "ask", "next"} =>
              job.at \in Fingerprints /\ job.data \in Contents
BY DEF Jobs, Groupings, Stages, Moving, AtStage

\* A fingerprint is of an image, with its contents.
LEMMA FingerprintParts ==
  ASSUME NEW f \in Fingerprints
  PROVE  f[1] \in Paths /\ f[2] \in Contents /\ f = <<f[1], f[2]>>
BY DEF Fingerprints

\* Every step leaves the job in one of its forms.
LEMMA JobShaped ==
  ASSUME ShapeInv, Next
  PROVE  job' \in Jobs
<1> USE DEF ShapeInv
<1>0. /\ job.stage \in Stages
      /\ AtStage("ask") => job \in [stage : {"ask"}, todo : Groupings]
      /\ AtStage("next") =>
           job \in [stage : {"next"}, todo : Groupings, list : SUBSET Fingerprints]
      /\ job.stage \in Moving =>
           job \in [stage : Moving, todo : Groupings, list : SUBSET Fingerprints,
                    at : Fingerprints, data : Contents]
  BY JobAt
<1>1. Idle \in Jobs BY DEF Idle, Jobs
<1>2. ASSUME UNCHANGED job PROVE job' \in Jobs BY <1>2
<1>3. ASSUME NEW kind \in Kinds, Start(kind) PROVE job' \in Jobs
  <2>1. Groups(kind) \in Groupings BY DEF Groups, Groupings, TypeOK
  <2> QED BY <1>3, <2>1 DEF Start, Jobs
<1>4. ASSUME End PROVE job' \in Jobs BY <1>1, <1>4 DEF End
<1>5. ASSUME NEW g \in job.todo, AtStage("ask"), Skip(g) PROVE job' \in Jobs
  <2>1. job' = [stage |-> "ask", todo |-> job.todo \ {g}] BY <1>0, <1>5 DEF Skip
  <2>2. job.todo \ {g} \in Groupings BY <1>0, <1>5 DEF Groupings
  <2> QED BY <2>1, <2>2 DEF Jobs
<1>6. ASSUME AtStage("ask"), NEW g \in job.todo, NEW keep \in Answers(g), Choose(g, keep)
      PROVE  job' \in Jobs
  <2>1. job.todo \ {g} \in Groupings /\ g \in SUBSET Fingerprints
    BY <1>0, <1>6 DEF Groupings
  <2> QED BY <1>6, <2>1 DEF Choose, Jobs
<1>7. ASSUME AtStage("next"), NEW f \in job.list, Read(f) PROVE job' \in Jobs
  <2>1. job.todo \in Groupings /\ job.list \ {f} \in SUBSET Fingerprints /\ f \in Fingerprints
    BY <1>0, <1>7
  <2>2. live[f[1]] \in Contents BY <1>7, <2>1, FingerprintParts DEF Read, TypeOK
  <2> QED BY <1>7, <2>1, <2>2 DEF Read, Jobs, Moving
<1>8. ASSUME AtStage("create") \/ AtStage("write") \/ AtStage("remove"),
             NEW s \in Moving, Then(s)
      PROVE  job' \in Jobs
  <2>1. job \in [stage : Moving, todo : Groupings, list : SUBSET Fingerprints,
                 at : Fingerprints, data : Contents]
    BY <1>0, <1>8 DEF AtStage, Moving
  <2> QED BY <1>8, <2>1 DEF Then, Jobs
<1>9. ASSUME MoveFingerprint PROVE job' \in Jobs
  <2>1. job.todo \in Groupings /\ job.list \in SUBSET Fingerprints
    BY <1>0, <1>9 DEF MoveFingerprint, AtStage, Moving
  <2> QED BY <1>9, <2>1 DEF MoveFingerprint, Jobs
<1>10. ASSUME NextGroup PROVE job' \in Jobs
  <2>1. job.todo \in Groupings BY <1>0, <1>10 DEF NextGroup
  <2> QED BY <1>10, <2>1 DEF NextGroup, Jobs
<1> QED
  BY <1>2, <1>3, <1>4, <1>5, <1>6, <1>7, <1>8, <1>9, <1>10
  DEF Next, Ingest, Restore, Edit, Finish, ReadFails, Create, Write, Remove, Stop, Moving

\* Every step leaves the other variables well typed.
LEMMA ShapeStep ==
  ASSUME ShapeInv, [Next]_vars
  PROVE  ShapeInv'
<1> USE DEF ShapeInv
<1>1. CASE UNCHANGED vars BY <1>1 DEF vars, TypeOK, AtStage
<1>2. CASE Next
  <2>1. job' \in Jobs BY <1>2, JobShaped
  <2>2. job.stage \in Moving => job.at[1] \in Paths /\ job.data \in Contents
    BY JobAt, FingerprintParts
  <2>3. live' \in [Paths -> Contents \cup {Absent}]
    BY <1>2 DEF Next, Ingest, Restore, Edit, Start, Finish, End, Skip, Choose, Read, ReadFails,
                Create, Write, Remove, MoveFingerprint, NextGroup, Stop, TypeOK
  <2>4. fingerprint' \subseteq Fingerprints
    BY <1>2 DEF Next, Ingest, Restore, Edit, Start, Finish, End, Skip, Choose, Read, ReadFails,
                Create, Write, Remove, MoveFingerprint, NextGroup, Stop, TypeOK, Fingerprints
  <2>5. quarantined' \in [Paths -> Contents \cup {Absent, Torn}]
    BY <1>2, <2>2 DEF Next, Ingest, Restore, Edit, Start, Finish, End, Skip, Choose, Read,
                ReadFails, Create, Write, Remove, MoveFingerprint, NextGroup, Stop, TypeOK,
                AtStage, Moving
  <2>6. NoHistory \in [before : [Paths -> Contents \cup {Absent}], fresh : BOOLEAN,
                       kept : SUBSET Paths]
    BY DEF NoHistory
  <2>7. history' \in [before : [Paths -> Contents \cup {Absent}], fresh : BOOLEAN,
                      kept : SUBSET Paths]
    <3>1. ASSUME NEW kind \in Kinds, Start(kind)
          PROVE  history' \in [before : [Paths -> Contents \cup {Absent}], fresh : BOOLEAN,
                               kept : SUBSET Paths]
      <4>1. FreshStore \in BOOLEAN BY DEF FreshStore
      <4> QED BY <3>1, <4>1 DEF Start, TypeOK
    <3>2. ASSUME AtStage("ask"), NEW g \in job.todo, NEW keep \in Answers(g), Choose(g, keep)
          PROVE  history' \in [before : [Paths -> Contents \cup {Absent}], fresh : BOOLEAN,
                               kept : SUBSET Paths]
      <4>1. g \subseteq Fingerprints BY <3>2, JobAt DEF Groupings
      <4>2. keep = Nothing \/ keep[1] \in Paths BY <4>1, FingerprintParts DEF Answers
      <4> QED BY <3>2, <4>2 DEF Choose, TypeOK
    <3> QED
      BY <1>2, <2>6, <3>1, <3>2
      DEF Next, Ingest, Restore, Edit, Finish, End, Skip, Read, ReadFails,
          Create, Write, Remove, MoveFingerprint, NextGroup, Stop, TypeOK
  <2>8. /\ job'.stage \in Stages
        /\ ~AtStage("idle")' => job'.todo \subseteq SUBSET Fingerprints
        /\ job'.stage \in Stages \ {"idle", "ask"} => job'.list \subseteq Fingerprints
        /\ job'.stage \in Stages \ {"idle", "ask", "next"} =>
             job'.at \in Fingerprints /\ job'.data \in Contents
    BY <2>1 DEF Jobs, Groupings, Stages, Moving, AtStage
  <2> QED BY <2>1, <2>3, <2>4, <2>5, <2>7, <2>8 DEF TypeOK
<1> QED BY <1>1, <1>2

LEMMA ShapeInit ==
  ASSUME Init
  PROVE  ShapeInv /\ AtStage("idle") /\ history = NoHistory
BY DEF Init, ShapeInv, TypeOK, Jobs, Idle, NoHistory, AtStage, Stages, Fingerprints

\* The quarantine stays well typed, and every job has the fields of its stage.
THEOREM QuarantineTyped == Spec => []TypeOK
<1>1. Init => ShapeInv BY ShapeInit
<1>2. ShapeInv /\ [Next]_vars => ShapeInv' BY ShapeStep
<1>3. ShapeInv => TypeOK BY DEF ShapeInv
<1> QED BY <1>1, <1>2, <1>3, PTL DEF Spec

------------------------------------------------------------------------------
\* Steps that leave the images, the quarantine and the history, and move nothing.
LEMMA IdleStepKeeps ==
  ASSUME SurvivalInv, UNCHANGED <<live, quarantined, history>>,
         AtStage("idle") <=> AtStage("idle")',
         job'.stage \notin {"create", "write", "remove"}
  PROVE  AwayOnly' /\ ImagesSurvive'
BY DEF SurvivalInv, AwayOnly, ImagesSurvive, AtStage

\* The end of a command forgets what it began with.
LEMMA EndKeeps ==
  ASSUME SurvivalInv, End
  PROVE  AwayOnly' /\ ImagesSurvive'
<1>1. AtStage("idle")' /\ job'.stage = "idle" BY DEF End, Idle, AtStage
<1>2. AwayOnly' BY <1>1 DEF End, AwayOnly, AtStage
<1>3. ImagesSurvive' BY DEF End, ImagesSurvive, NoHistory
<1> QED BY <1>2, <1>3

\* With room on the host, every step keeps each image in its place or in the quarantine.
LEMMA SurvivalStep ==
  ASSUME CanFill = FALSE, SurvivalInv, [Next]_vars
  PROVE  SurvivalInv'
<1>0. ShapeInv' BY ShapeStep DEF SurvivalInv
<1>t. TypeOK /\ job \in Jobs BY DEF SurvivalInv, ShapeInv
<1>j. /\ job.stage \in Moving => job.at \in Fingerprints /\ job.data \in Contents
      /\ job.stage \in Moving => job.at[1] \in Paths
      /\ job.stage \in Stages
  BY <1>t, JobAt, FingerprintParts
<1>s. ASSUME AtStage("create") \/ AtStage("write") \/ AtStage("remove"),
             NEW s \in Moving, Then(s)
      PROVE  job'.stage = s /\ job'.at = job.at /\ job'.data = job.data
  <2>1. job \in [stage : Moving, todo : Groupings, list : SUBSET Fingerprints,
                 at : Fingerprints, data : Contents]
    BY <1>t, <1>s, JobAt DEF AtStage, Moving
  <2> QED BY <1>s, <2>1 DEF Then
<1> USE DEF SurvivalInv
<1>1. ASSUME UNCHANGED <<live, quarantined, job, history>> PROVE AwayOnly' /\ ImagesSurvive'
  BY <1>1 DEF AwayOnly, ImagesSurvive, AtStage
<1>2. ASSUME AtStage("idle"), UNCHANGED <<quarantined, job, history>>
      PROVE  AwayOnly' /\ ImagesSurvive'
  <2>1. history = NoHistory /\ job.stage = "idle" BY <1>2 DEF AwayOnly, AtStage
  <2>2. \A p \in Paths : history'.before[p] = Absent BY <1>2, <2>1 DEF NoHistory
  <2> QED BY <1>2, <2>1, <2>2 DEF AwayOnly, ImagesSurvive, AtStage
<1>3. ASSUME NEW kind \in Kinds, Start(kind) PROVE AwayOnly' /\ ImagesSurvive'
  <2>1. job'.stage = "ask" /\ history'.before = live BY <1>3 DEF Start
  <2> QED BY <1>3, <2>1 DEF Start, AwayOnly, ImagesSurvive, AtStage
<1>4. ASSUME NEW g \in job.todo, AtStage("ask"), Skip(g) PROVE AwayOnly' /\ ImagesSurvive'
  <2>1. job \in [stage : {"ask"}, todo : Groupings] BY <1>t, <1>4, JobAt
  <2>2. job' = [stage |-> "ask", todo |-> job.todo \ {g}] BY <1>4, <2>1 DEF Skip
  <2> QED BY <1>4, <2>2, IdleStepKeeps DEF Skip, AtStage
<1>5. ASSUME AtStage("ask"), NEW g \in job.todo, NEW keep \in Answers(g), Choose(g, keep)
      PROVE  AwayOnly' /\ ImagesSurvive'
  <2>1. history'.before = history.before BY <1>5, <1>t DEF Choose, TypeOK
  <2>2. job'.stage = "next" BY <1>5 DEF Choose
  <2> QED BY <1>5, <2>1, <2>2 DEF Choose, AwayOnly, ImagesSurvive, AtStage
<1>6. ASSUME AtStage("next"), NEW f \in job.list, Read(f) PROVE AwayOnly' /\ ImagesSurvive'
  <2>1. job'.stage = "create" /\ job'.at = f /\ job'.data = live[f[1]] BY <1>6 DEF Read
  <2> QED BY <1>6, <2>1 DEF Read, AwayOnly, ImagesSurvive, AtStage
<1>7. ASSUME Create PROVE AwayOnly' /\ ImagesSurvive'
  <2>1. job'.stage = "write" /\ job'.at = job.at /\ job'.data = job.data
    BY <1>7, <1>s DEF Create, Moving
  <2>2. job.stage = "create" BY <1>7 DEF Create, AtStage
  <2>3. live[job.at[1]] = job.data /\ job.data # Absent
    BY <2>2, <1>j, ContentAssumption DEF AwayOnly, Moving
  <2>4. live[job.at[1]] = history.before[job.at[1]]
    BY <2>2, <2>3, <1>j DEF AwayOnly, AtStage, Moving
  <2>5. ImagesSurvive'
    BY <1>7, <1>t, <2>4 DEF Create, ImagesSurvive, TypeOK
  <2>6. AwayOnly' BY <1>7, <2>1, <2>2 DEF Create, AwayOnly, AtStage
  <2> QED BY <2>5, <2>6
<1>8. ASSUME Write PROVE AwayOnly' /\ ImagesSurvive'
  <2>1. job'.stage = "remove" /\ job'.at = job.at /\ job'.data = job.data
    BY <1>8, <1>s DEF Write, Moving
  <2>2. job.stage = "write" BY <1>8 DEF Write, AtStage
  <2>3. quarantined' = [quarantined EXCEPT ![job.at[1]] = job.data] BY <1>8 DEF Write
  <2>4. live[job.at[1]] = job.data /\ job.data # Absent
    BY <2>2, <1>j, ContentAssumption DEF AwayOnly, Moving
  <2>5. live[job.at[1]] = history.before[job.at[1]]
    BY <2>2, <2>4, <1>j DEF AwayOnly, AtStage, Moving
  <2>6. ImagesSurvive'
    BY <1>8, <1>t, <2>3, <2>5 DEF Write, ImagesSurvive, TypeOK
  <2>7. quarantined'[job.at[1]] = job.data
    BY <1>t, <1>j, <2>2, <2>3 DEF TypeOK, Moving
  <2>8. AwayOnly' BY <1>8, <2>1, <2>2, <2>7 DEF Write, AwayOnly, AtStage
  <2> QED BY <2>6, <2>8
<1>9. ASSUME Remove PROVE AwayOnly' /\ ImagesSurvive'
  <2>1. job'.stage = "fingerprint" BY <1>9, <1>s DEF Remove, Moving
  <2>2. job.stage = "remove" BY <1>9 DEF Remove, AtStage
  <2>3. live[job.at[1]] = job.data /\ quarantined[job.at[1]] = job.data
    BY <2>2 DEF AwayOnly, AtStage
  <2>4. live' = [live EXCEPT ![job.at[1]] = Absent] BY <1>9 DEF Remove
  <2>5. ImagesSurvive' BY <1>9, <1>t, <2>3, <2>4 DEF Remove, ImagesSurvive, TypeOK
  <2>6. AwayOnly' BY <1>9, <1>t, <2>1, <2>2, <2>4 DEF Remove, AwayOnly, AtStage, TypeOK
  <2> QED BY <2>5, <2>6
<1>10. ASSUME MoveFingerprint PROVE AwayOnly' /\ ImagesSurvive'
  BY <1>10, IdleStepKeeps DEF MoveFingerprint, AtStage
<1>11. ASSUME NextGroup PROVE AwayOnly' /\ ImagesSurvive'
  BY <1>11, IdleStepKeeps DEF NextGroup, AtStage
<1>12. ASSUME End PROVE AwayOnly' /\ ImagesSurvive' BY <1>12, EndKeeps
<1>13. CASE UNCHANGED vars BY <1>0, <1>1, <1>13 DEF vars
<1>14. CASE Next
  BY <1>0, <1>14, <1>2, <1>3, <1>4, <1>5, <1>6, <1>7, <1>8, <1>9, <1>10, <1>11, <1>12
  DEF Next, Ingest, Restore, Edit, Finish, ReadFails, Stop
<1> QED BY <1>13, <1>14

\* Wherever the program is killed, what an image held when the command began is in
\* its place or in the quarantine, as long as the host file system does not fill up.
THEOREM NothingIsLost == ASSUME CanFill = FALSE PROVE Spec => []ImagesSurvive
<1>1. Init => SurvivalInv
  BY ShapeInit DEF SurvivalInv, AwayOnly, ImagesSurvive, NoHistory, AtStage
<1>2. SurvivalInv /\ [Next]_vars => SurvivalInv' BY SurvivalStep
<1>3. SurvivalInv => ImagesSurvive BY DEF SurvivalInv
<1> QED BY <1>1, <1>2, <1>3, PTL DEF Spec

------------------------------------------------------------------------------
\* What a command that began with a true store keeps.
Tidy == StillThere /\ NearlyFresh /\ KeptIsLeft

\* Two groups of fingerprints with the same checksum are the same group.
LEMMA GroupsDisjoint ==
  ASSUME NEW kind, NEW g \in Groups(kind), NEW h \in Groups(kind)
  PROVE  g = h \/ g \cap h = {}
BY DEF Groups

\* In a store that is true of the images a path has one fingerprint.
LEMMA OneEachWhenFresh ==
  ASSUME fingerprint \subseteq Fingerprints, \A f \in fingerprint : live[f[1]] = f[2],
         NEW f \in fingerprint, NEW h \in fingerprint, f[1] = h[1]
  PROVE  f = h
BY FingerprintParts

\* While no more fingerprints get pending, what is kept is left alone.
LEMMA LessPending ==
  ASSUME KeptIsLeft, UNCHANGED <<live, history>>, Pending' \subseteq Pending
  PROVE  KeptIsLeft'
BY DEF KeptIsLeft

\* The groups are of fingerprints that are in the store, and disjoint.
LEMMA StartTidy ==
  ASSUME ShapeInv, NEW kind \in Kinds, Start(kind), FreshStore
  PROVE  Tidy'
<1>1. /\ job' = [stage |-> "ask", todo |-> Groups(kind)]
      /\ UNCHANGED <<live, fingerprint>>
      /\ history'.kept = {}
  BY DEF Start
<1>2. \A g \in Groups(kind) : g \subseteq fingerprint BY DEF Groups
<1>3. Pending' \subseteq fingerprint BY <1>1, <1>2 DEF Pending, AtStage, Moving
<1>4. StillThere'
  BY <1>1, <1>3, GroupsDisjoint DEF StillThere, AtStage, Moving
<1>5. NearlyFresh' BY <1>1 DEF NearlyFresh, FreshStore
<1>6. KeptIsLeft' BY <1>1 DEF KeptIsLeft
<1> QED BY <1>4, <1>5, <1>6 DEF Tidy

LEMMA SkipTidy ==
  ASSUME ShapeInv, Tidy, AtStage("ask"), NEW g \in job.todo, Skip(g)
  PROVE  Tidy'
<1>1. job' = [stage |-> "ask", todo |-> job.todo \ {g}]
  BY JobAt DEF Skip, ShapeInv
<1>2. UNCHANGED <<live, fingerprint, history>> BY DEF Skip
<1>3. Pending' \subseteq Pending BY <1>1 DEF Pending, AtStage, Moving
<1>4. StillThere' BY <1>1, <1>2, <1>3 DEF Tidy, StillThere, AtStage, Moving
<1>5. NearlyFresh' BY <1>2 DEF Tidy, NearlyFresh, AtStage
<1>6. KeptIsLeft' BY <1>2, <1>3, LessPending DEF Tidy
<1> QED BY <1>4, <1>5, <1>6 DEF Tidy

\* The disk to keep is in no other group, under no other fingerprint.
LEMMA ChooseTidy ==
  ASSUME ShapeInv, Tidy, AtStage("ask"), NEW g \in job.todo, NEW keep \in Answers(g),
         Choose(g, keep)
  PROVE  Tidy'
<1>1. /\ job' = [stage |-> "next", todo |-> job.todo \ {g}, list |-> g \ {keep}]
      /\ UNCHANGED <<live, fingerprint>>
  BY DEF Choose
<1>2. /\ job.stage = "ask" /\ g \subseteq Fingerprints
      /\ fingerprint \subseteq Fingerprints /\ live \in [Paths -> Contents \cup {Absent}]
  BY JobAt DEF ShapeInv, TypeOK, AtStage, Groupings
<1>3. g \subseteq Pending BY <1>2 DEF Pending, AtStage
<1>4. Pending' \subseteq Pending
  BY <1>1, <1>2 DEF Pending, AtStage, Moving
<1>5. \A h \in job.todo : h = g \/ h \cap g = {} BY <1>2 DEF Tidy, StillThere, AtStage
<1>6. keep \in g => keep \notin Pending'
  BY <1>1, <1>5 DEF Pending, AtStage, Moving
<1>7. StillThere'
  BY <1>1, <1>2, <1>4, <1>5 DEF Tidy, StillThere, AtStage, Moving
<1>8. NearlyFresh' BY <1>1, <1>2 DEF Tidy, NearlyFresh, AtStage
<1>9. \A f \in fingerprint : live[f[1]] = f[2] BY <1>2 DEF Tidy, NearlyFresh, AtStage
<1>10. KeptIsLeft'
  <2>1. CASE keep = Nothing
    <3>1. history'.kept = history.kept BY <2>1, <1>2 DEF Choose, ShapeInv, TypeOK
    <3> QED BY <1>1, <1>4, <3>1 DEF Tidy, KeptIsLeft
  <2>2. CASE keep # Nothing
    <3>1. keep \in g /\ keep \in fingerprint
      BY <2>2, <1>3 DEF Answers, Tidy, StillThere
    <3>2. history'.kept = history.kept \cup {keep[1]}
      BY <2>2 DEF Choose, ShapeInv, TypeOK
    <3>3. live[keep[1]] # Absent
      BY <3>1, <1>2, <1>9, FingerprintParts, ContentAssumption
    <3>4. \A f \in Pending' : f \in fingerprint BY <1>4 DEF Tidy, StillThere
    <3>5. \A f \in Pending' : f[1] # keep[1]
      BY <3>1, <3>4, <1>2, <1>6, <1>9, OneEachWhenFresh
    <3> QED BY <1>1, <1>4, <3>2, <3>3, <3>5 DEF Tidy, KeptIsLeft
  <2> QED BY <2>1, <2>2
<1> QED BY <1>7, <1>8, <1>10 DEF Tidy

LEMMA ReadTidy ==
  ASSUME ShapeInv, Tidy, AtStage("next"), NEW f \in job.list, Read(f)
  PROVE  Tidy'
<1>1. /\ job' = [stage |-> "create", todo |-> job.todo, list |-> job.list \ {f}, at |-> f,
                 data |-> live[f[1]]]
      /\ UNCHANGED <<live, fingerprint, history>>
  BY DEF Read
<1>2. job.stage = "next" /\ f \in Fingerprints
  BY JobAt DEF AtStage, ShapeInv
<1>3. Pending' \subseteq Pending BY <1>1, <1>2 DEF Pending, AtStage, Moving
<1>4. StillThere' BY <1>1, <1>2, <1>3 DEF Tidy, StillThere, AtStage, Moving
<1>5. NearlyFresh' BY <1>1, <1>2 DEF Tidy, NearlyFresh, AtStage
<1>6. KeptIsLeft' BY <1>1, <1>3, LessPending DEF Tidy
<1> QED BY <1>4, <1>5, <1>6 DEF Tidy

\* The steps of the move of an image: the same fingerprints are pending.
LEMMA ThenPending ==
  ASSUME ShapeInv, job.stage \in Moving, NEW s \in Moving, Then(s)
  PROVE  /\ job'.stage = s /\ job'.todo = job.todo /\ job'.list = job.list /\ job'.at = job.at
         /\ Pending' = Pending
<1>1. job \in [stage : Moving, todo : Groupings, list : SUBSET Fingerprints,
               at : Fingerprints, data : Contents]
  BY JobAt DEF ShapeInv
<1>2. job'.stage = s /\ job'.todo = job.todo /\ job'.list = job.list /\ job'.at = job.at
  BY <1>1 DEF Then
<1> QED BY <1>2 DEF Pending, AtStage, Moving

LEMMA CopyTidy ==
  ASSUME ShapeInv, Tidy, Create \/ Write
  PROVE  Tidy'
<1>1. job.stage \in {"create", "write"} /\ UNCHANGED <<live, fingerprint, history>>
  BY DEF Create, Write, AtStage
<1>2. \E s \in {"write", "remove"} : Then(s) BY DEF Create, Write
<1>3. PICK s \in {"write", "remove"} : Then(s) BY <1>2
<1>4. /\ job'.stage = s /\ job'.todo = job.todo /\ job'.list = job.list /\ job'.at = job.at
      /\ Pending' = Pending
  BY <1>1, <1>3, ThenPending DEF Moving
<1>5. StillThere' BY <1>1, <1>4 DEF Tidy, StillThere, AtStage, Moving
<1>6. NearlyFresh' BY <1>1, <1>4 DEF Tidy, NearlyFresh, AtStage
<1>7. KeptIsLeft' BY <1>1, <1>4, LessPending DEF Tidy
<1> QED BY <1>5, <1>6, <1>7 DEF Tidy

\* The image that goes away is the one the command moves, and no other.
LEMMA RemoveTidy ==
  ASSUME ShapeInv, Tidy, Remove
  PROVE  Tidy'
<1>1. /\ job.stage = "remove" /\ UNCHANGED <<fingerprint, history>>
      /\ live' = [live EXCEPT ![job.at[1]] = Absent]
  BY DEF Remove, AtStage
<1>2. /\ job'.stage = "fingerprint" /\ job'.todo = job.todo /\ job'.list = job.list
      /\ job'.at = job.at /\ Pending' = Pending
  BY <1>1, ThenPending DEF Moving, Remove
<1>3. /\ job.at \in Fingerprints /\ fingerprint \subseteq Fingerprints
      /\ live \in [Paths -> Contents \cup {Absent}]
  BY <1>1, JobAt DEF ShapeInv, TypeOK, Moving
<1>4. job.at \in Pending BY <1>1, <1>3 DEF Pending, Moving
<1>5. job.at \in fingerprint BY <1>4 DEF Tidy, StillThere
<1>6. \A f \in fingerprint : live[f[1]] = f[2] BY <1>1 DEF Tidy, NearlyFresh, AtStage
<1>7. StillThere' BY <1>1, <1>2 DEF Tidy, StillThere, AtStage, Moving
<1>8. NearlyFresh'
  <2>1. \A f \in fingerprint : f = job.at \/ f[1] # job.at[1]
    BY <1>3, <1>5, <1>6, OneEachWhenFresh
  <2> QED BY <1>1, <1>2, <1>3, <1>6, <2>1, FingerprintParts DEF NearlyFresh, AtStage
<1>9. KeptIsLeft'
  <2>1. \A p \in history.kept : live'[p] = live[p]
    BY <1>1, <1>3, <1>4 DEF Tidy, KeptIsLeft, ShapeInv, TypeOK
  <2> QED BY <1>1, <1>2, <2>1 DEF Tidy, KeptIsLeft
<1> QED BY <1>7, <1>8, <1>9 DEF Tidy

LEMMA MoveFingerprintTidy ==
  ASSUME ShapeInv, Tidy, MoveFingerprint
  PROVE  Tidy'
<1>1. /\ job.stage = "fingerprint" /\ UNCHANGED <<live, history>>
      /\ fingerprint' = fingerprint \ {job.at}
      /\ job' = [stage |-> "next", todo |-> job.todo, list |-> job.list]
  BY DEF MoveFingerprint, AtStage
<1>2. Pending' \subseteq Pending BY <1>1 DEF Pending, AtStage, Moving
<1>3. job.at \notin job.list /\ \A g \in job.todo : job.at \notin g
  BY <1>1 DEF Tidy, StillThere, Moving
<1>4. job.at \notin Pending' BY <1>1, <1>3 DEF Pending, AtStage, Moving
<1>5. StillThere' BY <1>1, <1>2, <1>4 DEF Tidy, StillThere, AtStage, Moving
<1>6. NearlyFresh' BY <1>1 DEF Tidy, NearlyFresh
<1>7. KeptIsLeft' BY <1>1, <1>2, LessPending DEF Tidy
<1> QED BY <1>5, <1>6, <1>7 DEF Tidy

LEMMA NextGroupTidy ==
  ASSUME ShapeInv, Tidy, NextGroup
  PROVE  Tidy'
<1>1. /\ job.stage = "next" /\ UNCHANGED <<live, fingerprint, history>>
      /\ job' = [stage |-> "ask", todo |-> job.todo]
  BY DEF NextGroup, AtStage
<1>2. Pending' \subseteq Pending BY <1>1 DEF Pending, AtStage, Moving
<1>3. StillThere' BY <1>1, <1>2 DEF Tidy, StillThere, AtStage, Moving
<1>4. NearlyFresh' BY <1>1 DEF Tidy, NearlyFresh, AtStage
<1>5. KeptIsLeft' BY <1>1, <1>2, LessPending DEF Tidy
<1> QED BY <1>3, <1>4, <1>5 DEF Tidy

\* Every step keeps the store true of the images, if the command began so.
LEMMA FreshStep ==
  ASSUME FreshInv, [Next]_vars
  PROVE  FreshInv'
<1>1. ShapeInv /\ ShapeInv' BY ShapeStep DEF FreshInv
<1>2. ASSUME UNCHANGED vars PROVE FreshInv'
  BY <1>1, <1>2
  DEF FreshInv, vars, AtStage, StillThere, NearlyFresh, KeptIsLeft, Pending
<1>3. ASSUME AtStage("idle"), UNCHANGED <<job, history>> PROVE FreshInv'
  BY <1>1, <1>3 DEF FreshInv, AtStage
<1>4. ASSUME NEW kind \in Kinds, Start(kind) PROVE FreshInv'
  <2>1. history'.fresh = FreshStore /\ job'.stage = "ask" BY <1>4 DEF Start
  <2> QED BY <1>1, <1>4, <2>1, StartTidy DEF FreshInv, AtStage, Tidy
<1>5. ASSUME End PROVE FreshInv'
  <2>1. history' = NoHistory /\ job'.stage = "idle" BY <1>5 DEF End, Idle
  <2> QED BY <1>1, <2>1 DEF FreshInv, AtStage
<1>6. ASSUME ~AtStage("idle"), ~AtStage("idle")', history'.fresh = history.fresh, Tidy => Tidy'
      PROVE  FreshInv'
  BY <1>1, <1>6 DEF FreshInv, Tidy
<1>7. ASSUME AtStage("ask"), NEW g \in job.todo, Skip(g) PROVE FreshInv'
  <2>1. ~AtStage("idle") /\ ~AtStage("idle")'
    BY <1>1, <1>7, JobAt DEF Skip, AtStage, ShapeInv
  <2> QED BY <1>1, <1>6, <1>7, <2>1, SkipTidy DEF Skip
<1>8. ASSUME AtStage("ask"), NEW g \in job.todo, NEW keep \in Answers(g), Choose(g, keep)
      PROVE  FreshInv'
  <2>1. ~AtStage("idle") /\ ~AtStage("idle")' BY <1>8 DEF Choose, AtStage
  <2>2. history'.fresh = history.fresh BY <1>1, <1>8 DEF Choose, ShapeInv, TypeOK
  <2> QED BY <1>1, <1>6, <1>8, <2>1, <2>2, ChooseTidy
<1>9. ASSUME AtStage("next"), NEW f \in job.list, Read(f) PROVE FreshInv'
  <2>1. ~AtStage("idle") /\ ~AtStage("idle")' BY <1>9 DEF Read, AtStage
  <2> QED BY <1>1, <1>6, <1>9, <2>1, ReadTidy DEF Read
<1>10. ASSUME Create \/ Write \/ Remove PROVE FreshInv'
  <2>1. job.stage \in Moving /\ history' = history
    BY <1>10 DEF Create, Write, Remove, AtStage, Moving
  <2>2. \E s \in Moving : Then(s) BY <1>10 DEF Create, Write, Remove, Moving
  <2>3. ~AtStage("idle") /\ ~AtStage("idle")'
    BY <1>1, <2>1, <2>2, ThenPending DEF AtStage, Moving
  <2> QED BY <1>1, <1>6, <1>10, <2>1, <2>3, CopyTidy, RemoveTidy
<1>11. ASSUME MoveFingerprint PROVE FreshInv'
  <2>1. ~AtStage("idle") /\ ~AtStage("idle")' BY <1>11 DEF MoveFingerprint, AtStage
  <2> QED BY <1>1, <1>6, <1>11, <2>1, MoveFingerprintTidy DEF MoveFingerprint
<1>12. ASSUME NextGroup PROVE FreshInv'
  <2>1. ~AtStage("idle") /\ ~AtStage("idle")' BY <1>12 DEF NextGroup, AtStage
  <2> QED BY <1>1, <1>6, <1>12, <2>1, NextGroupTidy DEF NextGroup
<1> QED
  BY <1>2, <1>3, <1>4, <1>5, <1>7, <1>8, <1>9, <1>10, <1>11, <1>12
  DEF Next, Ingest, Restore, Edit, Finish, ReadFails, Stop

LEMMA FreshInit ==
  ASSUME Init
  PROVE  FreshInv
BY ShapeInit DEF FreshInv

\* The disks the user chooses to keep stay, through all the groups of the command, if
\* no fingerprint was stale when it began.
THEOREM KeptDisksStay == Spec => []KeptStays
<1>1. Init => FreshInv BY FreshInit
<1>2. FreshInv /\ [Next]_vars => FreshInv' BY FreshStep
<1>3. FreshInv => KeptStays BY DEF FreshInv, KeptStays, KeptIsLeft, NoHistory
<1> QED BY <1>1, <1>2, <1>3, PTL DEF Spec

\* A command that began with no stale fingerprint makes one at most, that of the disk it
\* has just moved.
THEOREM NoGhostsLeft == Spec => []NoGhosts
<1>1. Init => FreshInv BY FreshInit
<1>2. FreshInv /\ [Next]_vars => FreshInv' BY FreshStep
<1>3. FreshInv => NoGhosts BY DEF FreshInv, NoGhosts, NearlyFresh
<1> QED BY <1>1, <1>2, <1>3, PTL DEF Spec
==============================================================================
