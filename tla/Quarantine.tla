------------------------------ MODULE Quarantine ------------------------------
(***************************************************************************)
(* The fingerprint store and the quarantine commands (shell.go,            *)
(* quarantineWholeDisks, quarantineActiveDisks, moveFile; data.go,         *)
(* Aggregate; report.go, Add).  A fingerprint is written whenever an image *)
(* is analysed, and tells for ever what the image was then.  Quarantine    *)
(* groups the fingerprints by checksum, asks of each group which disk to   *)
(* keep, and moves the others: the image first, its fingerprint second.    *)
(***************************************************************************)
EXTENDS FiniteSets, Naturals

CONSTANTS
  Paths,     \* image files
  Contents,  \* what an image can hold, told apart by its SHA256
  ActiveOf,  \* the SHA256 of the active sectors
  CanFill,   \* whether the host file system can fill up
  MaxStore,  \* bound on the number of fingerprints
  Absent,    \* no such file
  Torn,      \* a file that is not, or not wholly, written
  Nothing    \* no disk of the group is kept

Kinds == {"whole-dupes", "as-dupes"}
Fingerprints == Paths \X Contents

ASSUME ContentAssumption == {Absent, Torn, Nothing} \cap Contents = {} /\ Absent # Torn
ASSUME ActiveAssumption == DOMAIN ActiveOf = Contents /\ CanFill \in BOOLEAN
ASSUME BoundAssumption == MaxStore \in Nat

VARIABLES
  live,         \* the image files
  fingerprint,  \* the .fgp files: the path and the contents they are about
  quarantined,  \* binpath()/quarantine, by the path an image had
  job,          \* the quarantine command that runs
  history       \* of the command: the images when it began, whether no
                \* fingerprint was stale then, and the paths the user keeps

vars == <<live, fingerprint, quarantined, job, history>>

Idle == [stage |-> "idle"]
NoHistory == [before |-> [p \in Paths |-> Absent], fresh |-> TRUE, kept |-> {}]
AtStage(s) == job.stage = s
Then(s) == job' = [job EXCEPT !.stage = s]

FreshStore == \A f \in fingerprint : live[f[1]] = f[2]

RoomInStore == Cardinality(fingerprint') <= MaxStore

Init ==
  /\ live \in [Paths -> Contents \cup {Absent}]
  /\ fingerprint = {}
  /\ quarantined = [p \in Paths |-> Absent]
  /\ job = Idle
  /\ history = NoHistory

------------------------------------------------------------------------------
\* ingest, and every other command that analyses an image: the name of the
\* fingerprint is made of its path and its checksums.
Ingest(p) ==
  /\ AtStage("idle")
  /\ live[p] # Absent
  /\ fingerprint' = fingerprint \cup {<<p, live[p]>>}
  /\ RoomInStore
  /\ UNCHANGED <<live, quarantined, job, history>>

\* A command that edits a disk analyses the image as it was.
Edit(p, c) ==
  /\ AtStage("idle")
  /\ live[p] \notin {Absent, c}
  /\ fingerprint' = fingerprint \cup {<<p, live[p]>>}
  /\ RoomInStore
  /\ live' = [live EXCEPT ![p] = c]
  /\ UNCHANGED <<quarantined, job, history>>

\* The user copies an image back.
Restore(p) ==
  /\ AtStage("idle")
  /\ live[p] = Absent
  /\ quarantined[p] \in Contents
  /\ live' = [live EXCEPT ![p] = quarantined[p]]
  /\ UNCHANGED <<fingerprint, quarantined, job, history>>

------------------------------------------------------------------------------
Sum(kind, f) == IF kind = "whole-dupes" THEN f[2] ELSE ActiveOf[f[2]]

\* Aggregate
Groups(kind) ==
  {g \in {{f \in fingerprint : Sum(kind, f) = Sum(kind, h)} : h \in fingerprint} :
     Cardinality(g) # 1}

Start(kind) ==
  /\ AtStage("idle")
  /\ job' = [stage |-> "ask", todo |-> Groups(kind)]
  /\ history' = [before |-> live, fresh |-> FreshStore, kept |-> {}]
  /\ UNCHANGED <<live, fingerprint, quarantined>>

End ==
  /\ job' = Idle
  /\ history' = NoHistory
  /\ UNCHANGED <<live, fingerprint, quarantined>>

\* Every group was asked about, or the user answers q.
Finish == AtStage("ask") /\ End

Skip(g) ==
  /\ AtStage("ask")
  /\ g \in job.todo
  /\ job' = [job EXCEPT !.todo = @ \ {g}]
  /\ UNCHANGED <<live, fingerprint, quarantined, history>>

\* One more than the number of disks is an answer too, and keeps none.
Answers(g) == g \cup {Nothing}

\* Mutant: the disk to keep is not left out.
ChooseAll(g, keep) ==
  /\ AtStage("ask")
  /\ g \in job.todo
  /\ keep \in Answers(g)
  /\ job' = [stage |-> "next", todo |-> job.todo \ {g}, list |-> g]
  /\ history' = [history EXCEPT !.kept = @ \cup (IF keep = Nothing THEN {} ELSE {keep[1]})]
  /\ UNCHANGED <<live, fingerprint, quarantined>>

Choose(g, keep) ==
  /\ AtStage("ask")
  /\ g \in job.todo
  /\ keep \in Answers(g)
  /\ job' = [stage |-> "next", todo |-> job.todo \ {g}, list |-> g \ {keep}]
  /\ history' = [history EXCEPT !.kept = @ \cup (IF keep = Nothing THEN {} ELSE {keep[1]})]
  /\ UNCHANGED <<live, fingerprint, quarantined>>

------------------------------------------------------------------------------
\* Mutant: the move goes on when the image cannot be read.
ReadAny(f) ==
  /\ AtStage("next")
  /\ f \in job.list
  /\ job' = [stage |-> "create", todo |-> job.todo, list |-> job.list \ {f}, at |-> f,
             data |-> live[f[1]]]
  /\ UNCHANGED <<live, fingerprint, quarantined, history>>

\* moveFile of an image: it is read, and must be there to be.
Read(f) ==
  /\ AtStage("next")
  /\ f \in job.list
  /\ live[f[1]] # Absent
  /\ job' = [stage |-> "create", todo |-> job.todo, list |-> job.list \ {f}, at |-> f,
             data |-> live[f[1]]]
  /\ UNCHANGED <<live, fingerprint, quarantined, history>>

ReadFails(f) ==
  /\ AtStage("next")
  /\ f \in job.list
  /\ live[f[1]] = Absent
  /\ End

\* Mutant: the image is removed before it is written.
CreateRemoves ==
  /\ AtStage("create")
  /\ quarantined' = [quarantined EXCEPT ![job.at[1]] = Torn]
  /\ live' = [live EXCEPT ![job.at[1]] = Absent]
  /\ Then("write")
  /\ UNCHANGED <<fingerprint, history>>

Create ==
  /\ AtStage("create")
  /\ quarantined' = [quarantined EXCEPT ![job.at[1]] = Torn]
  /\ Then("write")
  /\ UNCHANGED <<live, fingerprint, history>>

\* The result of Write is not looked at.
Write ==
  /\ AtStage("write")
  /\ \E written \in {job.data} \cup (IF CanFill THEN {Torn} ELSE {}) :
       quarantined' = [quarantined EXCEPT ![job.at[1]] = written]
  /\ Then("remove")
  /\ UNCHANGED <<live, fingerprint, history>>

Remove ==
  /\ AtStage("remove")
  /\ live' = [live EXCEPT ![job.at[1]] = Absent]
  /\ Then("fingerprint")
  /\ UNCHANGED <<fingerprint, quarantined, history>>

\* Mutant: the fingerprint stays where it was.
KeepFingerprint ==
  /\ AtStage("fingerprint")
  /\ job' = [stage |-> "next", todo |-> job.todo, list |-> job.list]
  /\ UNCHANGED <<live, fingerprint, quarantined, history>>

\* moveFile of the fingerprint, to a name that nothing reads.
MoveFingerprint ==
  /\ AtStage("fingerprint")
  /\ fingerprint' = fingerprint \ {job.at}
  /\ job' = [stage |-> "next", todo |-> job.todo, list |-> job.list]
  /\ UNCHANGED <<live, quarantined, history>>

NextGroup ==
  /\ AtStage("next")
  /\ job.list = {}
  /\ job' = [stage |-> "ask", todo |-> job.todo]
  /\ UNCHANGED <<live, fingerprint, quarantined, history>>

\* An error of the file system ends the command where it is, and so does a kill.
Stop == ~AtStage("idle") /\ End

Next ==
  \/ \E p \in Paths : Ingest(p) \/ Restore(p)
  \/ \E p \in Paths, c \in Contents : Edit(p, c)
  \/ \E kind \in Kinds : Start(kind)
  \/ Finish
  \/ AtStage("ask") /\ \E g \in job.todo : Skip(g) \/ \E keep \in Answers(g) : Choose(g, keep)
  \/ AtStage("next") /\ \E f \in job.list : Read(f) \/ ReadFails(f)
  \/ Create \/ Write \/ Remove \/ MoveFingerprint \/ NextGroup
  \/ Stop

Spec == Init /\ [][Next]_vars

------------------------------------------------------------------------------
Stages == {"idle", "ask", "next", "create", "write", "remove", "fingerprint"}
TypeOK ==
  /\ live \in [Paths -> Contents \cup {Absent}]
  /\ fingerprint \subseteq Fingerprints
  /\ quarantined \in [Paths -> Contents \cup {Absent, Torn}]
  /\ job.stage \in Stages
  /\ ~AtStage("idle") => job.todo \subseteq SUBSET Fingerprints
  /\ job.stage \in Stages \ {"idle", "ask"} => job.list \subseteq Fingerprints
  /\ job.stage \in Stages \ {"idle", "ask", "next"} =>
       job.at \in Fingerprints /\ job.data \in Contents
  /\ history \in [before : [Paths -> Contents \cup {Absent}], fresh : BOOLEAN, kept : SUBSET Paths]

\* No image gets lost between its place and the quarantine, wherever the
\* program is killed: what a path held when the command began is there or in
\* the quarantine, whatever was in the quarantine under that name before.
ImagesSurvive ==
  \A p \in Paths : history.before[p] \in {Absent, live[p], quarantined[p]}

\* The prompt asks "Which one to keep?": the disk that is chosen stays, through
\* all the groups of the command, if no fingerprint was stale when it began.
\* (A disk that was edited has two fingerprints, and is two disks to the command;
\* with the same active sectors it is asked about as a duplicate of itself.)
KeptStays == history.fresh => \A p \in history.kept : live[p] # Absent

\* A command that began with no stale fingerprint makes one at most, wherever it
\* ends: that of the disk it has moved when the move of the fingerprint fails.
\* Of every other image the store still says the truth.
NoGhosts ==
  (history.fresh /\ ~AtStage("idle")) =>
    \A f \in fingerprint :
      live[f[1]] = f[2] \/ (AtStage("fingerprint") /\ f = job.at)
==============================================================================
