-------------------------- MODULE RawShipperProofs --------------------------
(***************************************************************************)
(* Theorems about RawShipper, for any files, contents, faults and bounds.  *)
(***************************************************************************)
EXTENDS RawShipper, TLAPS

-----------------------------------------------------------------------------
(* Type correctness *)

\* Beyond their types, the job's fields are filled in as the worker goes.
JobOK ==
    /\ pc \in Busy => job.path \in Paths
    /\ pc \in Busy \ {"hash"} => job.sha \in Contents
    /\ pc \in {"measure", "post", "wait"} => job.data \in Contents
    /\ pc \in {"post", "wait"} => job.size \in Contents /\ job.attempt \in 1 .. MaxAttempts

TypeInv == TypeOK /\ JobOK

LEMMA NoJobType == NoJob \in Job
BY BoundsAssumption DEF NoJob, Job

LEMMA TypeInvInit == Init => TypeInv
<1> SUFFICES ASSUME Init PROVE TypeInv
  OBVIOUS
<1>1. queue = <<>> /\ <<>> \in Seq(Paths \cup {None})
  BY DEF Init
<1>2. pc \in Label \ Busy /\ life \in Life /\ JobOK
  BY DEF Init, Label, Busy, Life, JobOK
<1> QED
  BY <1>1, <1>2, NoJobType DEF Init, TypeInv, TypeOK

\* The owner's steps.
LEMMA OwnerType == TypeInv /\ (Start \/ Owner \/ Crash) => TypeInv'
<1> SUFFICES ASSUME TypeInv, Start \/ Owner \/ Crash PROVE TypeInv'
  OBVIOUS
<1> USE NoJobType DEF TypeInv, TypeOK, JobOK, Life, Label, Busy, worldVars, workVars
<1>1. CASE Start
  BY <1>1 DEF Start
<1>2. CASE StartObserver \/ NoObserver
  BY <1>2 DEF StartObserver, NoObserver
<1>3. CASE StopFlag
  BY <1>3 DEF StopFlag
<1>4. CASE StopObserver
  BY <1>4 DEF StopObserver
<1>5. CASE StopWake
  BY <1>5 DEF StopWake
<1>6. CASE StopClose
  BY <1>6 DEF StopClose
<1>7. CASE ObserverRaises \/ Exit \/ Crash
  <2>1. Vanish
    BY <1>7 DEF ObserverRaises, Exit, Crash
  <2>2. queue' = <<>> /\ <<>> \in Seq(Paths \cup {None})
    BY <2>1 DEF Vanish
  <2> QED
    BY <2>1, <2>2 DEF Vanish
<1> QED
  BY <1>1, <1>2, <1>3, <1>4, <1>5, <1>6, <1>7 DEF Owner

\* Recording keeps the types.
LEMMA RecordType ==
    ASSUME TypeOK, NEW c \in Contents, NEW status \in Status, Record(c, status)
    PROVE  db' \in [Contents -> Status \cup {None}] /\ gaveUp' \in SUBSET Contents
BY DEF TypeOK, Record

\* An attempt that failed.
LEMMA TryAgainType ==
    ASSUME TypeInv, pc = "wait", TryAgain
    PROVE  /\ db' \in [Contents -> Status \cup {None}]
           /\ gaveUp' \in SUBSET Contents
           /\ pc' \in {"loop", "post"} /\ job' \in Job
           /\ pc' = "post" => /\ job'.path = job.path /\ job'.sha = job.sha
                              /\ job'.data = job.data /\ job'.size = job.size
                              /\ job'.attempt \in 1 .. MaxAttempts
<1>1. job.sha \in Contents /\ job.attempt \in 1 .. MaxAttempts /\ job \in Job
  BY DEF TypeInv, TypeOK, JobOK, Busy
<1>2. CASE job.attempt = MaxAttempts /\ Record(job.sha, "failed") /\ NextItem
  BY <1>1, <1>2, RecordType, NoJobType DEF NextItem, TypeInv, Status
<1>3. CASE /\ job.attempt < MaxAttempts /\ pc' = "post" /\ RecordNothing
           /\ job' = [job EXCEPT !.attempt = job.attempt + 1, !.answer = None]
  <2>1. /\ job.attempt + 1 \in 1 .. MaxAttempts
        /\ job.attempt + 1 \in 0 .. MaxAttempts
    BY <1>1, <1>3, BoundsAssumption
  <2>2. /\ job' \in Job /\ job'.path = job.path /\ job'.sha = job.sha
        /\ job'.data = job.data /\ job'.size = job.size
        /\ job'.attempt = job.attempt + 1
    BY <1>1, <1>3, <2>1 DEF Job
  <2> QED
    BY <1>3, <2>1, <2>2 DEF RecordNothing, TypeInv, TypeOK
<1> QED
  BY <1>2, <1>3 DEF TryAgain

LEMMA WorkerType == TypeInv /\ (Worker \/ NetworkError) => TypeInv'
<1> SUFFICES ASSUME TypeInv, Worker \/ NetworkError PROVE TypeInv'
  OBVIOUS
<1> USE NoJobType DEF TypeInv, TypeOK, JobOK, Label, Busy, worldVars, ownerVars
<1>1. ASSUME NEW p \in Paths, ScanOne(p) PROVE TypeInv'
  BY <1>1 DEF ScanOne
<1>2. CASE ScanEnd \/ ScanRaises
  BY <1>2 DEF ScanEnd, ScanRaises
<1>3. CASE Loop
  BY <1>3 DEF Loop
<1>4. CASE Get
  <2>1. Head(queue) \in Paths \cup {None} /\ Tail(queue) \in Seq(Paths \cup {None})
    BY <1>4 DEF Get
  <2>2. Head(queue) # None => [job EXCEPT !.path = Head(queue)] \in Job
    BY <2>1 DEF Job
  <2> QED
    BY <1>4, <2>1, <2>2 DEF Get, NextItem, Job
<1>5. CASE Drop \/ RecordFails
  <2>1. pc \in Busy /\ Leave
    BY <1>5 DEF Drop, RecordFails
  <2> QED
    BY <2>1 DEF Leave, NextItem
<1>6. CASE Hash
  <2>1. job.path \in Paths /\ disk[job.path] \in Contents
    BY <1>6 DEF Hash, Missing
  <2> QED
    BY <1>6, <2>1 DEF Hash, NextItem, RecordNothing, Job
<1>7. CASE FirstStat
  BY <1>7 DEF FirstStat, RecordNothing, Job, Missing
<1>8. CASE Settle
  <2>1. disk[job.path] \in Contents \cup {None}
    BY <1>8 DEF Settle
  <2>2. CASE NextItem
    BY <1>8, <2>2 DEF Settle, NextItem, RecordNothing
  <2>3. CASE pc' = "read" /\ job' = job
    BY <1>8, <2>3 DEF Settle, RecordNothing
  <2>4. CASE /\ job.churn + 1 <= MaxChurn /\ pc' = pc
             /\ job' = [job EXCEPT !.prev = disk[job.path], !.churn = job.churn + 1]
    <3>1. job.churn \in Nat /\ job.churn + 1 \in 0 .. MaxChurn
      BY <2>4, BoundsAssumption DEF Job
    <3>2. job' \in Job /\ job'.path = job.path /\ job'.sha = job.sha
      BY <2>1, <2>4, <3>1 DEF Job
    <3> QED
      BY <1>8, <2>4, <3>2 DEF Settle, RecordNothing
  <2>5. NextItem \/ (pc' = "read" /\ job' = job)
        \/ (/\ job.churn + 1 <= MaxChurn /\ pc' = pc
            /\ job' = [job EXCEPT !.prev = disk[job.path], !.churn = job.churn + 1])
    BY <1>8 DEF Settle
  <2> QED
    BY <2>2, <2>3, <2>4, <2>5
<1>9. CASE Read
  BY <1>9 DEF Read, RecordNothing, Job, Missing
<1>10. CASE Measure
  <2>1. job.sha \in Contents /\ disk[job.path] \in Contents
    BY <1>10 DEF Measure, Missing
  <2>2. 1 \in 1 .. MaxAttempts /\ 1 \in 0 .. MaxAttempts
    BY BoundsAssumption
  <2>3. job' \in Job /\ job'.path = job.path /\ job'.sha = job.sha /\ job'.attempt = 1
    BY <1>10, <2>1, <2>2 DEF Measure, Job
  <2>4. db' \in [Contents -> Status \cup {None}] /\ gaveUp' \in SUBSET Contents
    BY <1>10, <2>1, RecordType DEF Measure, Status
  <2>5. job'.data \in Contents /\ job'.size \in Contents
    BY <1>10, <2>1 DEF Measure, Job
  <2>6. pc' = "post" /\ job'.path \in Paths /\ job'.sha \in Contents
    BY <1>10, <2>1, <2>3 DEF Measure
  <2>7. JobOK'
    BY <2>2, <2>3, <2>5, <2>6
  <2> QED
    BY <1>10, <2>3, <2>4, <2>6, <2>7 DEF Measure
<1>11. CASE Post
  BY <1>11 DEF Post, NextItem, RecordNothing, Job
<1>12. CASE Retry \/ NetworkError
  <2>1. pc = "wait" /\ TryAgain
    BY <1>12 DEF Retry, NetworkError
  <2> QED
    BY <1>12, <2>1, TryAgainType DEF Retry, NetworkError
<1>13. CASE Uploaded \/ Rejected
  <2>1. /\ job.sha \in Contents
        /\ Record(job.sha, "uploaded") \/ Record(job.sha, "failed")
    BY <1>13 DEF Uploaded, Rejected
  <2>2. db' \in [Contents -> Status \cup {None}] /\ gaveUp' \in SUBSET Contents
    BY <2>1, RecordType DEF Status
  <2> QED
    BY <1>13, <2>2 DEF Uploaded, Rejected, NextItem
<1> QED
  BY <1>1, <1>2, <1>3, <1>4, <1>5, <1>6, <1>7, <1>8, <1>9, <1>10, <1>11,
     <1>12, <1>13
  DEF Worker

LEMMA WorldType ==
    ASSUME TypeInv
    PROVE  /\ \A p \in Paths, c \in Contents \cup {None} :
                 Touch(p, c) \/ Rename(p, c) => TypeInv'
           /\ Server => TypeInv'
           /\ \A c \in Contents : StoredElsewhere(c) => TypeInv'
<1> USE DEF TypeInv, TypeOK, JobOK, Label, Busy
<1>1. ASSUME NEW p \in Paths, NEW c \in Contents \cup {None}, Touch(p, c) \/ Rename(p, c)
      PROVE  TypeInv'
  <2>1. /\ disk' = [disk EXCEPT ![p] = c] /\ queue' \in {queue, Append(queue, p)}
        /\ writes' = writes + 1
        /\ UNCHANGED <<archived, db, ownerVars, workVars, troubles>>
        /\ unheard' \in {unheard, unheard \cup {p}, unheard \ {p}}
    BY <1>1 DEF Touch, Rename, Change
  <2> QED
    BY <2>1 DEF ownerVars, workVars
<1>2. ASSUME Server PROVE TypeInv'
  <2>1. PICK a \in Answers : Answered(a)
    BY <1>2 DEF Server, ServerStores, ServerRefuses, ServerTroubles, Answers
  <2>2. job' \in Job /\ job'.path = job.path /\ job'.sha = job.sha
           /\ job'.attempt = job.attempt
    BY <2>1 DEF Answered, Job
  <2>3. job.sha \in Contents
    BY <2>1 DEF Answered
  <2>4. archived' \in SUBSET Contents /\ writes' \in Nat /\ troubles' \in Nat
        /\ starts' \in Nat
    BY <1>2, <2>1, <2>3
    DEF Server, ServerStores, ServerRefuses, ServerTroubles, Answered, ownerVars
  <2> QED
    BY <2>1, <2>2, <2>4 DEF Answered, ownerVars
<1>3. ASSUME NEW c \in Contents, StoredElsewhere(c) PROVE TypeInv'
  BY <1>3 DEF StoredElsewhere, ownerVars, workVars
<1> QED
  BY <1>1, <1>2, <1>3

LEMMA TypeInvStep == TypeInv /\ [Next]_vars => TypeInv'
<1>1. TypeInv /\ UNCHANGED vars => TypeInv'
  BY DEF TypeInv, TypeOK, JobOK, vars
<1> QED
  BY <1>1, OwnerType, WorkerType, WorldType DEF Next

\* Every variable keeps its type, and no post is tried more than
\* MaxAttempts times.
THEOREM TypeCorrect == Spec => []TypeOK
<1>1. Spec => []TypeInv
  BY TypeInvInit, TypeInvStep, PTL DEF Spec
<1>2. TypeInv => TypeOK
  BY DEF TypeInv
<1> QED
  BY <1>1, <1>2, PTL

-----------------------------------------------------------------------------
(* The record never lies and is never taken back *)

\* An answer that means success was given for a content the server has.
AnswerTrue ==
    pc = "wait" /\ job.answer \in {"stored", "conflict"} => job.sha \in archived

\* A path past the check of the record is not recorded as uploaded.
Unrecorded ==
    DbOpen /\ pc \in Busy \ {"hash"} => db[job.sha] # "uploaded"

RecordInv == TypeInv /\ AnswerTrue /\ Unrecorded /\ UploadedIsArchived

\* A record that exists as "uploaded" is kept by the step.
Kept == \A c \in Contents : db[c] = "uploaded" => db'[c] = "uploaded"

LEMMA RecordInvInit == Init => RecordInv
<1> SUFFICES ASSUME Init PROVE RecordInv
  OBVIOUS
<1>1. AnswerTrue /\ Unrecorded
  BY DEF Init, AnswerTrue, Unrecorded, Busy
<1>2. \A c \in Contents : db[c] # "uploaded"
  BY NoneAssumption DEF Init, Status
<1> QED
  BY <1>1, <1>2, TypeInvInit DEF RecordInv, UploadedIsArchived

\* What a step has to keep of the invariant, beside the types.
Goal == AnswerTrue' /\ Unrecorded' /\ UploadedIsArchived' /\ Kept

\* A step that leaves the record, the archive and the job alone, or drops the
\* job, keeps everything.
LEMMA Harmless ==
    ASSUME RecordInv, db' = db, archived' = archived,
           \/ pc' \notin Busy
           \/ pc' = "hash"
           \/ /\ DbOpen' => DbOpen
              /\ pc \in Busy \ {"hash"} /\ job'.sha = job.sha
              /\ pc' # "wait" \/ job'.answer \notin {"stored", "conflict"}
                 \/ (pc = "wait" /\ job'.answer = job.answer)
    PROVE  Goal
BY DEF RecordInv, Goal, AnswerTrue, Unrecorded, UploadedIsArchived, Kept, Busy

\* Recording about the job's own content, which is not recorded as uploaded,
\* takes nothing back.
LEMMA RecordKeeps ==
    ASSUME RecordInv, NEW status \in Status, pc \in Busy \ {"hash"},
           Record(job.sha, status), archived' = archived,
           status = "uploaded" => job.sha \in archived,
           \/ pc' \notin Busy
           \/ pc' \in Busy \ {"wait"} /\ status # "uploaded" /\ job'.sha = job.sha
              /\ life' = life
    PROVE  Goal
<1>1. job.sha \in Contents /\ db \in [Contents -> Status \cup {None}]
  BY DEF RecordInv, TypeInv, TypeOK, JobOK
<1>2. CASE ~DbOpen
  <2>1. db' = db
    BY <1>2 DEF Record
  <2> QED
    BY <1>2, <2>1 DEF RecordInv, Goal, AnswerTrue, Unrecorded,
         UploadedIsArchived, Kept, DbOpen, Busy
<1>3. CASE DbOpen
  <2>1. db[job.sha] # "uploaded"
    BY <1>3 DEF RecordInv, Unrecorded
  <2>2. db' = [db EXCEPT ![job.sha] = status]
    BY <1>3 DEF Record
  <2>3. Kept /\ UploadedIsArchived'
    BY <1>1, <2>1, <2>2 DEF Kept, UploadedIsArchived, RecordInv
  <2>4. AnswerTrue' /\ Unrecorded'
    BY <1>1, <2>2 DEF AnswerTrue, Unrecorded, Busy
  <2> QED
    BY <2>3, <2>4 DEF Goal
<1> QED
  BY <1>2, <1>3

LEMMA OwnerKeeps == RecordInv /\ (Start \/ Owner \/ Crash) => Goal
<1> SUFFICES ASSUME RecordInv, Start \/ Owner \/ Crash PROVE Goal
  OBVIOUS
<1>1. CASE Start
  BY <1>1, Harmless DEF Start, worldVars, Busy
<1>2. CASE ObserverRaises \/ Exit \/ Crash
  BY <1>2, Harmless DEF ObserverRaises, Exit, Crash, Vanish, worldVars, Busy
<1>3. CASE \/ StartObserver \/ NoObserver
           \/ StopFlag \/ StopObserver \/ StopWake \/ StopClose
  <2>1. /\ db' = db /\ archived' = archived /\ pc' = pc /\ job' = job
        /\ DbOpen' => DbOpen
    BY <1>3 DEF StartObserver, NoObserver, StopFlag, StopObserver, StopWake, StopClose,
         worldVars, workVars, DbOpen
  <2> QED
    BY <2>1, Harmless DEF Busy
<1> QED
  BY <1>1, <1>2, <1>3 DEF Owner

LEMMA WorkerKeeps == RecordInv /\ (Worker \/ NetworkError) => Goal
<1> SUFFICES ASSUME RecordInv, Worker \/ NetworkError PROVE Goal
  OBVIOUS
<1>1. ASSUME NEW p \in Paths, ScanOne(p) PROVE Goal
  BY <1>1, Harmless DEF ScanOne, worldVars, Busy
<1>2. CASE ScanEnd \/ ScanRaises \/ Loop \/ Get \/ Drop \/ RecordFails
  BY <1>2, Harmless
  DEF ScanEnd, ScanRaises, Loop, Get, Drop, RecordFails, Leave, NextItem, worldVars, Busy
<1>3. CASE Hash
  <2>1. CASE NextItem
    BY <1>3, <2>1, Harmless DEF Hash, NextItem, RecordNothing, worldVars, Busy
  <2>2. CASE /\ ~(DbOpen /\ db[disk[job.path]] = "uploaded")
             /\ pc' = "stat" /\ job' = [job EXCEPT !.sha = disk[job.path]]
    <3>1. /\ db' = db /\ archived' = archived /\ life' = life
      BY <1>3 DEF Hash, RecordNothing, worldVars, ownerVars
    <3>2. job \in Job
      BY DEF RecordInv, TypeInv, TypeOK
    <3>3. job'.sha = disk[job.path]
      BY <2>2, <3>2 DEF Job
    <3> QED
      BY <2>2, <3>1, <3>3 DEF Goal, RecordInv, AnswerTrue, Unrecorded,
           UploadedIsArchived, Kept, DbOpen, Busy
  <2> QED
    BY <1>3, <2>1, <2>2 DEF Hash
<1>4. CASE FirstStat \/ Settle \/ Read \/ Post
  <2>1. /\ db' = db /\ archived' = archived /\ life' = life
        /\ pc \in Busy \ {"hash", "wait"} /\ job \in Job
    BY <1>4
    DEF FirstStat, Settle, Read, Post, RecordNothing, worldVars, ownerVars, Busy,
        RecordInv, TypeInv, TypeOK
  <2>2. \/ pc' = "loop"
        \/ job'.sha = job.sha /\ (pc' # "wait" \/ job'.answer = None)
    BY <1>4, <2>1 DEF FirstStat, Settle, Read, Post, NextItem, Job
  <2> QED
    BY <2>1, <2>2, Harmless, NoneAssumption DEF Busy, DbOpen, Answers
<1>5. CASE Measure
  BY <1>5, RecordKeeps
  DEF Measure, Status, worldVars, ownerVars, Busy, RecordInv, TypeInv, TypeOK, Job
<1>6. CASE Retry \/ NetworkError
  <2>1. /\ pc = "wait" /\ TryAgain /\ archived' = archived /\ life' = life
        /\ job \in Job
    BY <1>6 DEF Retry, NetworkError, worldVars, ownerVars, RecordInv, TypeInv, TypeOK
  <2>2. CASE Record(job.sha, "failed") /\ NextItem
    BY <2>1, <2>2, RecordKeeps DEF NextItem, Status, Busy
  <2>3. CASE /\ pc' = "post" /\ RecordNothing
             /\ job' = [job EXCEPT !.attempt = job.attempt + 1, !.answer = None]
    <3>1. job'.sha = job.sha
      BY <2>1, <2>3 DEF Job
    <3> QED
      BY <2>1, <2>3, <3>1, Harmless DEF RecordNothing, Busy, DbOpen
  <2> QED
    BY <2>1, <2>2, <2>3 DEF TryAgain
<1>7. CASE Uploaded
  <2>1. job.sha \in archived
    BY <1>7 DEF Uploaded, RecordInv, AnswerTrue
  <2> QED
    BY <1>7, <2>1, RecordKeeps DEF Uploaded, NextItem, Status, worldVars, Busy
<1>8. CASE Rejected
  BY <1>8, RecordKeeps DEF Rejected, NextItem, Status, worldVars, Busy
<1> QED
  BY <1>1, <1>2, <1>3, <1>4, <1>5, <1>6, <1>7, <1>8 DEF Worker

LEMMA WorldKeeps ==
    ASSUME RecordInv
    PROVE  /\ \A p \in Paths, c \in Contents \cup {None} :
                 Touch(p, c) \/ Rename(p, c) => Goal
           /\ Server => Goal
           /\ \A c \in Contents : StoredElsewhere(c) => Goal
<1>1. ASSUME NEW p \in Paths, NEW c \in Contents \cup {None}, Touch(p, c) \/ Rename(p, c)
      PROVE  Goal
  <2>1. db' = db /\ archived' = archived /\ pc' = pc /\ job' = job /\ life' = life
    BY <1>1 DEF Touch, Rename, Change, ownerVars, workVars
  <2> QED
    BY <2>1, Harmless DEF Busy, DbOpen
<1>2. ASSUME Server PROVE Goal
  <2>1. PICK a \in Answers : /\ Answered(a)
                             /\ a \in {"stored", "conflict"} => job.sha \in archived'
    BY <1>2 DEF Server, ServerStores, ServerRefuses, ServerTroubles, Answers
  <2>2. /\ db' = db /\ pc' = pc /\ pc = "wait" /\ life' = life /\ job \in Job
        /\ archived \subseteq archived'
    BY <1>2, <2>1
    DEF Server, ServerStores, ServerRefuses, ServerTroubles, Answered, ownerVars,
        RecordInv, TypeInv, TypeOK
  <2>3. job'.answer = a /\ job'.sha = job.sha
    BY <2>1, <2>2 DEF Answered, Job
  <2> QED
    BY <2>1, <2>2, <2>3
    DEF Goal, RecordInv, AnswerTrue, Unrecorded, UploadedIsArchived, Kept,
        DbOpen, Busy
<1>3. ASSUME NEW c \in Contents, StoredElsewhere(c) PROVE Goal
  <2>1. /\ db' = db /\ pc' = pc /\ life' = life /\ job' = job
        /\ archived \subseteq archived'
    BY <1>3 DEF StoredElsewhere, ownerVars, workVars
  <2> QED
    BY <2>1
    DEF Goal, RecordInv, AnswerTrue, Unrecorded, UploadedIsArchived, Kept, DbOpen, Busy
<1> QED
  BY <1>1, <1>2, <1>3

LEMMA RecordInvStep == RecordInv /\ [Next]_vars => RecordInv' /\ Kept
<1> SUFFICES ASSUME RecordInv, [Next]_vars PROVE RecordInv' /\ Kept
  OBVIOUS
<1>1. TypeInv'
  BY TypeInvStep DEF RecordInv
<1>2. ASSUME UNCHANGED vars PROVE Goal
  BY <1>2 DEF vars, Goal, RecordInv, AnswerTrue, Unrecorded,
       UploadedIsArchived, Kept, DbOpen, Busy
<1>3. Goal
  BY <1>2, OwnerKeeps, WorkerKeeps, WorldKeeps DEF Next
<1> QED
  BY <1>1, <1>3 DEF RecordInv, Goal

LEMMA RecordInvHolds == Spec => []RecordInv
<1>1. RecordInv /\ [Next]_vars => RecordInv'
  BY RecordInvStep
<1> QED
  BY <1>1, RecordInvInit, PTL DEF Spec

\* A content the agent has recorded as uploaded, and will never ship again,
\* is archived, whatever happens to its file, the network or the process.
THEOREM RecordIsTrue == Spec => []UploadedIsArchived
<1>1. RecordInv => UploadedIsArchived
  BY DEF RecordInv
<1> QED
  BY <1>1, RecordInvHolds, PTL

\* No later failure, crash or restart takes an "uploaded" record back.
THEOREM RecordIsKept == Spec => NeverForgotten
<1>1. RecordInv /\ [Next]_vars => [Kept]_vars
  BY RecordInvStep
<1>2. [Kept]_vars <=> [\A c \in Contents : db[c] = "uploaded" => db'[c] = "uploaded"]_vars
  BY DEF Kept
<1> QED
  BY <1>1, <1>2, RecordInvHolds, PTL DEF Spec, NeverForgotten

-----------------------------------------------------------------------------
(* Nothing on disk is forgotten *)

Queued(p) == \E i \in 1 .. Len(queue) : queue[i] = p

\* The worker is at the file, and what it hashed and compared is still there.
AtWork(p) ==
    /\ pc \in Busy
    /\ job.path = p
    /\ pc # "hash" => job.sha = disk[p]
    /\ pc = "settle" => job.prev = disk[p]

\* Where a file is on its way to the archive, or why it need not get there.
Covered(p) ==
    \/ disk[p] = None
    \/ disk[p] \in archived \cup gaveUp
    \/ p \in dropped \cup unheard
    \/ Queued(p)
    \/ pc = "scan" /\ p \in toScan
    \/ pc = "dead"
    \/ AtWork(p)

AllCovered == Running => \A p \in Paths : Covered(p)

LEMMA QueueGrows ==
    ASSUME NEW q \in Paths \cup {None}, queue \in Seq(Paths \cup {None}),
           queue' \in {queue, Append(queue, q)}
    PROVE  /\ \A p \in Paths : Queued(p) => Queued(p)'
           /\ queue' = Append(queue, q) => Queued(q)'
<1>1. CASE queue' = queue
  <2>1. queue # Append(queue, q)
    OBVIOUS
  <2> QED
    BY <1>1, <2>1 DEF Queued
<1>2. CASE queue' = Append(queue, q)
  <2>1. /\ Len(queue') = Len(queue) + 1 /\ Len(queue) \in Nat
        /\ queue'[Len(queue) + 1] = q
        /\ \A i \in 1 .. Len(queue) : queue'[i] = queue[i]
    BY <1>2
  <2> QED
    BY <2>1 DEF Queued
<1> QED
  BY <1>1, <1>2

LEMMA QueueShrinks ==
    ASSUME queue \in Seq(Paths \cup {None}), queue # <<>>, queue' = Tail(queue)
    PROVE  \A p \in Paths \ {Head(queue)} : Queued(p) => Queued(p)'
<1> SUFFICES ASSUME NEW p \in Paths \ {Head(queue)}, NEW i \in 1 .. Len(queue),
                    queue[i] = p
             PROVE  Queued(p)'
  BY DEF Queued
<1>1. /\ Len(queue') = Len(queue) - 1 /\ Len(queue) \in Nat
      /\ \A j \in 1 .. Len(queue') : queue'[j] = queue[j + 1]
      /\ Head(queue) = queue[1]
  OBVIOUS
<1>2. i - 1 \in 1 .. Len(queue') /\ queue'[i - 1] = queue[i]
  BY <1>1
<1> QED
  BY <1>2 DEF Queued

LEMMA OwnerCovers == TypeInv /\ AllCovered /\ (Start \/ Owner \/ Crash) => AllCovered'
<1> SUFFICES ASSUME TypeInv, AllCovered, Start \/ Owner \/ Crash PROVE AllCovered'
  OBVIOUS
<1>1. CASE Start
  BY <1>1 DEF Start, AllCovered, Running, Covered
<1>2. CASE StartObserver \/ NoObserver
  BY <1>2
  DEF StartObserver, NoObserver, AllCovered, Running, Covered, Queued, AtWork, worldVars,
      workVars
<1>3. CASE \/ ObserverRaises \/ StopFlag \/ StopObserver \/ StopWake \/ StopClose
           \/ Exit \/ Crash
  BY <1>3
  DEF ObserverRaises, StopFlag, StopObserver, StopWake, StopClose, Exit, Crash, Vanish,
      AllCovered, Running
<1> QED
  BY <1>1, <1>2, <1>3 DEF Owner

LEMMA WorkerCovers ==
    RecordInv /\ AllCovered /\ (Worker \/ NetworkError) => AllCovered'
<1> SUFFICES ASSUME RecordInv, AllCovered, Worker \/ NetworkError,
                    Running', NEW p \in Paths
             PROVE  Covered(p)'
  BY DEF AllCovered
<1>1. /\ Running /\ disk' = disk /\ archived' = archived
      /\ ~Stopping
      /\ Covered(p)
  BY DEF Worker, ScanOne, ScanEnd, ScanRaises, Loop, Get, Drop, RecordFails, Leave, Hash,
     FirstStat, Settle, Read, Measure, Post, Uploaded, Retry, Rejected, NetworkError,
     worldVars, ownerVars, AllCovered, Running, Stopping
<1>2. /\ queue \in Seq(Paths \cup {None}) /\ job \in Job /\ job.path \in Paths \cup {None}
      /\ disk \in [Paths -> Contents \cup {None}] /\ dropped \subseteq Paths
  BY DEF RecordInv, TypeInv, TypeOK, Job
<1>3. ASSUME NEW q \in Paths, ScanOne(q) PROVE Covered(p)'
  <2>1. queue' \in {queue, Append(queue, q)} /\ (disk[q] # None => queue' = Append(queue, q))
    BY <1>3 DEF ScanOne
  <2>2. (Queued(p) => Queued(p)') /\ (p = q /\ disk[p] # None => Queued(p)')
    BY <1>2, <2>1, QueueGrows
  <2>3. /\ pc' = pc /\ pc = "scan" /\ job' = job /\ gaveUp' = gaveUp /\ dropped' = dropped
        /\ toScan' = toScan \ {q} /\ unheard' = unheard \ {q}
    BY <1>3 DEF ScanOne
  <2> QED
    BY <1>1, <2>2, <2>3 DEF Covered, AtWork, Busy
<1>4. CASE ScanEnd \/ ScanRaises \/ Loop
  BY <1>1, <1>4
  DEF ScanEnd, ScanRaises, Loop, Covered, Queued, AtWork, Busy
<1>5. CASE Get
  <2>1. /\ queue # <<>> /\ queue' = Tail(queue) /\ pc = "get" /\ gaveUp' = gaveUp
        /\ dropped' = dropped \ {Head(queue)} /\ unheard' = unheard
    BY <1>5 DEF Get
  <2>2. CASE p = Head(queue)
    <3>1. p # None
      BY NoneAssumption
    <3>2. pc' = "hash" /\ job'.path = p
      BY <1>2, <1>5, <2>2, <3>1 DEF Get, Job
    <3> QED
      BY <3>2 DEF Covered, AtWork, Busy
  <2>3. CASE p # Head(queue)
    BY <1>1, <1>2, <2>1, <2>3, QueueShrinks DEF Covered, AtWork, Busy
  <2> QED
    BY <2>2, <2>3
<1>6. CASE Drop \/ RecordFails
  <2>1. /\ Leave /\ pc \in Busy
    BY <1>6 DEF Drop, RecordFails, Busy
  <2>2. /\ gaveUp' = gaveUp /\ queue' = queue /\ unheard' = unheard
        /\ dropped \subseteq dropped'
        /\ job.path = p => disk[p] = None \/ p \in dropped'
    BY <2>1 DEF Leave, Missing
  <2> QED
    BY <1>1, <2>1, <2>2 DEF Covered, Queued, AtWork, Busy
<1>7. CASE Hash \/ FirstStat \/ Settle \/ Read \/ Measure \/ Post \/ Uploaded \/ Retry
           \/ Rejected \/ NetworkError
  <2>1. /\ queue' = queue /\ dropped' = dropped /\ gaveUp \subseteq gaveUp'
        /\ pc \in Busy
    BY <1>7
    DEF Hash, FirstStat, Settle, Read, Measure, Post, Uploaded, Retry, Rejected,
        NetworkError, TryAgain, Record, RecordNothing, Busy
  <2>2. ASSUME AtWork(p), disk[p] # None PROVE Covered(p)'
    <3> USE <1>1, <1>2, <2>1, <2>2
    <3>1. CASE Hash
      <4>1. CASE DbOpen /\ db[disk[p]] = "uploaded"
        BY <4>1 DEF RecordInv, UploadedIsArchived, Covered
      <4>2. CASE ~(DbOpen /\ db[disk[p]] = "uploaded")
        BY <3>1, <4>2 DEF Hash, AtWork, Covered, Busy, Job, NextItem
      <4> QED
        BY <4>1, <4>2
    <3>2. CASE FirstStat
      BY <3>2 DEF FirstStat, AtWork, Covered, Busy, Job
    <3>3. CASE Settle
      BY <3>3 DEF Settle, AtWork, Covered, Busy, Missing
    <3>4. CASE Read
      BY <3>4 DEF Read, AtWork, Covered, Busy, Job
    <3>5. CASE Measure
      BY <3>5 DEF Measure, AtWork, Covered, Busy, Job
    <3>6. CASE Post
      BY <3>6 DEF Post, AtWork, Covered, Busy, Job
    <3>7. CASE Uploaded
      <4>1. disk[p] \in archived
        BY <3>7 DEF Uploaded, AtWork, RecordInv, AnswerTrue
      <4> QED
        BY <4>1 DEF Covered
    <3>8. CASE Retry \/ NetworkError
      BY <3>8 DEF Retry, NetworkError, TryAgain, Record, AtWork, Covered, Busy, Job
    <3>9. CASE Rejected
      BY <3>9 DEF Rejected, Record, AtWork, Covered
    <3> QED
      BY <1>7, <3>1, <3>2, <3>3, <3>4, <3>5, <3>6, <3>7, <3>8, <3>9
  <2>3. p \in unheard => p \in unheard' \/ AtWork(p)
    <3>1. CASE Hash
      BY <3>1 DEF Hash, AtWork, Busy
    <3>2. CASE FirstStat \/ Settle \/ Read \/ Measure \/ Post \/ Uploaded \/ Retry
               \/ Rejected \/ NetworkError
      BY <3>2
      DEF FirstStat, Settle, Read, Measure, Post, Uploaded, Retry, Rejected, NetworkError
    <3> QED
      BY <1>7, <3>1, <3>2
  <2> QED
    BY <1>1, <2>1, <2>2, <2>3 DEF Covered, Queued, Busy
<1> QED
  BY <1>3, <1>4, <1>5, <1>6, <1>7 DEF Worker

LEMMA WorldCovers ==
    ASSUME RecordInv, AllCovered
    PROVE  /\ \A q \in Paths, c \in Contents \cup {None} :
                 Touch(q, c) \/ Rename(q, c) => AllCovered'
           /\ Server \/ (\E c \in Contents : StoredElsewhere(c)) => AllCovered'
<1>0. /\ queue \in Seq(Paths \cup {None}) /\ job \in Job
      /\ disk \in [Paths -> Contents \cup {None}]
  BY DEF RecordInv, TypeInv, TypeOK
<1>1. ASSUME NEW q \in Paths, NEW c \in Contents \cup {None}, Touch(q, c) \/ Rename(q, c),
             Running', NEW p \in Paths
      PROVE  Covered(p)'
  <2>1. /\ Covered(p)
        /\ disk' = [disk EXCEPT ![q] = c]
        /\ queue' \in {queue, Append(queue, q)}
        /\ queue' = Append(queue, q) \/ c = None \/ q \in unheard'
        /\ p \in unheard /\ p # q => p \in unheard'
        /\ UNCHANGED <<archived, pc, toScan, job, gaveUp, dropped>>
    BY <1>1
    DEF Touch, Rename, Change, NeedsEvent, AllCovered, Running, ownerVars, workVars
  <2>2. (Queued(p) => Queued(p)') /\ (p = q /\ c # None => Queued(p)' \/ q \in unheard')
    BY <1>0, <2>1, QueueGrows
  <2>3. CASE p = q
    BY <1>0, <2>1, <2>2, <2>3 DEF Covered
  <2>4. CASE p # q
    BY <1>0, <2>1, <2>2, <2>4 DEF Covered, AtWork
  <2> QED
    BY <2>3, <2>4
<1>2. ASSUME Server \/ (\E c \in Contents : StoredElsewhere(c)), Running',
             NEW p \in Paths
      PROVE  Covered(p)'
  <2>1. /\ Running /\ archived \subseteq archived'
        /\ UNCHANGED <<disk, pc, toScan, gaveUp, dropped, unheard, queue>>
        /\ \/ job' = job
           \/ \E a \in Answers : job' = [job EXCEPT !.answer = a]
    BY <1>2
    DEF Server, ServerStores, ServerRefuses, ServerTroubles, Answered, StoredElsewhere,
        ownerVars, workVars, Answers, Running
  <2>2. job'.path = job.path /\ job'.sha = job.sha /\ job'.prev = job.prev
    BY <1>0, <2>1 DEF Job
  <2> QED
    BY <2>1, <2>2 DEF AllCovered, Covered, Queued, AtWork
<1> QED
  BY <1>1, <1>2 DEF AllCovered

\* A shipper with nothing left to do has forgotten no file but those whose
\* last change it could not hear of, whatever else fails, for any number of
\* files, contents, attempts and rounds of change.
THEOREM NothingForgotten == Spec => []QuietMeansShipped
<1>1. Init => AllCovered
  BY DEF Init, AllCovered, Running
<1>2. ASSUME RecordInv, AllCovered, [Next]_vars PROVE AllCovered'
  <2>1. CASE UNCHANGED vars
    BY <1>2, <2>1 DEF vars, AllCovered, Running, Covered, Queued, AtWork
  <2>2. CASE Next
    BY <1>2, <2>2, OwnerCovers, WorkerCovers, WorldCovers DEF Next, RecordInv
  <2> QED
    BY <1>2, <2>1, <2>2
<1>3. AllCovered => QuietMeansShipped
  BY DEF AllCovered, Covered, QuietMeansShipped, Quiet, Queued, AtWork, Busy
<1> QED
  BY <1>1, <1>2, <1>3, RecordInvHolds, PTL DEF Spec

-----------------------------------------------------------------------------
(* A stop ends the worker: what can be said of it without fairness *)

\* A worker that waits for an item once stop() has put None finds one.
StopIsHeard ==
    life \in {"woken", "closed"} /\ pc = "get" => queue # <<>>

\* stop() cannot leave the worker blocked in queue.get(): the item that wakes
\* it is put after the flag is set and after the observer has ended, and a
\* worker that has taken it does not wait for another (raw_shipper.py 163-181).
THEOREM StopAlwaysHeard == Spec => []StopIsHeard
<1>1. Init => StopIsHeard
  BY DEF Init, StopIsHeard
<1>2. ASSUME TypeInv, StopIsHeard, [Next]_vars PROVE StopIsHeard'
  <2> USE <1>2 DEF StopIsHeard, worldVars
  <2>0. \A x : Append(queue, x) # <<>>
    BY DEF TypeInv, TypeOK
  <2>1. ASSUME NEW p \in Paths, NEW c \in Contents \cup {None}, Touch(p, c) \/ Rename(p, c)
        PROVE  StopIsHeard'
    BY <2>0, <2>1 DEF Touch, Rename, Change, ownerVars, workVars
  <2>2. CASE Start \/ Crash
    BY <2>2 DEF Start, Crash, Vanish
  <2>3. CASE Owner
    BY <2>0, <2>3 DEF Owner, StartObserver, NoObserver, ObserverRaises, StopFlag,
       StopObserver, StopWake, StopClose, Exit, Vanish, workVars
  <2>4. CASE Worker \/ NetworkError
    BY <2>0, <2>4
    DEF ownerVars, Worker, NetworkError, ScanOne, ScanEnd, ScanRaises, Loop, Get, Drop,
        RecordFails, Leave, NextItem, Hash, FirstStat, Settle, Read, Measure, Post,
        Uploaded, Retry, Rejected, TryAgain, Stopping
  <2>5. CASE Server \/ \E c \in Contents : StoredElsewhere(c)
    BY <2>5 DEF Server, ServerStores, ServerRefuses, ServerTroubles, Answered,
       StoredElsewhere, ownerVars, workVars
  <2>6. CASE UNCHANGED vars
    BY <2>6 DEF vars, ownerVars
  <2> QED
    BY <2>1, <2>2, <2>3, <2>4, <2>5, <2>6 DEF Next
<1> QED
  BY <1>1, <1>2, TypeInvInit, TypeInvStep, PTL DEF Spec

\* How far the worker is from its end once the flag is set.
Distance ==
    [scan |-> 9, get |-> 9, hash |-> 8, stat |-> 7, settle |-> 6, read |-> 5,
     measure |-> 4, wait |-> 4, post |-> 3, loop |-> 2,
     exited |-> 0, dead |-> 0, off |-> 0]

\* The worker comes nearer to its end, has one path less to scan, or has seen
\* the file change once more, of at most MaxChurn times.
Nearer ==
    \/ Distance[pc'] < Distance[pc]
    \/ pc' = pc /\ toScan' \subseteq toScan /\ toScan' # toScan
    \/ pc' = pc /\ toScan' = toScan /\ job.churn < job'.churn /\ job'.churn <= MaxChurn

\* The worker is where it was, or gone with its process.
Unmoved == UNCHANGED <<pc, toScan, job.churn>> \/ pc' = "off"

StopAdvances ==
    [][Stopping => /\ Worker \/ NetworkError => Nearer
                   /\ Nearer \/ Unmoved]_vars

\* Once the flag is set each step of the worker brings it nearer to its end
\* and no step of anybody else takes it back: it finishes at most the scan, or
\* the path it has, without another attempt to post it.
THEOREM StopsAdvance == Spec => StopAdvances
<1>1. ASSUME TypeInv, Stopping, Worker \/ NetworkError PROVE Nearer
  <2>1. job \in Job
    BY <1>1 DEF TypeInv, TypeOK
  <2>2. CASE \E p \in Paths : ScanOne(p)
    BY <2>2 DEF ScanOne, Nearer
  <2>3. CASE Settle
    <3>1. CASE pc' = pc
      <4>1. job' = [job EXCEPT !.prev = disk[job.path], !.churn = job.churn + 1]
            /\ job.churn + 1 <= MaxChurn /\ toScan' = toScan
        BY <2>3, <3>1 DEF Settle, NextItem
      <4>2. job'.churn = job.churn + 1 /\ job.churn \in Nat
        BY <2>1, <4>1, BoundsAssumption DEF Job
      <4> QED
        BY <3>1, <4>1, <4>2, BoundsAssumption DEF Nearer
    <3>2. CASE pc = "settle" /\ pc' \in {"loop", "read"}
      BY <3>2 DEF Nearer, Distance
    <3> QED
      BY <2>3, <3>1, <3>2 DEF Settle, NextItem
  <2>4. CASE ScanEnd \/ ScanRaises \/ Loop \/ Get
    BY <1>1, <2>4 DEF ScanEnd, ScanRaises, Loop, Get, NextItem, Nearer, Distance
  <2>5. CASE Drop \/ RecordFails
    BY <2>5 DEF Drop, RecordFails, Leave, NextItem, Nearer, Distance
  <2>6. CASE Hash \/ FirstStat \/ Read \/ Measure
    BY <2>6 DEF Hash, FirstStat, Read, Measure, NextItem, Nearer, Distance
  <2>7. CASE Post
    BY <1>1, <2>7 DEF Post, NextItem, Nearer, Distance
  <2>8. CASE Uploaded \/ Retry \/ Rejected \/ NetworkError
    BY <2>8 DEF Uploaded, Retry, Rejected, NetworkError, TryAgain, NextItem, Nearer, Distance
  <2> QED
    BY <1>1, <2>2, <2>3, <2>4, <2>5, <2>6, <2>7, <2>8 DEF Worker
<1>2. ASSUME TypeInv, Stopping, Next, ~(Worker \/ NetworkError) PROVE Unmoved
  <2> USE DEF Unmoved, worldVars, ownerVars, workVars
  <2>1. ASSUME NEW p \in Paths, NEW c \in Contents \cup {None}, Touch(p, c) \/ Rename(p, c)
        PROVE  Unmoved
    BY <2>1 DEF Touch, Rename, Change
  <2>2. CASE Owner
    BY <2>2 DEF Owner, StartObserver, NoObserver, ObserverRaises, StopFlag, StopObserver,
       StopWake, StopClose, Exit, Vanish
  <2>3. CASE Start \/ Crash
    BY <1>2, <2>3 DEF Start, Stopping, Crash, Vanish
  <2>4. CASE Server
    <3>1. PICK a : Answered(a)
      BY <2>4 DEF Server, ServerStores, ServerRefuses, ServerTroubles
    <3> QED
      BY <1>2, <3>1 DEF Answered, TypeInv, TypeOK, Job
  <2>5. CASE \E c \in Contents : StoredElsewhere(c)
    BY <2>5 DEF StoredElsewhere
  <2> QED
    BY <1>2, <2>1, <2>2, <2>3, <2>4, <2>5 DEF Next
<1>3. TypeInv /\ Next => (Stopping => /\ Worker \/ NetworkError => Nearer
                                      /\ Nearer \/ Unmoved)
  BY <1>1, <1>2
<1> QED
  BY <1>3, TypeInvInit, TypeInvStep, PTL DEF Spec, StopAdvances
=============================================================================
