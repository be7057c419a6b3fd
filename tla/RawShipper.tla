----------------------------- MODULE RawShipper -----------------------------
(***************************************************************************)
(* The agent's raw shipper (agent/raw_shipper.py): a worker thread takes   *)
(* paths from a queue and uploads the bytes of each file, an observer      *)
(* thread and a startup scan fill the queue, and a sqlite table remembers  *)
(* which contents the server has.  The thread that owns the shipper starts *)
(* and stops it, and the process may die and be started again.             *)
(*                                                                         *)
(* The game writes the files while all this runs.  A content stands for    *)
(* its bytes, its SHA-256, its length and its mtime: two contents differ   *)
(* in all four, and a file never returns to an earlier content by itself.  *)
(* The time an event takes to reach the queue is part of the time its path *)
(* waits in the queue.  What the server answers is taken to come from the  *)
(* archive's endpoint: a proxy may answer in its place with an error, not  *)
(* with 200 or 201.                                                        *)
(***************************************************************************)
EXTENDS Naturals, Sequences

CONSTANTS
    Paths,        \* files under the watched directory
    Contents,     \* what they may hold
    None,         \* Python's None: no file, no answer, the wake-up item
    MaxAttempts,  \* MAX_ATTEMPTS
    MaxChurn,     \* rounds of change after which the stability wait gives up
    Faults,       \* kinds of fault that may happen, of FaultKinds
    MaxWrites,    \* bound: changes the game makes to the directory
    MaxTroubles,  \* bound: network errors and unwelcome server answers
    MaxStarts     \* bound: how often the agent is started

\* "read": a file cannot be read; "record": the database fails; "scan": the
\* startup scan raises; "observer": there is no observer; "crash": the process
\* dies.
FaultKinds == {"read", "record", "scan", "observer", "crash"}

ASSUME BoundsAssumption ==
    /\ MaxAttempts \in Nat \ {0}
    /\ MaxChurn \in Nat /\ MaxWrites \in Nat
    /\ MaxTroubles \in Nat /\ MaxStarts \in Nat
ASSUME FaultsAssumption == Faults \subseteq FaultKinds

VARIABLES
    disk,      \* what each path holds, None where there is no file
    archived,  \* contents the server holds
    db,        \* status column of uploaded_files, None where there is no row
    life,      \* how far the owner's start() or stop() has come
    observing, \* the observer thread is delivering events
    queue,     \* the queue of paths; None wakes the worker
    pc,        \* where the worker is
    toScan,    \* paths the startup scan has yet to visit
    job,       \* locals of _process_path and what it calls
    gaveUp,    \* contents recorded as failed since the last start
    dropped,   \* history: paths the worker last left because of an exception
    unheard,   \* history: paths whose last change made no event, and was seen
               \* neither by a scan nor by a hash since
    writes, troubles, starts  \* how much of each bound is used

vars == <<disk, archived, db, life, observing, queue, pc, toScan, job, gaveUp,
          dropped, unheard, writes, troubles, starts>>

ownerVars == <<life, observing, starts>>
worldVars == <<disk, archived, writes, troubles>>
workVars == <<pc, toScan, job, gaveUp, dropped>>

-----------------------------------------------------------------------------
(* Data *)

Status == {"pending", "uploaded", "failed"}

\* start() leads from "off" to "up"; stop() walks through the rest in order.
Life == {"off", "starting", "up", "flagged", "unobserved", "woken", "closed"}

\* _stop is set.
Stopping == life \in {"flagged", "unobserved", "woken", "closed"}

\* _db is not None.
DbOpen == life \in {"starting", "up", "flagged", "unobserved", "woken"}

Busy == {"hash", "stat", "settle", "read", "measure", "post", "wait"}

Label == {"off", "scan", "loop", "get", "exited", "dead"} \cup Busy

Answers == {"stored", "conflict", "retry", "rejected"}

Job == [path : Paths \cup {None}, sha : Contents \cup {None},
        data : Contents \cup {None}, size : Contents \cup {None},
        prev : Contents \cup {None}, churn : 0 .. MaxChurn,
        attempt : 0 .. MaxAttempts,
        answer : Answers \cup {None}]

NoJob == [path |-> None, sha |-> None, data |-> None, size |-> None,
          prev |-> None, churn |-> 0, attempt |-> 0, answer |-> None]

ASSUME NoneAssumption ==
    /\ None \notin Paths /\ None \notin Contents
    /\ None \notin Status /\ None \notin Answers

\* The server accepts the post: body and metadata agree.
WellFormed == job.data = job.sha /\ job.size = job.data

-----------------------------------------------------------------------------
Init ==
    /\ disk \in [Paths -> Contents \cup {None}]
    /\ archived = {}
    /\ db = [c \in Contents |-> None]
    /\ life = "off"
    /\ observing = FALSE
    /\ queue = <<>>
    /\ pc = "off"
    /\ toScan = {}
    /\ job = NoJob
    /\ gaveUp = {}
    /\ dropped = {}
    /\ unheard = {}
    /\ writes = 0 /\ troubles = 0 /\ starts = 0

-----------------------------------------------------------------------------
(* The game and the observer *)

\* The file at p becomes c, and the observer puts p in the queue or not.
Change(p, c, event) ==
    /\ writes < MaxWrites
    /\ c # disk[p]
    /\ writes' = writes + 1
    /\ disk' = [disk EXCEPT ![p] = c]
    /\ queue' = IF event THEN Append(queue, p) ELSE queue
    /\ UNCHANGED <<archived, db, ownerVars, workVars, troubles>>

\* Nobody but the observer would tell the worker that p has become c: before
\* the start the scan is still to come, and a deletion leaves nothing to ship.
NeedsEvent(c) == c # None /\ life # "off"

\* Mutant: the observer handles on_created and not on_modified.
TouchCreatedOnly(p, c) ==
    /\ Change(p, c, observing /\ c # None /\ disk[p] = None)
    /\ unheard' = IF NeedsEvent(c) /\ ~observing THEN unheard \cup {p} ELSE unheard \ {p}

\* A file is created, changed or (None) deleted.  The observer, once there is
\* one, handles on_created and on_modified.
Touch(p, c) ==
    /\ Change(p, c, observing /\ c # None)
    /\ unheard' = IF NeedsEvent(c) /\ ~observing THEN unheard \cup {p} ELSE unheard \ {p}

\* A file comes to its name by being renamed within the directory: there is
\* no on_moved.
Rename(p, c) ==
    /\ c # None
    /\ Change(p, c, FALSE)
    /\ unheard' = IF NeedsEvent(c) THEN unheard \cup {p} ELSE unheard

-----------------------------------------------------------------------------
(* The owner: start() and stop() *)

\* start(): open the database and start the worker, whose scan will see the
\* files as they are then.
Start ==
    /\ life = "off"
    /\ starts < MaxStarts
    /\ starts' = starts + 1
    /\ life' = "starting"
    /\ pc' = "scan"
    /\ toScan' = Paths
    /\ UNCHANGED <<worldVars, db, observing, queue, job, gaveUp, dropped, unheard>>

\* start(), continued: the observer comes after the worker.
StartObserver ==
    /\ life = "starting"
    /\ life' = "up"
    /\ observing' = TRUE
    /\ UNCHANGED <<worldVars, db, starts, queue, workVars, unheard>>

\* There is no watchdog, or no directory to watch: start() returns without an
\* observer and the shipper goes on with what the scan has found.
NoObserver ==
    /\ "observer" \in Faults
    /\ life = "starting"
    /\ life' = "up"
    /\ UNCHANGED <<worldVars, db, observing, starts, queue, workVars, unheard>>

\* stop(): set the flag.
StopFlag ==
    /\ life = "up"
    /\ life' = "flagged"
    /\ UNCHANGED <<worldVars, db, observing, starts, queue, workVars, unheard>>

StopObserver ==
    /\ life = "flagged"
    /\ life' = "unobserved"
    /\ observing' = FALSE
    /\ UNCHANGED <<worldVars, db, starts, queue, workVars, unheard>>

\* Mutant: nothing wakes a worker that waits for an item.
StopNoWake ==
    /\ life = "unobserved"
    /\ life' = "woken"
    /\ UNCHANGED <<worldVars, db, observing, starts, queue, workVars, unheard>>

\* Put None so that a worker blocked in get() looks at the flag.
StopWake ==
    /\ life = "unobserved"
    /\ life' = "woken"
    /\ queue' = Append(queue, None)
    /\ UNCHANGED <<worldVars, db, observing, starts, workVars, unheard>>

\* The join is over, because the worker ended or after ten seconds; the
\* database is closed and forgotten either way.
StopClose ==
    /\ life = "woken"
    /\ life' = "closed"
    /\ UNCHANGED <<worldVars, db, observing, starts, queue, workVars, unheard>>

\* The process is gone, with the worker (a daemon thread) wherever it is.
Vanish ==
    /\ life' = "off"
    /\ observing' = FALSE
    /\ queue' = <<>>
    /\ pc' = "off"
    /\ toScan' = {}
    /\ job' = NoJob
    /\ gaveUp' = {}
    /\ dropped' = {}
    /\ unheard' = {}
    /\ UNCHANGED <<worldVars, db, starts>>

\* observer.start() raises: main.py calls start() outside its try.
ObserverRaises == "observer" \in Faults /\ life = "starting" /\ Vanish

Exit == life = "closed" /\ Vanish

Crash == "crash" \in Faults /\ life # "off" /\ Vanish

Owner ==
    \/ StartObserver
    \/ NoObserver
    \/ ObserverRaises
    \/ StopFlag
    \/ StopObserver
    \/ StopWake
    \/ StopClose
    \/ Exit

-----------------------------------------------------------------------------
(* The worker *)

\* _record_state: nothing happens once the database is closed.
Record(c, status) ==
    /\ db' = IF DbOpen THEN [db EXCEPT ![c] = status] ELSE db
    /\ gaveUp' = IF status = "failed" THEN gaveUp \cup {c} ELSE gaveUp

RecordNothing == UNCHANGED <<db, gaveUp>>

\* Back to the head of the loop, done with the path.
NextItem == pc' = "loop" /\ job' = NoJob

\* _startup_scan looks at one path after the other.
ScanOne(p) ==
    /\ pc = "scan"
    /\ p \in toScan
    /\ toScan' = toScan \ {p}
    /\ queue' = IF disk[p] # None THEN Append(queue, p) ELSE queue
    /\ unheard' = unheard \ {p}
    /\ UNCHANGED <<worldVars, ownerVars, db, pc, job, gaveUp, dropped>>

ScanEnd ==
    /\ pc = "scan"
    /\ toScan = {}
    /\ pc' = "loop"
    /\ UNCHANGED <<worldVars, ownerVars, db, queue, toScan, job, gaveUp, dropped, unheard>>

\* An exception of the scan ends the loop; _run_loop logs it.
ScanRaises ==
    /\ "scan" \in Faults
    /\ pc = "scan"
    /\ pc' = "dead"
    /\ toScan' = {}
    /\ UNCHANGED <<worldVars, ownerVars, db, queue, job, gaveUp, dropped, unheard>>

\* while not self._stop.is_set()
Loop ==
    /\ pc = "loop"
    /\ pc' = IF Stopping THEN "exited" ELSE "get"
    /\ UNCHANGED <<worldVars, ownerVars, db, queue, toScan, job, gaveUp, dropped, unheard>>

\* queue.get(), which blocks; None goes around the loop.
Get ==
    /\ pc = "get"
    /\ queue # <<>>
    /\ queue' = Tail(queue)
    /\ dropped' = dropped \ {Head(queue)}
    /\ \/ Head(queue) = None /\ NextItem
       \/ /\ Head(queue) # None
          /\ pc' = "hash"
          /\ job' = [job EXCEPT !.path = Head(queue)]
    /\ UNCHANGED <<worldVars, ownerVars, db, toScan, gaveUp, unheard>>

Missing == disk[job.path] = None

\* An exception ends the work on a path, which nothing takes up again unless
\* its file is gone.
Leave ==
    /\ NextItem
    /\ dropped' = IF Missing THEN dropped ELSE dropped \cup {job.path}
    /\ UNCHANGED <<worldVars, ownerVars, db, gaveUp, queue, toScan, unheard>>

\* The file is gone, or cannot be read.
Drop ==
    /\ \/ pc \in {"hash", "stat", "settle", "read", "measure"} /\ Missing
       \/ pc \in {"hash", "stat", "settle", "read", "measure"} /\ "read" \in Faults
    /\ Leave

\* The database fails, or is closed under the worker, where it is consulted
\* and where an outcome is recorded: the except of _async_main.
RecordFails ==
    /\ "record" \in Faults \/ life = "closed"
    /\ \/ pc \in {"hash", "measure"}
       \/ /\ pc = "wait"
          /\ job.answer # None
          /\ job.answer = "retry" => job.attempt = MaxAttempts
    /\ Leave

\* Mutant: the record is not consulted.
HashUnchecked ==
    /\ pc = "hash"
    /\ ~Missing
    /\ pc' = "stat"
    /\ job' = [job EXCEPT !.sha = disk[job.path]]
    /\ RecordNothing
    /\ unheard' = unheard \ {job.path}
    /\ UNCHANGED <<worldVars, ownerVars, queue, toScan, dropped>>

\* Mutant: any record counts as uploaded, "pending" and "failed" included.
HashAnyRecord ==
    /\ pc = "hash"
    /\ ~Missing
    /\ \/ DbOpen /\ db[disk[job.path]] # None /\ NextItem
       \/ /\ ~(DbOpen /\ db[disk[job.path]] # None)
          /\ pc' = "stat"
          /\ job' = [job EXCEPT !.sha = disk[job.path]]
    /\ RecordNothing
    /\ unheard' = unheard \ {job.path}
    /\ UNCHANGED <<worldVars, ownerVars, queue, toScan, dropped>>

\* _sha256_of, then _already_uploaded.
Hash ==
    /\ pc = "hash"
    /\ ~Missing
    /\ \/ DbOpen /\ db[disk[job.path]] = "uploaded" /\ NextItem
       \/ /\ ~(DbOpen /\ db[disk[job.path]] = "uploaded")
          /\ pc' = "stat"
          /\ job' = [job EXCEPT !.sha = disk[job.path]]
    /\ RecordNothing
    /\ unheard' = unheard \ {job.path}
    /\ UNCHANGED <<worldVars, ownerVars, queue, toScan, dropped>>

\* _wait_until_stable: the first stat.
FirstStat ==
    /\ pc = "stat"
    /\ ~Missing
    /\ pc' = "settle"
    /\ job' = [job EXCEPT !.prev = disk[job.path]]
    /\ RecordNothing
    /\ UNCHANGED <<worldVars, ownerVars, queue, toScan, dropped, unheard>>

\* _wait_until_stable: one round of the loop.  A stop or too many rounds of
\* change abandon the path.
Settle ==
    /\ pc = "settle"
    /\ \/ Stopping /\ NextItem
       \/ ~Missing /\ disk[job.path] = job.prev /\ pc' = "read" /\ job' = job
       \/ /\ ~Missing
          /\ disk[job.path] # job.prev
          /\ \/ job.churn + 1 > MaxChurn /\ NextItem
             \/ /\ job.churn + 1 <= MaxChurn
                /\ pc' = pc
                /\ job' = [job EXCEPT !.prev = disk[job.path],
                                      !.churn = job.churn + 1]
    /\ RecordNothing
    /\ UNCHANGED <<worldVars, ownerVars, queue, toScan, dropped, unheard>>

\* path.read_bytes()
Read ==
    /\ pc = "read"
    /\ ~Missing
    /\ pc' = "measure"
    /\ job' = [job EXCEPT !.data = disk[job.path]]
    /\ RecordNothing
    /\ UNCHANGED <<worldVars, ownerVars, queue, toScan, dropped, unheard>>

\* path.stat() for the metadata, then the "pending" record.
Measure ==
    /\ pc = "measure"
    /\ ~Missing
    /\ pc' = "post"
    /\ job' = [job EXCEPT !.size = disk[job.path], !.attempt = 1]
    /\ Record(job.sha, "pending")
    /\ UNCHANGED <<worldVars, ownerVars, queue, toScan, dropped, unheard>>

\* The head of the attempt loop: give way to a stop, or post.
Post ==
    /\ pc = "post"
    /\ \/ Stopping /\ NextItem
       \/ ~Stopping /\ pc' = "wait" /\ job' = [job EXCEPT !.answer = None]
    /\ RecordNothing
    /\ UNCHANGED <<worldVars, ownerVars, queue, toScan, dropped, unheard>>

\* Mutant: one attempt too many.
TryAgainOnceMore ==
    \/ /\ job.attempt > MaxAttempts
       /\ Record(job.sha, "failed")
       /\ NextItem
    \/ /\ job.attempt <= MaxAttempts
       /\ pc' = "post"
       /\ job' = [job EXCEPT !.attempt = job.attempt + 1, !.answer = None]
       /\ RecordNothing

\* The attempt failed: sleep and try again, or record the failure.
TryAgain ==
    \/ /\ job.attempt = MaxAttempts
       /\ Record(job.sha, "failed")
       /\ NextItem
    \/ /\ job.attempt < MaxAttempts
       /\ pc' = "post"
       /\ job' = [job EXCEPT !.attempt = job.attempt + 1, !.answer = None]
       /\ RecordNothing

\* httpx.HTTPError: the request or its answer was lost, or took too long.
NetworkError ==
    /\ pc = "wait"
    /\ troubles < MaxTroubles
    /\ troubles' = troubles + 1
    /\ TryAgain
    /\ UNCHANGED <<disk, archived, writes, ownerVars, queue, toScan, dropped,
                   unheard>>

\* Mutant: every status below 500 is taken for a success.
UploadedBelow500 ==
    /\ pc = "wait"
    /\ job.answer \in {"stored", "conflict", "rejected"}
    /\ Record(job.sha, "uploaded")
    /\ NextItem
    /\ UNCHANGED <<worldVars, ownerVars, queue, toScan, dropped, unheard>>

\* 200 and 201, or 409, whoever answers: the server is taken to have the content,
\* as the head of this module assumes of such an answer.
Uploaded ==
    /\ pc = "wait"
    /\ job.answer \in {"stored", "conflict"}
    /\ Record(job.sha, "uploaded")
    /\ NextItem
    /\ UNCHANGED <<worldVars, ownerVars, queue, toScan, dropped, unheard>>

\* A status of RETRYABLE_STATUSES.
Retry ==
    /\ pc = "wait"
    /\ job.answer = "retry"
    /\ TryAgain
    /\ UNCHANGED <<worldVars, ownerVars, queue, toScan, dropped, unheard>>

\* Any other status.
Rejected ==
    /\ pc = "wait"
    /\ job.answer = "rejected"
    /\ Record(job.sha, "failed")
    /\ NextItem
    /\ UNCHANGED <<worldVars, ownerVars, queue, toScan, dropped, unheard>>

Worker ==
    \/ \E p \in Paths : ScanOne(p)
    \/ ScanEnd
    \/ ScanRaises
    \/ Loop
    \/ Get
    \/ Drop
    \/ RecordFails
    \/ Hash
    \/ FirstStat
    \/ Settle
    \/ Read
    \/ Measure
    \/ Post
    \/ Uploaded
    \/ Retry
    \/ Rejected

-----------------------------------------------------------------------------
(* The server, as the shipper sees it *)

Answered(a) ==
    /\ pc = "wait"
    /\ job.answer = None
    /\ job' = [job EXCEPT !.answer = a]
    /\ UNCHANGED <<disk, db, ownerVars, queue, pc, toScan, gaveUp, dropped,
                   unheard, writes>>

\* The content is stored, now or by an earlier request.
ServerStores ==
    /\ Answered("stored")
    /\ WellFormed
    /\ archived' = archived \cup {job.sha}
    /\ UNCHANGED troubles

\* Body and metadata disagree: 400.
ServerRefuses ==
    /\ Answered("rejected")
    /\ ~WellFormed
    /\ UNCHANGED <<archived, troubles>>

\* 5xx and the like, from the server or a proxy, whether or not the content
\* was stored; 401 after a revocation; 409 from a server that has it.
ServerTroubles ==
    /\ troubles < MaxTroubles
    /\ troubles' = troubles + 1
    /\ \/ Answered("retry") /\ archived' = archived
       \/ Answered("retry") /\ WellFormed /\ archived' = archived \cup {job.sha}
       \/ Answered("rejected") /\ archived' = archived
       \/ Answered("conflict") /\ job.sha \in archived /\ archived' = archived

\* The server stores a content without an answer that reaches this worker:
\* by a request the client has given up on, or from another machine.
StoredElsewhere(c) ==
    /\ archived' = archived \cup {c}
    /\ UNCHANGED <<disk, db, ownerVars, queue, workVars, unheard, writes,
                   troubles>>

Server == ServerStores \/ ServerRefuses \/ ServerTroubles

-----------------------------------------------------------------------------
Next ==
    \/ \E p \in Paths, c \in Contents \cup {None} : Touch(p, c) \/ Rename(p, c)
    \/ Start
    \/ Owner
    \/ Crash
    \/ Worker
    \/ NetworkError
    \/ Server
    \/ \E c \in Contents : StoredElsewhere(c)

Spec == Init /\ [][Next]_vars

\* The threads run, and the server or the timeout ends every request.  The
\* game, the start, the stop and the end of the process are not promised.
Fairness ==
    /\ WF_vars(Worker)
    /\ WF_vars(Server)
    /\ WF_vars(StartObserver)
    /\ WF_vars(StopObserver)
    /\ WF_vars(StopWake)

FairSpec == Spec /\ Fairness

-----------------------------------------------------------------------------
(* Properties *)

\* Every variable keeps its type.
TypeOK ==
    /\ disk \in [Paths -> Contents \cup {None}]
    /\ archived \in SUBSET Contents
    /\ db \in [Contents -> Status \cup {None}]
    /\ life \in Life
    /\ observing \in BOOLEAN
    /\ queue \in Seq(Paths \cup {None})
    /\ pc \in Label
    /\ toScan \in SUBSET Paths
    /\ job \in Job
    /\ gaveUp \in SUBSET Contents
    /\ dropped \in SUBSET Paths
    /\ unheard \in SUBSET Paths
    /\ writes \in Nat /\ troubles \in Nat /\ starts \in Nat

\* The local table never claims more than the server has: a content recorded
\* "uploaded", which no later start will ship again, is archived, although
\* the file may change between its hash, its bytes and its size.
UploadedIsArchived ==
    \A c \in Contents : db[c] = "uploaded" => c \in archived

\* A content once recorded "uploaded" stays so: no failure of a later post,
\* of this process or the next, takes the record back.
NeverForgotten ==
    [][\A c \in Contents : db[c] = "uploaded" => db'[c] = "uploaded"]_vars

\* start() has begun and stop() has not.
Running == life \in {"starting", "up"}

\* The worker has nothing left to do.
Quiet == pc = "get" /\ queue = <<>> /\ Running

\* When the shipper has nothing left to do, every file on disk is archived but
\* for three reasons: this process recorded its content as failed; an
\* exception ended the last work on it; or its last change made no event and
\* came after the last look at it: a rename, a change without an observer, a
\* change between the scan and the start of the observer (raw_shipper.py
\* 148-150, 99-107).
QuietMeansShipped ==
    Quiet => \A p \in Paths :
        disk[p] # None =>
            \/ disk[p] \in archived \cup gaveUp
            \/ p \in dropped \cup unheard

\* A file that stays as it is while the shipper runs gets archived or its
\* content is recorded as failed, unless an exception ended the last work on
\* it (raw_shipper.py 225) or the worker itself (raw_shipper.py 204), or its
\* last change was not heard of.
EventuallyShipped ==
    \A p \in Paths, c \in Contents :
        <>[](disk[p] = c /\ life = "up") =>
            \/ <>(c \in archived \cup gaveUp)
            \/ <>[](p \in dropped \cup unheard \/ pc = "dead")

\* After stop() the worker ends by itself, wherever it was.
WorkerObeysStop == Stopping ~> pc \in {"exited", "dead", "off"}
=============================================================================
