---------------------------- MODULE InstanceLock ----------------------------
(***************************************************************************)
(* The single-instance guard (agent/instance_lock.py) as the tray app      *)
(* (agent/main.py) and the Windows service (agent/service.py) use it, with *)
(* the hand-over to a new executable (agent/updater.py, apply_update).     *)
(*                                                                         *)
(* Every member of Procs is one run of the program and its own PID.  A PID *)
(* may be given to a foreign program after its run is over.  The lock file *)
(* exists with the inode of the run that created it and holds a PID once   *)
(* that run has written it.                                                *)
(***************************************************************************)
EXTENDS Naturals, FiniteSets

CONSTANTS
    Procs,         \* runs of the agent
    Trays,         \* the runs that are tray apps; the others are services
    Killed,        \* runs that were killed before the others begin
    None,          \* no PID read, an empty file
    UnlinkOpen,    \* TRUE on POSIX: a file another process has open can be unlinked
    Mishaps        \* what may go wrong, of MishapKinds

\* "race": two runs are inside acquire() at a time; "launch": launching the
\* new executable fails; "create": the lock's directory or the lock cannot be
\* created; "write": writing the PID fails.
MishapKinds == {"race", "launch", "create", "write"}

ASSUME TraysAssumption == Trays \subseteq Procs /\ Killed \subseteq Procs
ASSUME NoneAssumption == None \notin Procs
ASSUME SwitchAssumption ==
    UnlinkOpen \in BOOLEAN /\ Mishaps \subseteq MishapKinds

VARIABLES
    pc,        \* where each run is
    attempt,   \* the loop variable of acquire()
    saw,       \* existing_pid of acquire(), None for 0
    acquired,  \* InstanceLock._acquired
    file,      \* the lock file: its creator and the PID in it; empty if absent
    reused,    \* PIDs of finished runs that a foreign program has now
    mishaps    \* history: what has gone wrong so far

vars == <<pc, attempt, saw, acquired, file, reused, mishaps>>

-----------------------------------------------------------------------------
(* Data *)

\* The lock file is a set of at most one record.
LockFile == [by : Procs, pid : Procs \cup {None}]

Acquiring == {"create", "read", "probe", "unlink", "write"}

\* "releasing": cleaning up before the release; "launching": the lock is
\* given up for the new executable; "leaving": launched it; "unguarded":
\* could not launch it and runs on.
Running == {"held", "releasing", "launching", "leaving", "unguarded"}

Labels == {"new", "refused", "gone"} \cup Acquiring \cup Running

Alive(p) == pc[p] \in Acquiring \cup Running

\* _pid_running; the empty or unreadable file counts as PID 0.
PidRunning(pid) == pid # None /\ (Alive(pid) \/ pid \in reused)

\* A process that is still writing its PID has the file open, and one that is
\* reading it may have.
BeingWritten == \E f \in file : pc[f.by] = "write"
MayBeOpen == BeingWritten \/ (file # {} /\ \E p \in Procs : pc[p] = "read")

-----------------------------------------------------------------------------
Init ==
    /\ pc = [p \in Procs |-> IF p \in Killed THEN "gone" ELSE "new"]
    /\ attempt = [p \in Procs |-> 0]
    /\ saw = [p \in Procs |-> None]
    /\ acquired = [p \in Procs |-> FALSE]
    /\ file \in {{}} \cup {{[by |-> p, pid |-> p]} : p \in Killed}
    /\ reused = {}
    /\ mishaps = {}

Goto(p, label) == pc' = [pc EXCEPT ![p] = label]

\* Something goes wrong that may.
Mishap(kind) == kind \in Mishaps /\ mishaps' = mishaps \cup {kind}

\* The run enters acquire(), alone there or not.
Enters(p) ==
    /\ pc[p] = "new"
    /\ \/ (\A q \in Procs : pc[q] \notin Acquiring) /\ mishaps' = mishaps
       \/ (\E q \in Procs : pc[q] \in Acquiring) /\ Mishap("race")

\* The user, the logon script or the service manager starts the program.
Start(p) ==
    /\ Enters(p)
    /\ Goto(p, "create")
    /\ UNCHANGED <<attempt, saw, acquired, file, reused>>

\* os.open with O_CREAT | O_EXCL.
Create(p) ==
    /\ pc[p] = "create"
    /\ \/ /\ file = {}
          /\ file' = {[by |-> p, pid |-> None]}
          /\ Goto(p, "write")
       \/ /\ file # {}
          /\ file' = file
          /\ Goto(p, "read")
    /\ UNCHANGED <<attempt, saw, acquired, reused, mishaps>>

\* The directory cannot be made, which raises, or os.open fails for another
\* reason than a file in the way.
CreateFails(p) ==
    /\ pc[p] = "create"
    /\ Mishap("create")
    /\ Goto(p, "refused")
    /\ UNCHANGED <<attempt, saw, acquired, file, reused>>

\* Mutant: what the file holds is never taken for a PID.
ReadPidAsZero(p) ==
    /\ pc[p] = "read"
    /\ saw' = [saw EXCEPT ![p] = None]
    /\ Goto(p, "probe")
    /\ UNCHANGED <<attempt, acquired, file, reused, mishaps>>

\* read_text of the file in the way; one that has vanished, like an empty
\* one, counts as PID 0.
ReadPid(p) ==
    /\ pc[p] = "read"
    /\ \/ file = {} /\ saw' = [saw EXCEPT ![p] = None]
       \/ \E f \in file : saw' = [saw EXCEPT ![p] = f.pid]
    /\ Goto(p, "probe")
    /\ UNCHANGED <<attempt, acquired, file, reused, mishaps>>

\* Mutant: any file in the way ends the attempt, stale or not.
ProbeAnyFile(p) ==
    /\ pc[p] = "probe"
    /\ Goto(p, "refused")
    /\ UNCHANGED <<attempt, saw, acquired, file, reused, mishaps>>

\* Mutant: a stale file is taken over at every attempt, not at the first.
ProbeEveryAttempt(p) ==
    /\ pc[p] = "probe"
    /\ Goto(p, IF PidRunning(saw[p]) THEN "refused" ELSE "unlink")
    /\ UNCHANGED <<attempt, saw, acquired, file, reused, mishaps>>

\* A live PID ends the attempt; a stale one is taken over, once.
Probe(p) ==
    /\ pc[p] = "probe"
    /\ IF PidRunning(saw[p]) \/ attempt[p] = 1
       THEN Goto(p, "refused")
       ELSE Goto(p, "unlink")
    /\ UNCHANGED <<attempt, saw, acquired, file, reused, mishaps>>

\* Clear the lock taken for stale: whatever file is there now.  Windows does
\* not unlink a file that is open.
Unlink(p) ==
    /\ pc[p] = "unlink"
    /\ \/ /\ BeingWritten => UnlinkOpen
          /\ file' = {}
          /\ attempt' = [attempt EXCEPT ![p] = attempt[p] + 1]
          /\ Goto(p, "create")
       \/ /\ MayBeOpen /\ ~UnlinkOpen
          /\ Goto(p, "refused")
          /\ UNCHANGED <<file, attempt>>
    /\ UNCHANGED <<saw, acquired, reused, mishaps>>

\* Write the PID to the file that was created, which another run may have
\* unlinked.  After a failing write whatever is at the path is unlinked, or stays
\* if that fails as well.
WritePid(p) ==
    /\ pc[p] = "write"
    /\ \/ /\ file' = IF \E f \in file : f.by = p THEN {[by |-> p, pid |-> p]} ELSE file
          /\ acquired' = [acquired EXCEPT ![p] = TRUE]
          /\ Goto(p, "held")
          /\ mishaps' = mishaps
       \/ /\ Mishap("write")
          /\ file' \in {{}, file}
          /\ Goto(p, "refused")
          /\ UNCHANGED acquired
    /\ UNCHANGED <<attempt, saw, reused>>

\* main's and _run_headless' finally: the run stops its threads, then lets go.
Quit(p) ==
    /\ pc[p] \in {"held", "unguarded"}
    /\ Goto(p, "releasing")
    /\ UNCHANGED <<attempt, saw, acquired, file, reused, mishaps>>

\* Mutant: the file is unlinked whoever holds the lock by now.
LetGoAnyway(p) ==
    /\ file' = {}
    /\ acquired' = [acquired EXCEPT ![p] = FALSE]

\* release(): unlink the file, if this run still counts as its holder.  The
\* unlink fails, and the failure is logged, while somebody has the file open.
LetGo(p) ==
    /\ \/ file' = IF acquired[p] THEN {} ELSE file
       \/ ~UnlinkOpen /\ file' = file
    /\ acquired' = [acquired EXCEPT ![p] = FALSE]

Release(p) ==
    /\ pc[p] \in {"releasing", "leaving"}
    /\ LetGo(p)
    /\ Goto(p, "gone")
    /\ UNCHANGED <<attempt, saw, reused, mishaps>>

\* apply_update on Windows, asked for by the user: give the lock up before the
\* new executable starts.
HandOver(p) ==
    /\ p \in Trays
    /\ pc[p] \in {"held", "unguarded"}
    /\ LetGo(p)
    /\ Goto(p, "launching")
    /\ UNCHANGED <<attempt, saw, reused, mishaps>>

\* Popen succeeds and SystemExit takes the old run to its finally.
Launch(p, q) ==
    /\ pc[p] = "launching"
    /\ Enters(q)
    /\ pc' = [pc EXCEPT ![p] = "leaving", ![q] = "create"]
    /\ UNCHANGED <<attempt, saw, acquired, file, reused>>

\* Popen raises: the tray logs it and the old run goes on.
LaunchFails(p) ==
    /\ Mishap("launch")
    /\ pc[p] = "launching"
    /\ Goto(p, "unguarded")
    /\ UNCHANGED <<attempt, saw, acquired, file, reused>>

\* The run is killed, or an exception ends it before the try that releases
\* the lock (main.py 264-277, service.py 71-80); its lock file stays behind.
Die(p) ==
    /\ Alive(p)
    /\ Goto(p, "gone")
    /\ UNCHANGED <<attempt, saw, acquired, file, reused, mishaps>>

\* The operating system gives the PID of a finished run to another program.
Reuse(p) ==
    /\ pc[p] \in {"gone", "refused"}
    /\ reused' = reused \cup {p}
    /\ UNCHANGED <<pc, attempt, saw, acquired, file, mishaps>>

Acquire(p) ==
    Create(p) \/ CreateFails(p) \/ ReadPid(p) \/ Probe(p) \/ Unlink(p) \/ WritePid(p)

Next ==
    \E p \in Procs :
        \/ Start(p)
        \/ Acquire(p)
        \/ Quit(p)
        \/ Release(p)
        \/ HandOver(p)
        \/ \E q \in Procs : Launch(p, q)
        \/ LaunchFails(p)
        \/ Die(p)
        \/ Reuse(p)

Spec == Init /\ [][Next]_vars

-----------------------------------------------------------------------------
(* Properties *)

\* Every variable keeps its type, and there is at most one lock file.
TypeOK ==
    /\ pc \in [Procs -> Labels]
    /\ attempt \in [Procs -> {0, 1}]
    /\ saw \in [Procs -> Procs \cup {None}]
    /\ acquired \in [Procs -> BOOLEAN]
    /\ file \in SUBSET LockFile
    /\ \A f, g \in file : f = g
    /\ reused \in SUBSET Procs
    /\ mishaps \in SUBSET MishapKinds

\* The run counts itself the holder of the lock.
Holds(p) == acquired[p] /\ Alive(p)

\* DEPLOY.md 247-249: "only one is allowed to run.  The first to acquire ...
\* wins".
AtMostOneHolder ==
    \A p, q \in Procs : Holds(p) /\ Holds(q) => p = q

\* instance_lock.py 87-88: the retry is "under O_EXCL so two racers cannot both
\* take over a stale lock".  Two runs that read the PID of a killed run in the
\* lock file do not both come to hold the lock.
TakenOverOnce ==
    \A p, q \in Procs :
        {saw[p], saw[q]} \subseteq Killed /\ Holds(p) /\ Holds(q) => p = q

\* While no two runs have been inside acquire() at a time, the lock file is
\* the holder's and names it: no other run's take-over, release, hand-over or
\* failed write removes or replaces it.
HolderOwnsFile ==
    "race" \notin mishaps =>
        \A p \in Procs : Holds(p) => file = {[by |-> p, pid |-> p]}

\* A run that met no other one inside acquire(), and finds a lock in its way, is
\* refused only while another run is alive or a foreign program has a finished
\* run's PID: a lock left by a crash, or empty after a write that failed, locks
\* nobody out.
RefusedForCause ==
    [][\A p \in Procs :
         pc[p] \in {"probe", "unlink"} /\ pc'[p] = "refused" /\ "race" \notin mishaps =>
             reused # {} \/ \E q \in Procs \ {p} : Alive(q)]_vars

\* However many runs race for the lock, stale or absent, they do not all lose:
\* once everyone has an answer, nobody quit or died and the lock could be
\* created and written, some run holds it.
SomeoneWins ==
    /\ \A p \in Procs \ Killed : pc[p] \in {"new", "refused", "held"}
    /\ \E p \in Procs : pc[p] = "refused"
    /\ reused = {}
    /\ mishaps \cap {"create", "write"} = {}
    => \E p \in Procs : pc[p] = "held"

\* docs/design/self-update-mechanism.md: one agent runs, the old one or its
\* replacement, unless the launch failed or runs raced for the lock.
OneRuns ==
    mishaps \cap {"race", "launch"} = {} =>
        \A p, q \in Procs : {pc[p], pc[q]} \subseteq {"held", "unguarded"} => p = q
=============================================================================
