------------------------- MODULE InstanceLockProofs -------------------------
(***************************************************************************)
(* Theorems about InstanceLock, checked by TLAPS: for any number of runs,  *)
(* killed ones, reused PIDs and launches, and any mishaps, the lock is     *)
(* sound as long as no two runs have been inside acquire() at a time.  The *)
(* run lock_stale shows why that is needed; a launch that failed lets a    *)
(* run go on without the lock, so OnlyOneRuns excludes it.                 *)
(***************************************************************************)
EXTENDS InstanceLock, TLAPS

\* The parts of the inductive invariant.

\* At most one run is inside acquire().
OneAcquires ==
    \A p, q \in Procs : pc[p] \in Acquiring /\ pc[q] \in Acquiring => p = q

\* A run counts itself the holder from the end of acquire() until it lets go
\* or ends.
HeldAndAcquired ==
    /\ \A p \in Procs : acquired[p] => pc[p] \in {"held", "releasing", "gone"}
    /\ \A p \in Procs : pc[p] = "held" => acquired[p]

\* A run that has read the file has read the holder's PID, so it will find
\* the holder alive.
HolderIsSeen ==
    \A p, h \in Procs : pc[p] = "probe" /\ Holds(h) => saw[p] = h

\* A run gets past the probe only when nobody holds the lock.
NobodyHolds == \A h \in Procs : ~Holds(h)
PastProbe ==
    \A p \in Procs :
        /\ pc[p] = "unlink" => NobodyHolds
        /\ pc[p] = "write" => NobodyHolds /\ file = {[by |-> p, pid |-> None]}

\* The file is the holder's: HolderOwnsFile, without its premise.
FileIsHolders == \A p \in Procs : Holds(p) => file = {[by |-> p, pid |-> p]}

LockInv == OneAcquires /\ HeldAndAcquired /\ FileIsHolders /\ HolderIsSeen /\ PastProbe

\* What holds as long as nobody raced.
UnlessRaced == "race" \notin mishaps => LockInv

AttemptInv == \A p \in Procs : pc[p] = "unlink" => attempt[p] = 0
IInv == TypeOK /\ AttemptInv

-----------------------------------------------------------------------------
\* Every variable keeps its type, whatever overlaps and whatever fails; in
\* particular acquire() never gets to a third attempt.
THEOREM TypeCorrect == Spec => []TypeOK
<1> USE DEF LockFile, Labels, Acquiring, Running, Goto, Enters, Mishap, MishapKinds, LetGo
<1>1. Init => IInv
  BY TraysAssumption DEF Init, IInv, TypeOK, AttemptInv
<1>2. ASSUME IInv, [Next]_vars PROVE IInv'
  <2> USE <1>2 DEF IInv, TypeOK, AttemptInv
  <2>1. ASSUME NEW p \in Procs, Start(p) PROVE IInv'
    BY <2>1 DEF Start
  <2>2. ASSUME NEW p \in Procs, Create(p) PROVE IInv'
    BY <2>2 DEF Create
  <2>15. ASSUME NEW p \in Procs, CreateFails(p) PROVE IInv'
    BY <2>15 DEF CreateFails
  <2>3. ASSUME NEW p \in Procs, ReadPid(p) PROVE IInv'
    BY <2>3 DEF ReadPid
  <2>4. ASSUME NEW p \in Procs, Probe(p) PROVE IInv'
    BY <2>4 DEF Probe
  <2>5. ASSUME NEW p \in Procs, Unlink(p) PROVE IInv'
    BY <2>5 DEF Unlink
  <2>6. ASSUME NEW p \in Procs, WritePid(p) PROVE IInv'
    <3>1. [by |-> p, pid |-> p] \in LockFile
      OBVIOUS
    <3>2. file' \in SUBSET LockFile /\ \A f, g \in file' : f = g
      BY <2>6, <3>1 DEF WritePid
    <3> QED
      BY <2>6, <3>2 DEF WritePid
  <2>7. ASSUME NEW p \in Procs, Quit(p) PROVE IInv'
    BY <2>7 DEF Quit
  <2>8. ASSUME NEW p \in Procs, Release(p) PROVE IInv'
    BY <2>8 DEF Release
  <2>9. ASSUME NEW p \in Procs, HandOver(p) PROVE IInv'
    BY <2>9 DEF HandOver
  <2>10. ASSUME NEW p \in Procs, NEW q \in Procs, Launch(p, q) PROVE IInv'
    BY <2>10 DEF Launch
  <2>11. ASSUME NEW p \in Procs, LaunchFails(p) PROVE IInv'
    BY <2>11 DEF LaunchFails
  <2>12. ASSUME NEW p \in Procs, Die(p) PROVE IInv'
    BY <2>12 DEF Die
  <2>13. ASSUME NEW p \in Procs, Reuse(p) PROVE IInv'
    BY <2>13 DEF Reuse
  <2>14. CASE UNCHANGED vars
    BY <2>14 DEF vars
  <2> QED
    BY <2>1, <2>2, <2>3, <2>4, <2>5, <2>6, <2>7, <2>8, <2>9, <2>10, <2>11,
       <2>12, <2>13, <2>14, <2>15 DEF Next, Acquire
<1>3. IInv => TypeOK
  BY DEF IInv
<1> QED
  BY <1>1, <1>2, <1>3, PTL DEF Spec

-----------------------------------------------------------------------------
\* The history forgets nothing.
LEMMA MishapsGrow == [Next]_vars => mishaps \subseteq mishaps'
<1> USE DEF Enters, Mishap
<1>1. ASSUME NEW p \in Procs,
             Start(p) \/ CreateFails(p) \/ WritePid(p) \/ LaunchFails(p)
             \/ \E q \in Procs : Launch(p, q)
      PROVE mishaps \subseteq mishaps'
  BY <1>1 DEF Start, CreateFails, WritePid, LaunchFails, Launch
<1>2. ASSUME NEW p \in Procs,
             Create(p) \/ ReadPid(p) \/ Probe(p) \/ Unlink(p) \/ Quit(p)
             \/ Release(p) \/ HandOver(p) \/ Die(p) \/ Reuse(p)
      PROVE mishaps \subseteq mishaps'
  BY <1>2 DEF Create, ReadPid, Probe, Unlink, Quit, Release, HandOver, Die, Reuse
<1>3. CASE UNCHANGED vars
  BY <1>3 DEF vars
<1> QED
  BY <1>1, <1>2, <1>3 DEF Next, Acquire

\* While runs acquire one at a time, a step keeps the inductive invariant.
LEMMA LockStep ==
    ASSUME TypeOK, LockInv, Next, "race" \notin mishaps' PROVE LockInv'
<1> USE DEF LockInv, OneAcquires, HeldAndAcquired, FileIsHolders,
            HolderIsSeen, PastProbe, NobodyHolds, Holds, Alive, TypeOK, LockFile,
            Labels, Acquiring, Running, Goto, Enters, Mishap
<1>1. ASSUME NEW p \in Procs, Start(p) PROVE LockInv'
  <2>1. OneAcquires'
    BY <1>1 DEF Start
  <2>2. HeldAndAcquired'
    BY <1>1 DEF Start
  <2>3. FileIsHolders'
    BY <1>1 DEF Start
  <2>4. HolderIsSeen'
    BY <1>1 DEF Start
  <2>5. PastProbe'
    BY <1>1 DEF Start
  <2> QED
    BY <2>1, <2>2, <2>3, <2>4, <2>5
<1>2. ASSUME NEW p \in Procs, Create(p) PROVE LockInv'
  <2>1. OneAcquires'
    BY <1>2 DEF Create
  <2>2. HeldAndAcquired'
    BY <1>2 DEF Create
  <2>11. \A h \in Procs : Holds(h)' <=> Holds(h)
    BY <1>2 DEF Create
  <2>12. file = {} => NobodyHolds
    OBVIOUS
  <2>3. FileIsHolders'
    <3> HIDE DEF Holds
    <3>1. CASE file = {}
      BY <3>1, <2>11, <2>12
    <3>2. CASE file # {}
      BY <1>2, <3>2, <2>11 DEF Create
    <3> QED
      BY <3>1, <3>2
  <2>4. HolderIsSeen'
    BY <1>2 DEF Create
  <2>5. PastProbe'
    <3> HIDE DEF Holds
    <3>1. \A q \in Procs : q # p => pc'[q] \notin Acquiring
      BY <1>2 DEF Create
    <3>2. CASE file = {} /\ file' = {[by |-> p, pid |-> None]} /\ pc'[p] = "write"
      BY <3>1, <3>2, <2>11, <2>12
    <3>3. CASE pc'[p] = "read"
      BY <3>1, <3>3
    <3> QED
      BY <1>2, <3>2, <3>3 DEF Create
  <2> QED
    BY <2>1, <2>2, <2>3, <2>4, <2>5
<1>14. ASSUME NEW p \in Procs, CreateFails(p) PROVE LockInv'
  BY <1>14 DEF CreateFails
<1>3. ASSUME NEW p \in Procs, ReadPid(p) PROVE LockInv'
  <2>1. OneAcquires'
    BY <1>3 DEF ReadPid
  <2>2. HeldAndAcquired'
    BY <1>3 DEF ReadPid
  <2>3. FileIsHolders'
    BY <1>3 DEF ReadPid
  <2>4. HolderIsSeen'
    <3> SUFFICES ASSUME NEW q \in Procs, NEW h \in Procs, pc'[q] = "probe", Holds(h)'
                 PROVE saw'[q] = h
      OBVIOUS
    <3>1. file = {[by |-> h, pid |-> h]}
      BY <1>3 DEF ReadPid
    <3>2. q = p
      BY <1>3 DEF ReadPid
    <3>3. \A f \in file : f.pid = h
      BY <3>1
    <3>4. file # {}
      BY <3>1
    <3>5. PICK f \in file : saw' = [saw EXCEPT ![p] = f.pid]
      BY <1>3, <3>4 DEF ReadPid
    <3>6. f.pid = h
      BY <3>3
    <3>7. saw'[p] = h
      BY <3>5, <3>6
    <3> QED
      BY <3>2, <3>7
  <2>5. PastProbe'
    BY <1>3 DEF ReadPid
  <2> QED
    BY <2>1, <2>2, <2>3, <2>4, <2>5
<1>4. ASSUME NEW p \in Procs, Probe(p) PROVE LockInv'
  BY <1>4, NoneAssumption DEF Probe, PidRunning
<1>5. ASSUME NEW p \in Procs, Unlink(p) PROVE LockInv'
  BY <1>5 DEF Unlink
<1>6. ASSUME NEW p \in Procs, WritePid(p) PROVE LockInv'
  <2>1. OneAcquires'
    BY <1>6 DEF WritePid
  <2>2. HeldAndAcquired'
    BY <1>6 DEF WritePid
  <2>3. FileIsHolders'
    <3> SUFFICES ASSUME NEW h \in Procs, Holds(h)'
                 PROVE file' = {[by |-> h, pid |-> h]}
      OBVIOUS
    <3>1. file = {[by |-> p, pid |-> None]} /\ ~Holds(h)
      BY <1>6 DEF WritePid
    <3>2. h = p /\ pc'[p] = "held"
      BY <1>6, <3>1 DEF WritePid
    <3>3. [by |-> p, pid |-> None] \in file
      BY <3>1
    <3>4. \E f \in file : f.by = p
      BY <3>3
    <3> QED
      BY <1>6, <3>2, <3>4 DEF WritePid
  <2>4. HolderIsSeen'
    BY <1>6 DEF WritePid
  <2>5. PastProbe'
    <3>1. \A q \in Procs : pc'[q] \notin Acquiring
      BY <1>6 DEF WritePid
    <3> QED
      BY <3>1
  <2> QED
    BY <2>1, <2>2, <2>3, <2>4, <2>5
<1>7. ASSUME NEW p \in Procs, Quit(p) PROVE LockInv'
  BY <1>7 DEF Quit
<1>8. ASSUME NEW p \in Procs, Release(p) PROVE LockInv'
  BY <1>8 DEF Release, LetGo
<1>9. ASSUME NEW p \in Procs, HandOver(p) PROVE LockInv'
  <2>1. OneAcquires'
    BY <1>9 DEF HandOver, LetGo
  <2>2. HeldAndAcquired'
    BY <1>9 DEF HandOver, LetGo
  <2>3. FileIsHolders'
    BY <1>9 DEF HandOver, LetGo
  <2>4. HolderIsSeen'
    BY <1>9 DEF HandOver, LetGo
  <2>5. PastProbe'
    BY <1>9 DEF HandOver, LetGo
  <2> QED
    BY <2>1, <2>2, <2>3, <2>4, <2>5
<1>10. ASSUME NEW p \in Procs, NEW q \in Procs, Launch(p, q) PROVE LockInv'
  BY <1>10 DEF Launch
<1>11. ASSUME NEW p \in Procs, LaunchFails(p) PROVE LockInv'
  BY <1>11 DEF LaunchFails
<1>12. ASSUME NEW p \in Procs, Die(p) PROVE LockInv'
  BY <1>12 DEF Die
<1>13. ASSUME NEW p \in Procs, Reuse(p) PROVE LockInv'
  BY <1>13 DEF Reuse
<1> QED
  BY <1>1, <1>2, <1>3, <1>4, <1>5, <1>6, <1>7, <1>8, <1>9, <1>10, <1>11,
     <1>12, <1>13, <1>14 DEF Next, Acquire

\* As long as nobody raced, the invariant holds.
LEMMA LockAlways == Spec => []UnlessRaced
<1>1. Init => UnlessRaced
  BY DEF Init, UnlessRaced, LockInv, OneAcquires, HeldAndAcquired, FileIsHolders,
         HolderIsSeen, PastProbe, NobodyHolds, Holds, Acquiring
<1>2. LockInv /\ UNCHANGED vars => LockInv'
  BY DEF vars, LockInv, OneAcquires, HeldAndAcquired, FileIsHolders, HolderIsSeen,
         PastProbe, NobodyHolds, Holds, Alive
<1>3. TypeOK /\ UnlessRaced /\ [Next]_vars => UnlessRaced'
  <2> SUFFICES ASSUME TypeOK, UnlessRaced, [Next]_vars, "race" \notin mishaps'
               PROVE LockInv'
    BY DEF UnlessRaced
  <2>1. mishaps \subseteq mishaps'
    BY MishapsGrow
  <2>2. LockInv
    BY <2>1 DEF UnlessRaced
  <2> QED
    BY <1>2, <2>2, LockStep
<1> QED
  BY <1>1, <1>3, TypeCorrect, PTL DEF Spec

\* Unless runs raced for it, the lock file is the holder's from the end of its
\* acquire() until it lets go: no take-over, release, hand-over or failed
\* write of another run, and no reuse of a PID, takes it away.
THEOREM HolderKeepsFile == Spec => []HolderOwnsFile
<1>1. UnlessRaced => HolderOwnsFile
  BY DEF UnlessRaced, LockInv, FileIsHolders, HolderOwnsFile
<1> QED
  BY <1>1, LockAlways, PTL

\* AtMostOneHolder, unless runs raced.
OneHolderUnlessRaced == "race" \notin mishaps => AtMostOneHolder

\* Unless runs raced for the lock, two never both count themselves the holder.
THEOREM OneHolder == Spec => []OneHolderUnlessRaced
<1>1. HolderOwnsFile => OneHolderUnlessRaced
  <2> SUFFICES ASSUME HolderOwnsFile, "race" \notin mishaps,
                      NEW p \in Procs, NEW q \in Procs, Holds(p), Holds(q)
               PROVE p = q
    BY DEF OneHolderUnlessRaced, AtMostOneHolder
  <2>1. [by |-> p, pid |-> p] = [by |-> q, pid |-> q]
    BY DEF HolderOwnsFile
  <2> QED
    BY <2>1
<1> QED
  BY <1>1, HolderKeepsFile, PTL

-----------------------------------------------------------------------------
\* Unless a launch failed no run goes on without the lock.
NoneUnguarded == "launch" \notin mishaps => \A p \in Procs : pc[p] # "unguarded"

\* Unless runs raced or the launch of a new executable failed, at most one run
\* works on the log directory: a run works only while it holds the lock.
THEOREM OnlyOneRuns == Spec => []OneRuns
<1>1. Init => NoneUnguarded
  BY DEF Init, NoneUnguarded
<1>2. TypeOK /\ NoneUnguarded /\ [Next]_vars => NoneUnguarded'
  <2> SUFFICES ASSUME TypeOK, NoneUnguarded, [Next]_vars PROVE NoneUnguarded'
    OBVIOUS
  <2>0. mishaps \subseteq mishaps'
    BY MishapsGrow
  <2> USE <2>0 DEF NoneUnguarded, Goto, TypeOK
  <2>1. ASSUME NEW p \in Procs, Acquire(p) PROVE NoneUnguarded'
    BY <2>1 DEF Acquire, Create, CreateFails, ReadPid, Probe, Unlink, WritePid
  <2>2. ASSUME NEW p \in Procs,
               Start(p) \/ Quit(p) \/ Release(p) \/ HandOver(p) \/ Die(p) \/ Reuse(p)
        PROVE NoneUnguarded'
    BY <2>2 DEF Start, Quit, Release, HandOver, Die, Reuse
  <2>3. ASSUME NEW p \in Procs, NEW q \in Procs, Launch(p, q) PROVE NoneUnguarded'
    BY <2>3 DEF Launch
  <2>4. ASSUME NEW p \in Procs, LaunchFails(p) PROVE NoneUnguarded'
    BY <2>4 DEF LaunchFails, Mishap
  <2>5. CASE UNCHANGED vars
    BY <2>5 DEF vars
  <2> QED
    BY <2>1, <2>2, <2>3, <2>4, <2>5 DEF Next
<1>3. UnlessRaced /\ NoneUnguarded /\ OneHolderUnlessRaced => OneRuns
  <2> SUFFICES ASSUME UnlessRaced, NoneUnguarded, OneHolderUnlessRaced,
                      mishaps \cap {"race", "launch"} = {},
                      NEW p \in Procs, NEW q \in Procs,
                      {pc[p], pc[q]} \subseteq {"held", "unguarded"}
               PROVE p = q
    BY DEF OneRuns
  <2>1. LockInv /\ AtMostOneHolder
    BY DEF UnlessRaced, OneHolderUnlessRaced
  <2>2. pc[p] = "held" /\ pc[q] = "held"
    BY DEF NoneUnguarded
  <2>3. Holds(p) /\ Holds(q)
    BY <2>1, <2>2 DEF LockInv, HeldAndAcquired, Holds, Alive, Running
  <2> QED
    BY <2>1, <2>3 DEF AtMostOneHolder
<1> QED
  BY <1>1, <1>2, <1>3, TypeCorrect, LockAlways, OneHolder, PTL DEF Spec

-----------------------------------------------------------------------------
(* A crash locks nobody out *)

\* No PID in the way of a run is its own: it has not written it yet.
NotOwnPid ==
    \A p \in Procs : pc[p] \in {"new"} \cup Acquiring =>
        saw[p] # p /\ \A f \in file : f.pid # p

\* Alone inside acquire(), a run that has cleared the lock finds no file in its
\* way at the second attempt.
SecondIsFree ==
    \A p \in Procs :
        /\ pc[p] = "create" /\ attempt[p] = 1 => file = {}
        /\ pc[p] \in {"new", "read", "probe"} => attempt[p] = 0

CauseInv == NotOwnPid /\ ("race" \notin mishaps => SecondIsFree)

LEMMA CauseStep ==
    ASSUME TypeOK, UnlessRaced, UnlessRaced', CauseInv, [Next]_vars
    PROVE  CauseInv'
<1> USE DEF TypeOK, LockFile, Labels, Acquiring, Running, Goto
<1>1. NotOwnPid'
  <2> USE DEF CauseInv, NotOwnPid
  <2>1. ASSUME NEW p \in Procs,
               \/ Start(p) \/ (\E q \in Procs : Launch(p, q))
               \/ Create(p) \/ CreateFails(p)
        PROVE  NotOwnPid'
    BY <2>1, NoneAssumption DEF Start, Launch, Create, CreateFails, Enters
  <2>2. ASSUME NEW p \in Procs, ReadPid(p) PROVE NotOwnPid'
    BY <2>2, NoneAssumption DEF ReadPid
  <2>3. ASSUME NEW p \in Procs, Probe(p) \/ Unlink(p) PROVE NotOwnPid'
    BY <2>3 DEF Probe, Unlink
  <2>4. ASSUME NEW p \in Procs, WritePid(p) PROVE NotOwnPid'
    BY <2>4 DEF WritePid
  <2>5. ASSUME NEW p \in Procs,
               Quit(p) \/ Release(p) \/ HandOver(p) \/ LaunchFails(p) \/ Die(p) \/ Reuse(p)
        PROVE  NotOwnPid'
    BY <2>5 DEF Quit, Release, HandOver, LetGo, LaunchFails, Die, Reuse
  <2>6. CASE UNCHANGED vars
    BY <2>6 DEF vars
  <2> QED
    BY <2>1, <2>2, <2>3, <2>4, <2>5, <2>6 DEF Next, Acquire
<1>2. ASSUME "race" \notin mishaps' PROVE SecondIsFree'
  <2>1. /\ SecondIsFree /\ OneAcquires /\ OneAcquires'
    BY <1>2, MishapsGrow DEF CauseInv, UnlessRaced, LockInv
  <2> USE <2>1 DEF SecondIsFree, OneAcquires
  <2>2. ASSUME NEW p \in Procs,
               Start(p) \/ (\E q \in Procs : Launch(p, q)) \/ ReadPid(p) \/ Probe(p)
        PROVE  SecondIsFree'
    BY <2>2, <1>2 DEF Start, Launch, ReadPid, Probe, Enters
  <2>3. ASSUME NEW p \in Procs, Create(p) \/ CreateFails(p) PROVE SecondIsFree'
    BY <2>3 DEF Create, CreateFails
  <2>4. ASSUME NEW p \in Procs, Unlink(p) PROVE SecondIsFree'
    BY <2>4 DEF Unlink
  <2>5. ASSUME NEW p \in Procs, WritePid(p) PROVE SecondIsFree'
    BY <2>5 DEF WritePid
  <2>6. ASSUME NEW p \in Procs,
               Quit(p) \/ Release(p) \/ HandOver(p) \/ LaunchFails(p) \/ Die(p) \/ Reuse(p)
        PROVE  SecondIsFree'
    BY <2>6 DEF Quit, Release, HandOver, LetGo, LaunchFails, Die, Reuse
  <2>7. CASE UNCHANGED vars
    BY <2>7 DEF vars
  <2> QED
    BY <2>2, <2>3, <2>4, <2>5, <2>6, <2>7 DEF Next, Acquire
<1> QED
  BY <1>1, <1>2 DEF CauseInv

\* Unless runs raced, a run is refused only while another one is alive or a
\* foreign program has a finished run's PID: a lock left by a crash locks
\* nobody out.
THEOREM RefusalHasCause == Spec => RefusedForCause
<1> DEFINE Cause == \A p \in Procs :
         pc[p] \in {"probe", "unlink"} /\ pc'[p] = "refused" /\ "race" \notin mishaps =>
             reused # {} \/ \E q \in Procs \ {p} : Alive(q)
<1>1. Init => CauseInv
  BY NoneAssumption
  DEF Init, CauseInv, NotOwnPid, SecondIsFree, Acquiring
<1>2. TypeOK /\ UnlessRaced /\ CauseInv /\ [Next]_vars => [Cause]_vars
  <2> SUFFICES ASSUME TypeOK, UnlessRaced, CauseInv, Next, NEW p \in Procs,
                      pc[p] \in {"probe", "unlink"}, pc'[p] = "refused",
                      "race" \notin mishaps
               PROVE  reused # {} \/ \E q \in Procs \ {p} : Alive(q)
    OBVIOUS
  <2>0. OneAcquires
    BY DEF UnlessRaced, LockInv
  <2>4. ~Unlink(p)
    BY <2>0 DEF Unlink, MayBeOpen, BeingWritten, OneAcquires, Goto, TypeOK, LockFile, Acquiring
  <2>1. Probe(p)
    BY <2>4 DEF Next, Acquire, Start, Create, CreateFails, ReadPid, Probe, Unlink, WritePid,
       Quit, Release, HandOver, Launch, LaunchFails, Die, Reuse, Goto, Enters, TypeOK, Alive,
       Acquiring, Running
  <2>2. attempt[p] = 0 /\ saw[p] # p
    BY <2>1 DEF Probe, CauseInv, SecondIsFree, NotOwnPid, Acquiring
  <2>3. PidRunning(saw[p])
    BY <2>1, <2>2 DEF Probe, Goto, TypeOK
  <2> QED
    BY <2>2, <2>3 DEF PidRunning, TypeOK
<1> QED
  BY <1>1, <1>2, CauseStep, TypeCorrect, LockAlways, PTL DEF Spec, RefusedForCause

-----------------------------------------------------------------------------
(* Racing runs do not all lose *)

\* So far nobody who got an answer has quit or died, no PID was reused and the
\* lock could be created and written: what came before such a state was such a
\* state.
Calm ==
    /\ \A p \in Procs \ Killed : pc[p] \in {"new", "refused", "held"} \cup Acquiring
    /\ reused = {}
    /\ mishaps \cap {"create", "write"} = {}

\* A run about to win: it holds the lock or has created its file.
Winning == \E q \in Procs : pc[q] \in {"write", "held"}

\* The path is free for a run that is about to create the file.
AboutToWin == file = {} /\ \E q \in Procs : pc[q] = "create"

\* A run that will see who wins, or clear the lock itself.
StillInTheRace == \E q \in Procs : pc[q] \in {"read", "probe", "unlink"} /\ attempt[q] = 0

\* Whoever is in the way of another run is the holder or was killed before;
\* once a run cleared the lock there is a winner or the path is free for one,
\* and a run that finds a lock again has a winner in its way; whoever was
\* refused had a winner to give way to, or another run that is still reading.
WinInv ==
    Calm =>
        /\ \A f \in file : pc[f.by] \in {"write", "held", "gone"}
        /\ \A f \in file : f.pid # None => pc[f.pid] \in {"held", "gone"}
        /\ \A p \in Procs : saw[p] # None => pc[saw[p]] \in {"held", "gone"}
        /\ \A p \in Procs : attempt[p] = 1 =>
              /\ Winning \/ AboutToWin
              /\ file = {} \/ Winning
              /\ pc[p] \in {"read", "probe", "unlink"} => Winning
        /\ (\E p \in Procs : pc[p] = "refused") => Winning \/ AboutToWin \/ StillInTheRace

\* A run that was killed before stays so.
KilledAreGone == \A p \in Killed : pc[p] = "gone"

LEMMA CalmBefore == TypeOK /\ KilledAreGone /\ [Next]_vars => KilledAreGone' /\ (Calm' => Calm)
<1> SUFFICES ASSUME TypeOK, KilledAreGone, [Next]_vars PROVE KilledAreGone' /\ (Calm' => Calm)
  OBVIOUS
<1>0. mishaps \subseteq mishaps'
  BY MishapsGrow
<1> USE <1>0, TraysAssumption DEF KilledAreGone, Calm, TypeOK, Labels, Acquiring, Running, Goto
<1>1. ASSUME NEW p \in Procs, Acquire(p) PROVE KilledAreGone' /\ (Calm' => Calm)
  BY <1>1 DEF Acquire, Create, CreateFails, ReadPid, Probe, Unlink, WritePid, Mishap
<1>2. ASSUME NEW p \in Procs,
             Start(p) \/ Quit(p) \/ Release(p) \/ HandOver(p) \/ LaunchFails(p) \/ Die(p)
             \/ Reuse(p)
      PROVE  KilledAreGone' /\ (Calm' => Calm)
  BY <1>2
  DEF Start, Enters, Quit, Release, HandOver, LaunchFails, Die, Reuse, Alive
<1>3. ASSUME NEW p \in Procs, NEW q \in Procs, Launch(p, q)
      PROVE  KilledAreGone' /\ (Calm' => Calm)
  BY <1>3 DEF Launch, Enters
<1>4. CASE UNCHANGED vars
  BY <1>4 DEF vars
<1> QED
  BY <1>1, <1>2, <1>3, <1>4 DEF Next

LEMMA WinStep == TypeOK /\ KilledAreGone /\ WinInv /\ [Next]_vars => WinInv'
<1> SUFFICES ASSUME TypeOK, KilledAreGone, WinInv, [Next]_vars, Calm' PROVE WinInv'
  BY DEF WinInv
<1>0. Calm /\ KilledAreGone'
  BY CalmBefore
<1> USE <1>0 DEF WinInv, Winning, AboutToWin, StillInTheRace, TypeOK, LockFile, Goto
<1>1. ASSUME NEW p \in Procs, Start(p) PROVE WinInv'
  BY <1>1 DEF Start, Enters
<1>2. ASSUME NEW p \in Procs, Create(p) PROVE WinInv'
  BY <1>2 DEF Create
<1>10. ASSUME NEW p \in Procs, CreateFails(p) PROVE WinInv'
  BY <1>10 DEF CreateFails, Mishap, Calm
<1>3. ASSUME NEW p \in Procs, ReadPid(p) PROVE WinInv'
  BY <1>3 DEF ReadPid
<1>4. ASSUME NEW p \in Procs, Probe(p) PROVE WinInv'
  <2>1. /\ UNCHANGED <<attempt, saw, file>>
        /\ \A q \in Procs : pc[q] \in {"write", "held", "gone", "create"} => pc'[q] = pc[q]
    BY <1>4 DEF Probe
  <2>2. pc'[p] = "refused" => Winning \/ AboutToWin
    <3>1. CASE attempt[p] = 1
      BY <3>1
    <3>2. CASE PidRunning(saw[p])
      <4>1. saw[p] \in Procs /\ pc[saw[p]] # "gone"
        BY <3>2, NoneAssumption DEF PidRunning, Alive, Calm, Acquiring, Running
      <4> QED
        BY <4>1, NoneAssumption
    <3> QED
      BY <1>4, <3>1, <3>2 DEF Probe
  <2>3. (\E q \in Procs : pc'[q] = "refused")
            => (Winning \/ AboutToWin \/ StillInTheRace)'
    BY <1>4, <2>1, <2>2 DEF Probe
  <2> QED
    BY <1>4, <2>1, <2>3, NoneAssumption DEF Probe
<1>5. ASSUME NEW p \in Procs, Unlink(p) PROVE WinInv'
  <2>1. CASE attempt' = attempt /\ file' = file
    <3>1. /\ pc[p] = "unlink" /\ pc' = [pc EXCEPT ![p] = "refused"]
          /\ saw' = saw /\ MayBeOpen
      BY <1>5, <2>1 DEF Unlink
    <3>2. Winning' \/ StillInTheRace'
      BY <3>1, <2>1 DEF MayBeOpen, BeingWritten
    <3> QED
      BY <2>1, <3>1, <3>2
  <2>2. CASE file' = {} /\ pc' = [pc EXCEPT ![p] = "create"]
    <3>1. pc[p] = "unlink" /\ saw' = saw /\ \A q \in Procs \ {p} : attempt'[q] = attempt[q]
      BY <1>5 DEF Unlink
    <3>2. AboutToWin' /\ (Winning => Winning')
      BY <2>2, <3>1
    <3>3. \A q \in Procs : pc[q] \in {"held", "gone"} => pc'[q] = pc[q]
      BY <2>2, <3>1
    <3>4. \A q \in Procs : attempt'[q] = 1 /\ pc'[q] \in {"read", "probe", "unlink"} => Winning'
      BY <2>2, <3>1, <3>2
    <3>5. \A q \in Procs : saw'[q] # None => pc'[saw'[q]] \in {"held", "gone"}
      BY <3>1, <3>3, NoneAssumption
    <3> QED
      BY <2>2, <3>2, <3>4, <3>5
  <2> QED
    BY <1>5, <2>1, <2>2 DEF Unlink
<1>6. ASSUME NEW p \in Procs, WritePid(p) PROVE WinInv'
  <2>1. /\ pc[p] = "write" /\ pc' = [pc EXCEPT ![p] = "held"]
        /\ UNCHANGED <<attempt, saw>>
        /\ file' = IF \E f \in file : f.by = p THEN {[by |-> p, pid |-> p]} ELSE file
    BY <1>6 DEF WritePid, Calm, Mishap
  <2>2. Winning'
    BY <2>1
  <2>3. \A q \in Procs : pc[q] \in {"held", "gone"} => pc'[q] = pc[q]
    BY <2>1
  <2>4. /\ \A f \in file' : pc'[f.by] \in {"write", "held", "gone"}
        /\ \A f \in file' : f.pid # None => pc'[f.pid] \in {"held", "gone"}
    BY <2>1, <2>3
  <2> QED
    BY <2>1, <2>2, <2>3, <2>4
<1>7. ASSUME NEW p \in Procs,
             Quit(p) \/ Release(p) \/ HandOver(p) \/ LaunchFails(p) \/ Die(p)
             \/ \E q \in Procs : Launch(p, q)
      PROVE  WinInv'
  BY <1>7
  DEF Quit, Release, HandOver, LaunchFails, Die, Launch, Alive, Calm, KilledAreGone,
      Acquiring, Running
<1>8. ASSUME NEW p \in Procs, Reuse(p) PROVE WinInv'
  BY <1>8 DEF Reuse, Calm
<1>9. CASE UNCHANGED vars
  BY <1>9 DEF vars
<1> QED
  BY <1>1, <1>2, <1>3, <1>4, <1>5, <1>6, <1>7, <1>8, <1>9, <1>10 DEF Next, Acquire

\* However many runs race for the lock, stale or absent, on Windows or POSIX,
\* some run gets it.
THEOREM SomeoneAlwaysWins == Spec => []SomeoneWins
<1>1. Init => KilledAreGone /\ WinInv
  BY TraysAssumption, NoneAssumption DEF Init, KilledAreGone, WinInv
<1>2. TypeOK /\ KilledAreGone /\ [Next]_vars => KilledAreGone'
  BY CalmBefore
<1>3. WinInv /\ KilledAreGone => SomeoneWins
  BY DEF WinInv, KilledAreGone, SomeoneWins, Calm, Winning, AboutToWin, StillInTheRace
<1> QED
  BY <1>1, <1>2, <1>3, WinStep, TypeCorrect, PTL DEF Spec
=============================================================================
