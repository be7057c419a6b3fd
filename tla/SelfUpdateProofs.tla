-------------------------- MODULE SelfUpdateProofs --------------------------
(***************************************************************************)
(* Theorems about SelfUpdate, checked by TLAPS, for any number of          *)
(* releases, manual checks, faults and restarts, on Windows and elsewhere. *)
(***************************************************************************)
EXTENDS SelfUpdate, TLAPS

\* A check that has a tag.
Tagged == {"compare", "gate", "download", "verify", "remove", "stage", "clear"}

\* A check whose download is not staged.
Downloading == Tagged \ {"compare", "clear"}

TagOK == \A t \in Checks : pc[t] \in Tagged => tag[t] \in Versions

TypeInv == TypeOK /\ TagOK

-----------------------------------------------------------------------------
LEMMA VersionsAreNat == Versions \subseteq Nat /\ 0 \in Versions
BY BoundsAssumption DEF Versions

\* A step of a check keeps the types.
LEMMA StepType ==
    ASSUME TypeInv, NEW t \in Checks, Step(t) PROVE TypeInv'
<1> USE VersionsAreNat, BoundsAssumption
    DEF TypeInv, TypeOK, TagOK, Tagged, Label, Contents, Goto, Fault, outside, mine
<1>0. ASSUME End(t) PROVE /\ pc' \in [Checks -> Label] /\ override' \in BOOLEAN
                          /\ tag' \in [Checks -> Versions \cup {None}]
                          /\ robbed' \in SUBSET Manual
                          /\ \A u \in Checks : pc'[u] \in Tagged => tag'[u] \in Versions
  <2>1. override' \in BOOLEAN
    <3>1. CASE t \in Manual
      BY <1>0, <3>1 DEF End
    <3>2. CASE t \notin Manual
      BY <1>0, <3>2 DEF End
    <3> QED
      BY <3>1, <3>2
  <2>2. robbed' \in SUBSET Manual
    <3>1. CASE t \in Manual
      BY <1>0, <3>1 DEF End, Rob
    <3>2. CASE t \notin Manual
      BY <1>0, <3>2 DEF End, Rob
    <3> QED
      BY <3>1, <3>2
  <2> QED
    BY <1>0, <2>1, <2>2 DEF End
<1>9. faults' \in Nat
  <2>1. faults' = faults \/ faults' = faults + 1
    BY DEF Step, Check, Compare, Gate, Download, Verify, Remove, Stage, Clear
  <2> QED
    BY <2>1
<1>1. CASE Check(t)
  <2>1. latest \in Versions /\ [tag EXCEPT ![t] = latest] \in [Checks -> Versions \cup {None}]
    OBVIOUS
  <2>2. CASE tag' = [tag EXCEPT ![t] = latest] /\ pc' = [pc EXCEPT ![t] = "compare"]
                /\ UNCHANGED <<override, robbed>>
    BY <1>1, <1>9, <2>1, <2>2 DEF Check
  <2>3. CASE End(t)
    BY <1>1, <1>0, <1>9, <2>3 DEF Check
  <2> QED
    BY <1>1, <2>2, <2>3 DEF Check
<1>2. CASE Compare(t)
  BY <1>0, <1>2 DEF Compare
<1>3. CASE Gate(t)
  BY <1>0, <1>3 DEF Gate
<1>4. CASE Download(t)
  <2>1. CASE GiveUp(t)
    BY <1>0, <1>4, <1>9, <2>1 DEF Download, GiveUp
  <2>2. CASE Goto(t, "verify") /\ UNCHANGED <<mine, failed>>
    BY <1>4, <1>9, <2>2 DEF Download
  <2> QED
    BY <1>4, <2>1, <2>2 DEF Download
<1>5. CASE Verify(t)
  <2>1. CASE GiveUp(t)
    BY <1>0, <1>5, <1>9, <2>1 DEF Verify, GiveUp
  <2>2. CASE UNCHANGED <<mine, failed>>
    BY <1>5, <1>9, <2>2 DEF Verify, GiveUp, End
  <2> QED
    BY <1>5, <2>1, <2>2 DEF Verify
<1>6. CASE Remove(t)
  BY <1>0, <1>6, <1>9 DEF Remove, GiveUp
<1>7. CASE Stage(t)
  BY <1>7 DEF Stage
<1>8. CASE Clear(t)
  BY <1>0, <1>8 DEF Clear
<1> QED
  BY <1>1, <1>2, <1>3, <1>4, <1>5, <1>6, <1>7, <1>8 DEF Step

LEMMA TypeInvAlways == Spec => []TypeInv
<1> USE VersionsAreNat, BoundsAssumption
    DEF TypeInv, TypeOK, TagOK, Tagged, Label, Contents, Goto, outside, beyond, mine,
        Begin, Idle, Fresh
<1>1. Init => TypeInv
  BY DEF Init
<1>2. ASSUME TypeInv, [Next]_vars PROVE TypeInv'
  <2>1. ASSUME NEW t \in Checks, Click(t) PROVE TypeInv'
    BY <1>2, <2>1 DEF Click
  <2>2. ASSUME NEW t \in Checks, Step(t) PROVE TypeInv'
    BY <1>2, <2>2, StepType
  <2>3. CASE Wake
    BY <1>2, <2>3 DEF Wake, Checks
  <2>4. CASE Launch
    BY <1>2, <2>4 DEF Launch
  <2>5. CASE DropStaged
    BY <1>2, <2>5 DEF DropStaged
  <2>6. CASE Relaunch
    <3>1. starts' \in Nat
      BY <1>2, <2>6 DEF Relaunch
    <3> QED
      BY <1>2, <2>6, <3>1 DEF Relaunch
  <2>7. CASE Publish
    <3>1. latest + 1 \in Versions
      BY <1>2, <2>7 DEF Publish, Versions
    <3> QED
      BY <1>2, <2>7, <3>1 DEF Publish
  <2>8. CASE UNCHANGED vars
    BY <1>2, <2>8 DEF vars
  <2> QED
    BY <1>2, <2>1, <2>2, <2>3, <2>4, <2>5, <2>6, <2>7, <2>8 DEF Next
<1> QED
  BY <1>1, <1>2, PTL DEF Spec

\* Every variable keeps its type, however the checks overlap.
THEOREM TypeCorrect == Spec => []TypeOK
<1>1. TypeInv => TypeOK
  BY DEF TypeInv
<1> QED
  BY <1>1, TypeInvAlways, PTL

-----------------------------------------------------------------------------
(* While checks do not overlap *)

OneCheck == \A t, u \in Checks : pc[t] # "idle" /\ pc[u] # "idle" => t = u

\* Releases only become newer, and a check looks at the latest: what is staged
\* is no newer than what a later check works on.
InOrder ==
    /\ staged # None => staged <= latest
    /\ \A t \in Checks : pc[t] \in Tagged =>
          tag[t] <= latest /\ (staged # None => staged <= tag[t])

\* What a check downloads is not what is staged, and once it is verified the
\* file is what the tag names.
DownloadOK ==
    \A t \in Checks :
        /\ pc[t] \in Downloading => staged # tag[t]
        /\ pc[t] \in {"stage", "clear"} => dest = tag[t]
        /\ pc[t] = "clear" => staged \in {tag[t], None}

\* StagedIsGenuine and FailedIsNotStaged, without their premise.
Genuine == staged # None /\ staged = latest => dest = staged
NotFailed == staged \in failed => \E t \in Checks : pc[t] = "clear"

StagedInv == OneCheck /\ InOrder /\ DownloadOK /\ Genuine /\ NotFailed

\* What holds as long as no two checks overlapped.
UnlessOverlapped == ~overlapped => StagedInv

\* The invariant, when t is the one check that may be running.
Alone(t) ==
    /\ \A u \in Checks \ {t} : pc[u] = "idle"
    /\ staged # None => staged <= latest
    /\ pc[t] \in Tagged => tag[t] <= latest /\ (staged # None => staged <= tag[t])
    /\ pc[t] \in Downloading => staged # tag[t]
    /\ pc[t] \in {"stage", "clear"} => dest = tag[t]
    /\ pc[t] = "clear" => staged \in {tag[t], None}
    /\ Genuine
    /\ staged \in failed => pc[t] = "clear"

LEMMA BusyIsAlone ==
    ASSUME NEW t \in Checks, StagedInv, pc[t] # "idle" PROVE Alone(t)
BY DEF StagedInv, OneCheck, InOrder, DownloadOK, NotFailed, Alone,
       Tagged, Downloading

\* A step of a check keeps the inductive invariant.
LEMMA StagedStep ==
    ASSUME TypeInv, StagedInv, NEW t \in Checks, Step(t) PROVE StagedInv'
<1> USE DEF Alone, Genuine, Tagged, Downloading, Goto, outside, mine
<1>0. Alone(t) /\ pc \in [Checks -> Label] /\ tag \in [Checks -> Versions \cup {None}]
      /\ latest \in Nat /\ failed \in SUBSET Versions /\ None \notin Versions /\ Versions \subseteq Nat
      /\ staged \in Versions \cup {None} /\ (pc[t] \in Tagged => tag[t] \in Versions)
  <2>1. pc[t] # "idle"
    BY DEF Step, Check, Compare, Gate, Download, Verify, Remove, Stage, Clear
  <2> QED
    BY <2>1, BusyIsAlone, VersionsAreNat, NoneAssumption DEF TypeInv, TypeOK, TagOK, Contents
<1>11. ASSUME Alone(t)' PROVE StagedInv'
  BY <1>11 DEF StagedInv, OneCheck, InOrder, DownloadOK, NotFailed
<1>12. ASSUME pc[t] \in Downloading, staged # None PROVE staged # latest
  <2>1. staged \in Nat /\ tag[t] \in Nat /\ staged # tag[t]
    BY <1>0, <1>12
  <2>2. staged <= tag[t] /\ tag[t] <= latest
    BY <1>0, <1>12
  <2> QED
    BY <1>0, <2>1, <2>2
<1>13. ASSUME End(t), UNCHANGED <<latest, staged>>, Genuine', staged \notin failed'
       PROVE  Alone(t)'
  <2>1. \A u \in Checks : pc'[u] = "idle"
    BY <1>0, <1>13 DEF End
  <2> QED
    BY <1>0, <1>13, <2>1
<1>14. ASSUME GiveUp(t), UNCHANGED <<latest, staged>>, pc[t] \in Downloading,
              dest' = dest \/ staged = None \/ staged # latest
       PROVE  Alone(t)'
  <2>1. staged \notin failed'
    BY <1>0, <1>14 DEF GiveUp
  <2>2. Genuine'
    BY <1>0, <1>14
  <2> QED
    BY <1>13, <1>14, <2>1, <2>2 DEF GiveUp
<1>1. ASSUME Check(t) PROVE Alone(t)'
  <2>1. CASE tag' = [tag EXCEPT ![t] = latest] /\ pc' = [pc EXCEPT ![t] = "compare"]
    <3>1. tag'[t] = latest /\ pc'[t] = "compare" /\ latest <= latest
      BY <1>0, <2>1
    <3> QED
      BY <1>0, <1>1, <2>1, <3>1 DEF Check
  <2>2. CASE End(t)
    <3>1. staged \notin failed /\ UNCHANGED <<latest, dest, staged, failed>>
      BY <1>0, <1>1 DEF Check
    <3> QED
      BY <1>0, <1>13, <2>2, <3>1
  <2> QED
    BY <1>1, <2>1, <2>2 DEF Check
<1>2. ASSUME Compare(t) PROVE Alone(t)'
  <2>1. staged \notin failed /\ UNCHANGED <<latest, dest, staged, failed>>
    BY <1>0, <1>2 DEF Compare
  <2>2. CASE End(t)
    BY <1>0, <1>13, <2>1, <2>2
  <2>3. CASE staged # tag[t] /\ Goto(t, "gate") /\ UNCHANGED mine
    BY <1>0, <1>2, <2>1, <2>3 DEF Compare
  <2> QED
    BY <1>2, <2>2, <2>3 DEF Compare
<1>3. ASSUME Gate(t) PROVE Alone(t)'
  <2>1. staged \notin failed /\ UNCHANGED <<latest, dest, staged, failed>>
    BY <1>0, <1>3 DEF Gate
  <2>2. CASE End(t)
    BY <1>0, <1>13, <2>1, <2>2
  <2>3. CASE Goto(t, "download") /\ UNCHANGED mine
    BY <1>0, <1>3, <2>1, <2>3 DEF Gate
  <2> QED
    BY <1>3, <2>2, <2>3 DEF Gate
<1>4. ASSUME Download(t) PROVE Alone(t)'
  <2>1. CASE GiveUp(t) /\ dest' = dest
    BY <1>4, <1>14, <2>1 DEF Download
  <2>2. CASE Goto(t, "verify") /\ UNCHANGED <<mine, failed>>
    BY <1>0, <1>4, <1>12, <2>2 DEF Download
  <2> QED
    BY <1>4, <2>1, <2>2 DEF Download
<1>5. ASSUME Verify(t) PROVE Alone(t)'
  <2>1. CASE GiveUp(t)
    BY <1>5, <1>14, <2>1 DEF Verify
  <2>2. CASE dest = tag[t] /\ Goto(t, "stage") /\ UNCHANGED <<mine, failed>>
    BY <1>0, <1>5, <2>2 DEF Verify
  <2>3. CASE Goto(t, "remove") /\ UNCHANGED <<mine, failed>>
    BY <1>0, <1>5, <2>3 DEF Verify
  <2> QED
    BY <1>5, <2>1, <2>2, <2>3 DEF Verify
<1>6. ASSUME Remove(t) PROVE Alone(t)'
  BY <1>6, <1>12, <1>14 DEF Remove
<1>7. ASSUME Stage(t) PROVE Alone(t)'
  BY <1>0, <1>7 DEF Stage
<1>8. ASSUME Clear(t) PROVE Alone(t)'
  <2>1. staged \notin failed'
    BY <1>0, <1>8 DEF Clear
  <2> QED
    BY <1>0, <1>8, <1>13, <2>1 DEF Clear
<1> QED
  BY <1>1, <1>2, <1>3, <1>4, <1>5, <1>6, <1>7, <1>8, <1>11 DEF Step

\* A step of a process whose checks did not overlap keeps the invariant, and
\* so does the end of any process.
LEMMA ProcessStep ==
    ASSUME TypeInv, UnlessOverlapped, Next, ~overlapped' PROVE StagedInv'
<1> USE VersionsAreNat
    DEF Tagged, Downloading, Goto, outside, beyond, mine, Idle, TypeInv, TypeOK, TagOK,
        StagedInv, OneCheck, InOrder, DownloadOK, Genuine, NotFailed
<1>1. CASE Launch \/ Relaunch
  BY <1>1 DEF Launch, Relaunch, Fresh
<1>2. ASSUME ~overlapped, ~(Launch \/ Relaunch) PROVE StagedInv'
  <2>0. StagedInv
    BY <1>2 DEF UnlessOverlapped
  <2>1. ASSUME NEW t \in Checks, Click(t) PROVE StagedInv'
    BY <2>0, <2>1 DEF Click, Begin
  <2>2. ASSUME NEW t \in Checks, Step(t) PROVE StagedInv'
    BY <2>0, <2>2, StagedStep
  <2>3. CASE Wake
    <3>1. pc = Idle /\ pc' = [pc EXCEPT ![Scheduled] = "check"]
      BY <2>3 DEF Wake, Begin
    <3>2. /\ \A t \in Checks : pc[t] = "idle"
          /\ \A t \in Checks : t # Scheduled => pc'[t] = "idle"
          /\ Scheduled \in Checks /\ pc'[Scheduled] = "check"
      BY <3>1 DEF Checks
    <3>3. latest' = latest /\ dest' = dest /\ staged' = staged /\ failed' = failed
      BY <2>3 DEF Wake
    <3>4. \A t \in Checks : pc'[t] \notin Tagged
      BY <3>2
    <3>5. OneCheck'
      <4> SUFFICES ASSUME NEW t \in Checks, NEW u \in Checks,
                          pc'[t] # "idle", pc'[u] # "idle"
                   PROVE  t = u
        OBVIOUS
      <4> QED
        BY <3>2
    <3>6. InOrder' /\ DownloadOK'
      BY <2>0, <3>3, <3>4
    <3>7. Genuine'
      BY <2>0, <3>3
    <3>8. NotFailed'
      BY <2>0, <3>2, <3>3
    <3> QED
      BY <3>5, <3>6, <3>7, <3>8
  <2>4. CASE DropStaged
    <3>1. None \notin Versions
      BY NoneAssumption DEF Contents
    <3> QED
      BY <2>0, <2>4, <3>1 DEF DropStaged
  <2>5. CASE Publish
    <3>1. latest' = latest + 1 /\ latest \in Nat
      BY <2>5 DEF Publish
    <3>2. ASSUME NEW x \in Nat, x <= latest PROVE x <= latest' /\ x # latest'
      BY <3>1, <3>2
    <3> QED
      BY <2>0, <2>5, <3>2 DEF Publish
  <2> QED
    BY <1>2, <2>1, <2>2, <2>3, <2>4, <2>5 DEF Next
<1>3. CASE overlapped /\ ~(Launch \/ Relaunch)
  <2>1. ASSUME NEW t \in Checks, Click(t) \/ Step(t) PROVE overlapped'
    BY <1>3, <2>1 DEF Click, Begin, Step, Check, Compare, Gate, Download,
         Verify, Remove, Stage, Clear
  <2>2. CASE Wake \/ DropStaged \/ Publish
    BY <1>3, <2>2 DEF Wake, Begin, DropStaged, Publish
  <2> QED
    BY <1>3, <2>1, <2>2 DEF Next
<1> QED
  BY <1>1, <1>2, <1>3

LEMMA StagedAlways == Spec => [](TypeInv /\ UnlessOverlapped)
<1>1. Init => UnlessOverlapped
  BY DEF Init, UnlessOverlapped, StagedInv, OneCheck, InOrder, DownloadOK, Genuine,
         NotFailed, Tagged, Downloading, Idle
<1>2. ASSUME TypeInv, UnlessOverlapped, [Next]_vars PROVE UnlessOverlapped'
  <2>1. CASE Next
    BY <1>2, <2>1, ProcessStep DEF UnlessOverlapped
  <2>2. CASE UNCHANGED vars
    BY <1>2, <2>2 DEF vars, UnlessOverlapped, StagedInv, OneCheck, InOrder,
         DownloadOK, Genuine, NotFailed
  <2> QED
    BY <1>2, <2>1, <2>2
<1> QED
  BY <1>1, <1>2, TypeInvAlways, PTL DEF Spec

\* While checks do not overlap, the file behind a staged update that is still
\* the latest release is that release's executable.
THEOREM StagedStaysGenuine == Spec => []StagedIsGenuine
<1>1. UnlessOverlapped => StagedIsGenuine
  BY DEF UnlessOverlapped, StagedInv, Genuine, StagedIsGenuine
<1> QED
  BY <1>1, StagedAlways, PTL

\* While checks do not overlap, the update that is offered is on the list of
\* failures only until the check that staged it ends.
THEOREM OfferedHasNotFailed == Spec => []FailedIsNotStaged
<1>1. UnlessOverlapped => FailedIsNotStaged
  BY DEF UnlessOverlapped, StagedInv, NotFailed, FailedIsNotStaged
<1> QED
  BY <1>1, StagedAlways, PTL

-----------------------------------------------------------------------------
(* Restarts only upgrade, however checks overlap *)

\* Checks run on releases newer than what runs, and so is whatever release
\* the file holds once something is staged.
Newer ==
    /\ \A t \in Checks : pc[t] \in Tagged => version \in Versions /\ tag[t] > version
    /\ \A t \in Checks : pc[t] = "check" => version \in Versions
    /\ staged # None \/ (\E t \in Checks : pc[t] = "stage") =>
          (dest \in Versions /\ version \in Versions => dest > version)

\* What a step of one check may do to what the others rely on.
LEMMA NewerStep ==
    ASSUME TypeInv, Newer, NEW t \in Checks, Step(t) PROVE Newer'
<1> USE DEF Newer, Tagged, Goto, GiveUp, End, outside, mine
<1>0. /\ pc \in [Checks -> Label] /\ tag \in [Checks -> Versions \cup {None}]
      /\ latest \in Versions /\ None \notin Versions /\ Corrupt \notin Versions
  BY NoneAssumption DEF TypeInv, TypeOK, Contents
<1>1. CASE Check(t)
  <2>1. version' = version /\ dest' = dest /\ staged' = staged
    BY <1>1 DEF Check
  <2>2. CASE /\ latest > version /\ tag' = [tag EXCEPT ![t] = latest]
             /\ pc' = [pc EXCEPT ![t] = "compare"]
    <3>1. pc[t] = "check" /\ version \in Versions
      BY <1>1 DEF Check
    <3>2. \A u \in Checks : pc'[u] \in Tagged => tag'[u] > version
      BY <1>0, <2>2
    <3> QED
      BY <1>0, <2>1, <2>2, <3>1, <3>2
  <2>3. CASE End(t)
    BY <1>0, <2>1, <2>3
  <2> QED
    BY <1>1, <2>2, <2>3 DEF Check
<1>2. CASE Compare(t) \/ Gate(t)
  BY <1>0, <1>2 DEF Compare, Gate
<1>3. CASE Download(t)
  BY <1>0, <1>3 DEF Download
<1>4. CASE Verify(t)
  BY <1>0, <1>4 DEF Verify
<1>5. CASE Remove(t) \/ Clear(t)
  BY <1>0, <1>5 DEF Remove, Clear
<1>6. CASE Stage(t)
  BY <1>0, <1>6 DEF Stage
<1> QED
  BY <1>1, <1>2, <1>3, <1>4, <1>5, <1>6 DEF Step

LEMMA NewerAlways == Spec => [](TypeInv /\ Newer)
<1>1. Init => Newer
  BY DEF Init, Newer, Tagged, Idle
<1>2. ASSUME TypeInv, Newer, [Next]_vars PROVE Newer'
  <2> USE <1>2 DEF Newer, Tagged, Goto, outside, beyond, mine, TypeInv, TypeOK
  <2>1. ASSUME NEW t \in Checks, Click(t) \/ (t = Scheduled /\ Wake) PROVE Newer'
    <3>1. /\ pc' = [pc EXCEPT ![t] = "check"] /\ version \in Versions
          /\ UNCHANGED <<version, dest, staged, tag>>
      BY <2>1 DEF Click, Wake, Begin, Contents
    <3> QED
      BY <3>1
  <2>2. ASSUME NEW t \in Checks, Step(t) PROVE Newer'
    BY <2>2, NewerStep
  <2>3. CASE Launch \/ Relaunch
    BY <2>3 DEF Launch, Relaunch, Fresh, Idle
  <2>4. CASE DropStaged \/ Publish
    BY <2>4 DEF DropStaged, Publish
  <2>5. CASE UNCHANGED vars
    BY <2>5 DEF vars
  <2> QED
    BY <2>1, <2>2, <2>3, <2>4, <2>5 DEF Next, Checks
<1> QED
  BY <1>1, <1>2, TypeInvAlways, PTL DEF Spec

\* A restart into a release's executable is a restart into a newer release,
\* however checks overlapped and whichever of them wrote the file last.
THEOREM RestartsUpgrade == Spec => RestartIsUpgrade
<1>1. Newer /\ [Next]_vars =>
        [Launch /\ {version, version'} \subseteq Versions => version' > version]_vars
  BY DEF Newer, Launch
<1> QED
  BY <1>1, NewerAlways, PTL DEF Spec, RestartIsUpgrade

-----------------------------------------------------------------------------
(* Clicks and failed tags *)

\* A manual check has the override from its click on, unless another one took
\* it; and the override is some manual check's.
OverrideKept ==
    /\ \A t \in Manual \ robbed : pc[t] # "idle" => override
    /\ override => \E t \in Manual : pc[t] # "idle"

LEMMA OverrideAlways == Spec => [](TypeInv /\ OverrideKept)
<1>1. Init => OverrideKept
  BY DEF Init, OverrideKept, Idle, Checks
<1>2. ASSUME TypeInv, OverrideKept, [Next]_vars PROVE OverrideKept'
  <2> USE <1>2 DEF OverrideKept, Goto
  <2>0. pc \in [Checks -> Label] /\ Manual \subseteq Checks /\ Scheduled \notin Manual
        /\ robbed \in SUBSET Manual
    BY ThreadsAssumption DEF TypeInv, TypeOK, Checks
  <2>1. ASSUME NEW t \in Checks, Click(t) PROVE OverrideKept'
    <3>1. pc' = [pc EXCEPT ![t] = "check"] /\ override' = TRUE /\ t \in Manual
      BY <2>1 DEF Click, Begin
    <3> QED
      BY <2>0, <3>1
  <2>2. ASSUME NEW t \in Checks, Step(t) PROVE OverrideKept'
    <3>1. CASE End(t) /\ t \in Manual
      BY <2>0, <3>1 DEF End, Rob
    <3>2. CASE End(t) /\ t \notin Manual
      BY <2>0, <3>2 DEF End, Rob
    <3>3. CASE /\ UNCHANGED <<override, robbed>> /\ pc[t] # "idle"
               /\ \E l \in Label \ {"idle"} : pc' = [pc EXCEPT ![t] = l]
      <4>1. \A u \in Checks : pc'[u] # "idle" <=> pc[u] # "idle"
        BY <2>0, <3>3
      <4> QED
        BY <2>0, <3>3, <4>1
    <3> QED
      BY <2>2, <3>1, <3>2, <3>3
      DEF Step, Check, Compare, Gate, Download, Verify, Remove, Stage, Clear, GiveUp,
          mine, Label
  <2>3. CASE Wake
    <3>1. /\ UNCHANGED <<override, robbed>>
          /\ \A u \in Manual : pc'[u] = pc[u]
      BY <2>0, <2>3 DEF Wake, Begin, mine
    <3> QED
      BY <3>1
  <2>4. CASE Launch \/ Relaunch
    BY <2>0, <2>4 DEF Launch, Relaunch, Fresh, Idle
  <2>5. CASE DropStaged \/ Publish \/ UNCHANGED vars
    BY <2>5 DEF DropStaged, Publish, outside, mine, vars
  <2> QED
    BY <2>1, <2>2, <2>3, <2>4, <2>5 DEF Next
<1> QED
  BY <1>1, <1>2, TypeInvAlways, PTL DEF Spec

\* However many manual checks overlap, one whose override no other check took
\* back downloads its tag, also one that failed before.
THEOREM ManualIsTried == Spec => ManualTries
<1>1. TypeInv /\ OverrideKept /\ [Next]_vars =>
        [\A t \in Manual \ robbed : Gate(t) => pc'[t] = "download"]_vars
  BY DEF OverrideKept, Gate, Goto, TypeInv, TypeOK, Checks
<1> QED
  BY <1>1, OverrideAlways, PTL DEF Spec, ManualTries

\* The scheduled check downloads a failed tag again only while a check that a
\* user asked for is under way, however the checks overlap.
THEOREM FailedTagNeedsClick == Spec => FailedNeedsClick
<1>1. TypeInv /\ OverrideKept /\ [Next]_vars =>
        [Gate(Scheduled) /\ tag[Scheduled] \in failed /\ pc'[Scheduled] = "download"
         => \E t \in Manual : pc[t] # "idle"]_vars
  <2> SUFFICES ASSUME TypeInv, OverrideKept, Gate(Scheduled),
                      tag[Scheduled] \in failed, pc'[Scheduled] = "download"
               PROVE  \E t \in Manual : pc[t] # "idle"
    OBVIOUS
  <2>1. pc \in [Checks -> Label] /\ Scheduled \in Checks
    BY DEF TypeInv, TypeOK, Checks
  <2>2. ~End(Scheduled)
    BY <2>1 DEF End, Goto
  <2> QED
    BY <2>2 DEF Gate, OverrideKept
<1> QED
  BY <1>1, OverrideAlways, PTL DEF Spec, FailedNeedsClick
=============================================================================
