----------------------------- MODULE SelfUpdate -----------------------------
(***************************************************************************)
(* The agent's self-update (agent/updater.py and the update part of        *)
(* agent/tray.py): a scheduled check and the checks a user asks for poll   *)
(* for a release, download its executable to one fixed temporary file,     *)
(* verify it against its published checksum and stage it; the user         *)
(* restarts into it.  Each check runs on a thread of its own, and they     *)
(* share the file, the staged update and the list of failed tags.          *)
(*                                                                         *)
(* A version, its tag and the bytes of its executable are one number, 0    *)
(* for the installed agent.  An action is the code between two points      *)
(* where another thread may do something a check can notice.               *)
(***************************************************************************)
EXTENDS Naturals

CONSTANTS
    Manual,      \* threads of checks the user asked for
    Scheduled,   \* the updater thread
    MaxVersion,  \* bound: the last release
    None,        \* Python's None, and no file
    Corrupt,     \* bytes that are no release's executable
    Platforms,   \* what sys.platform may be: "win32", where apply_update
                 \* launches, or another, where it only logs
    Faults,      \* kinds of fault that may happen, of FaultKinds
    MaxFaults,   \* bound: faults
    MaxStarts    \* bound: how often the user starts the installed agent

\* "network": a request fails; "corrupt": a download is damaged or cut short;
\* "unlink": the file cannot be removed.
FaultKinds == {"network", "corrupt", "unlink"}

Versions == 0 .. MaxVersion
Contents == Versions \cup {Corrupt}
Checks == Manual \cup {Scheduled}

ASSUME BoundsAssumption == MaxVersion \in Nat /\ MaxFaults \in Nat /\ MaxStarts \in Nat
ASSUME SwitchAssumption ==
    Faults \subseteq FaultKinds /\ Platforms \subseteq STRING
ASSUME NoneAssumption == None \notin Contents /\ Corrupt \notin Versions
ASSUME ThreadsAssumption == Scheduled \notin Manual

VARIABLES
    platform,  \* sys.platform
    latest,    \* the newest release GitHub offers
    version,   \* what runs: current_version()
    home,      \* where it runs from: "installed", or "dest" after an update
    dest,      \* the bytes of Manalog_update.exe
    staged,    \* _staged_update_tag; None also stands for no _staged_update
    failed,    \* _failed_update_tags
    override,  \* _manual_check_override
    pc,        \* where each check is
    tag,       \* the tag each check works on, None when it has none
    overlapped, \* history: in this process a check began while another ran
    robbed,    \* history: manual checks under way whose override another one
               \* took back when it ended
    faults, starts  \* how much of each bound is used

vars == <<platform, latest, version, home, dest, staged, failed, override, pc,
          tag, overlapped, robbed, faults, starts>>

Windows == platform = "win32"

\* What a check leaves alone.
outside == <<platform, latest, version, home, overlapped, starts>>

\* What it leaves alone when it begins.
beyond == <<platform, latest, version, home, starts>>

\* What it leaves alone until it ends.
mine == <<override, robbed, tag>>

-----------------------------------------------------------------------------
Label == {"idle", "check", "compare", "gate", "download", "verify", "remove",
          "stage", "clear"}

Idle == [t \in Checks |-> "idle"]

Init ==
    /\ platform \in Platforms
    /\ latest = 0
    /\ version = 0
    /\ home = "installed"
    /\ dest = None
    /\ staged = None
    /\ failed = {}
    /\ override = FALSE
    /\ pc = Idle
    /\ tag = [t \in Checks |-> None]
    /\ overlapped = FALSE
    /\ robbed = {}
    /\ faults = 0 /\ starts = 0

Goto(t, label) == pc' = [pc EXCEPT ![t] = label]

\* A fault of this kind happens.
Fault(kind) == kind \in Faults /\ faults < MaxFaults /\ faults' = faults + 1

\* The other manual checks under way lose the override with this one's end.
Rob(t) ==
    robbed' = IF t \in Manual
              THEN (robbed \cup {m \in Manual : pc[m] # "idle"}) \ {t}
              ELSE robbed

\* Mutant: the override outlives the check.
EndKeepsOverride(t) ==
    /\ Goto(t, "idle")
    /\ tag' = [tag EXCEPT ![t] = None]
    /\ override' = override
    /\ Rob(t)

\* The check is over; a manual one takes back the override they all share.
End(t) ==
    /\ Goto(t, "idle")
    /\ tag' = [tag EXCEPT ![t] = None]
    /\ override' = IF t \in Manual THEN FALSE ELSE override
    /\ Rob(t)

\* The check failed: its tag is remembered.
GiveUp(t) ==
    /\ failed' = failed \cup {tag[t]}
    /\ End(t)

-----------------------------------------------------------------------------
(* A check *)

\* A thread for the check is started, whatever other checks run.
Begin(t) ==
    /\ pc[t] = "idle"
    /\ version # Corrupt
    /\ overlapped' = (overlapped \/ pc # Idle)
    /\ Goto(t, "check")

\* Mutant: a manual check is like a scheduled one.
ClickWithoutOverride(t) ==
    /\ t \in Manual
    /\ Begin(t)
    /\ UNCHANGED <<beyond, mine, dest, staged, failed, faults>>

\* The user picks "Check for Updates".
Click(t) ==
    /\ t \in Manual
    /\ Begin(t)
    /\ override' = TRUE
    /\ UNCHANGED <<beyond, dest, staged, failed, tag, robbed, faults>>

\* The updater thread starts, or its interval is over.
Wake ==
    /\ Begin(Scheduled)
    /\ UNCHANGED <<beyond, mine, dest, staged, failed, faults>>

\* Mutant: a release that is not older than the running version is newer.
CheckNotOlder(t) ==
    /\ pc[t] = "check"
    /\ \/ /\ latest >= version
          /\ tag' = [tag EXCEPT ![t] = latest]
          /\ Goto(t, "compare")
          /\ UNCHANGED <<override, robbed, faults>>
       \/ /\ latest < version \/ Fault("network")
          /\ latest < version => UNCHANGED faults
          /\ End(t)
    /\ UNCHANGED <<outside, dest, staged, failed>>

\* check_for_update: a newer release, or nothing to do.
Check(t) ==
    /\ pc[t] = "check"
    /\ \/ /\ latest > version
          /\ tag' = [tag EXCEPT ![t] = latest]
          /\ Goto(t, "compare")
          /\ UNCHANGED <<override, robbed, faults>>
       \/ latest <= version /\ End(t) /\ UNCHANGED faults
       \/ Fault("network") /\ End(t)
    /\ UNCHANGED <<outside, dest, staged, failed>>


\* A tag that is staged already needs no download.
Compare(t) ==
    /\ pc[t] = "compare"
    /\ \/ staged = tag[t] /\ End(t)
       \/ staged # tag[t] /\ Goto(t, "gate") /\ UNCHANGED mine
    /\ UNCHANGED <<outside, dest, staged, failed, faults>>

\* A tag that failed before is skipped, unless the override is set.
Gate(t) ==
    /\ pc[t] = "gate"
    /\ \/ tag[t] \in failed /\ ~override /\ End(t)
       \/ (tag[t] \notin failed \/ override) /\ Goto(t, "download") /\ UNCHANGED mine
    /\ UNCHANGED <<outside, dest, staged, failed, faults>>

\* download_and_verify, first half: the executable arrives, whole or not, or
\* does not, and dest.write_bytes puts it over what was there.  Windows does not
\* let a running executable be written.
Download(t) ==
    /\ pc[t] = "download"
    /\ \/ /\ ~(Windows /\ home = "dest")
          /\ \/ dest' = tag[t] /\ UNCHANGED faults
             \/ dest' = Corrupt /\ Fault("corrupt")
          /\ Goto(t, "verify") /\ UNCHANGED <<mine, failed>>
       \/ /\ \/ Windows /\ home = "dest" /\ UNCHANGED faults
             \/ Fault("network")
          /\ GiveUp(t) /\ UNCHANGED dest
    /\ UNCHANGED <<outside, staged>>

\* Mutant: any file that can be read passes.
VerifyPresent(t) ==
    /\ pc[t] = "verify"
    /\ \/ dest # None /\ Goto(t, "stage") /\ UNCHANGED <<mine, failed>>
       \/ dest = None /\ GiveUp(t)
    /\ UNCHANGED <<outside, dest, staged, faults>>

\* Second half: the checksum arrives, or the file is left as it is;
\* dest.read_bytes() and the comparison of what was read, whoever wrote it.  A
\* missing file raises.
Verify(t) ==
    /\ pc[t] = "verify"
    /\ \/ dest = tag[t] /\ Goto(t, "stage") /\ UNCHANGED <<mine, failed, faults>>
       \/ dest \notin {tag[t], None} /\ Goto(t, "remove") /\ UNCHANGED <<mine, failed, faults>>
       \/ dest = None /\ GiveUp(t) /\ UNCHANGED faults
       \/ Fault("network") /\ GiveUp(t)
    /\ UNCHANGED <<outside, dest, staged>>

\* dest.unlink() after a mismatch, whatever the file holds by now; that it
\* cannot be removed is ignored.
Remove(t) ==
    /\ pc[t] = "remove"
    /\ \/ dest' = None /\ UNCHANGED faults
       \/ dest' = dest /\ Fault("unlink")
    /\ GiveUp(t)
    /\ UNCHANGED <<outside, staged>>

\* Mutant: what the file holds is taken for its tag.
StageDest(t) ==
    /\ pc[t] = "stage"
    /\ staged' = dest
    /\ Goto(t, "clear")
    /\ UNCHANGED <<outside, mine, dest, failed, faults>>

\* The file is verified: stage it.
Stage(t) ==
    /\ pc[t] = "stage"
    /\ staged' = tag[t]
    /\ Goto(t, "clear")
    /\ UNCHANGED <<outside, mine, dest, failed, faults>>

\* Mutant: a success does not clear an earlier failure.
ClearNothing(t) ==
    /\ pc[t] = "clear"
    /\ End(t)
    /\ UNCHANGED <<outside, dest, staged, failed, faults>>

\* The staged tag has not failed any more.
Clear(t) ==
    /\ pc[t] = "clear"
    /\ failed' = failed \ {tag[t]}
    /\ End(t)
    /\ UNCHANGED <<outside, dest, staged, faults>>

Step(t) ==
    \/ Check(t)
    \/ Compare(t)
    \/ Gate(t)
    \/ Download(t)
    \/ Verify(t)
    \/ Remove(t)
    \/ Stage(t)
    \/ Clear(t)

-----------------------------------------------------------------------------
(* The user and the world *)

\* A process begins with nothing staged and no check running.
Fresh ==
    /\ staged' = None
    /\ failed' = {}
    /\ override' = FALSE
    /\ pc' = Idle
    /\ tag' = [t \in Checks |-> None]
    /\ overlapped' = FALSE
    /\ robbed' = {}

\* "Restart to Update" on Windows: the file at the staged path is launched and
\* this process ends.  With no file there the launch raises and nothing
\* changes.
Launch ==
    /\ Windows
    /\ staged # None
    /\ dest # None
    /\ version' = dest
    /\ home' = "dest"
    /\ Fresh
    /\ UNCHANGED <<platform, latest, dest, faults, starts>>

\* "Restart to Update" elsewhere: the staged update is dropped.
DropStaged ==
    /\ ~Windows
    /\ staged # None
    /\ staged' = None
    /\ UNCHANGED <<outside, mine, dest, failed, pc, faults>>

\* The agent ends and the user starts the one that was installed.
Relaunch ==
    /\ starts < MaxStarts
    /\ starts' = starts + 1
    /\ version' = 0
    /\ home' = "installed"
    /\ Fresh
    /\ UNCHANGED <<platform, latest, dest, faults>>

Publish ==
    /\ latest < MaxVersion
    /\ latest' = latest + 1
    /\ UNCHANGED <<mine, platform, version, home, starts, dest, staged, failed,
                   pc, overlapped, faults>>

Next ==
    \/ \E t \in Checks : Click(t) \/ Step(t)
    \/ Wake
    \/ Launch
    \/ DropStaged
    \/ Relaunch
    \/ Publish

Spec == Init /\ [][Next]_vars

\* The threads run and the interval ends.  No click is promised, no release
\* and no restart.
FairSpec ==
    /\ Spec
    /\ \A t \in Checks : WF_vars(Step(t))
    /\ WF_vars(Wake)

-----------------------------------------------------------------------------
(* Properties *)

\* Every variable keeps its type.
TypeOK ==
    /\ platform \in Platforms
    /\ latest \in Versions
    /\ version \in Contents
    /\ home \in {"installed", "dest"}
    /\ dest \in Contents \cup {None}
    /\ staged \in Versions \cup {None}
    /\ failed \in SUBSET Versions
    /\ override \in BOOLEAN
    /\ pc \in [Checks -> Label]
    /\ tag \in [Checks -> Versions \cup {None}]
    /\ overlapped \in BOOLEAN
    /\ robbed \in SUBSET Manual
    /\ faults \in Nat /\ starts \in Nat

\* While checks do not overlap, a staged update that is still the latest
\* release is the executable its tag names, as downloaded and verified, through
\* failed downloads, damaged ones, retries and restarts.
StagedIsGenuine ==
    ~overlapped /\ staged # None /\ staged = latest => dest = staged

\* While checks do not overlap, a tag that is offered is not one to be
\* skipped, once its check is over.
FailedIsNotStaged ==
    ~overlapped /\ staged \in failed => \E t \in Checks : pc[t] = "clear"

\* A restart into a release always moves to a newer one, never back and never
\* to the version that runs.
RestartIsUpgrade ==
    [][Launch /\ {version, version'} \subseteq Versions => version' > version]_vars

\* A manual check downloads a tag that failed before (tray.py 97-99: "or until
\* user explicitly clicks Check for Updates"), unless another manual check
\* ended after its click and took away the override they share (tray.py 454).
ManualTries == [][\A t \in Manual \ robbed : Gate(t) => pc'[t] = "download"]_vars

\* Only a click brings a failed tag back: the scheduled check takes one up only
\* under the override of a manual check that is under way.  The comment at
\* tray.py 97-99 has such a tag skipped "until next scheduled check"; the code
\* skips it at every scheduled check of the process.
FailedNeedsClick ==
    [][Gate(Scheduled) /\ tag[Scheduled] \in failed /\ pc'[Scheduled] = "download"
       => \E t \in Manual : pc[t] # "idle"]_vars

\* docs/design/self-update-mechanism.md 78: "no code runs until the exe's
\* SHA256 matches".
OnlyVerifiedRuns == version # Corrupt

\* The installed agent runs and is behind the latest release.
Behind == home = "installed" /\ version < latest

\* A check that the user asked for has begun.
Asked == \E t \in Manual : pc[t] = "check"

=============================================================================
