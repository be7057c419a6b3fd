---------------------------- MODULE LogDirSearch ----------------------------
(***************************************************************************)
(* detect_mtgo_log_dir of agent/config.py: the search for the directory of *)
(* the game's logs below the root of the ClickOnce applications, with a    *)
(* limit to the depth and one to the number of directories.  One action    *)
(* per branch of the loop.                                                 *)
(*                                                                         *)
(* A directory is the path to it from the root, as the positions of its    *)
(* ancestors and its own among the subdirectories of each parent, in the   *)
(* order in which iterdir() lists those that can be examined.  A disk says *)
(* how many each directory has (subdirs), which hold a file with a name    *)
(* like Match_GameLog_*.dat (logs) and which cannot be listed (locked).    *)
(* It does not change during the search.                                   *)
(***************************************************************************)
EXTENDS Naturals, Sequences, SequencesExt, FiniteSets

CONSTANTS
    Disks,      \* what may be below the root
    MaxDepths,  \* values of the parameter max_depth
    MaxDirs,    \* values of the parameter max_dirs
    Pending,    \* the search has not returned
    None        \* Python's None

Dirs(tree) == DOMAIN tree.subdirs

\* The directories of a disk form a tree: the root is one, each has as many
\* subdirectories as the disk says, and there are no others.
IsDisk(tree) ==
    /\ IsFiniteSet(Dirs(tree))
    /\ Dirs(tree) \subseteq Seq(Nat)
    /\ <<>> \in Dirs(tree)
    /\ \A d \in Dirs(tree) :
          /\ tree.subdirs[d] \in Nat
          /\ \A i \in 1 .. tree.subdirs[d] : Append(d, i) \in Dirs(tree)
          /\ \A n \in 1 .. Len(d) :
                LET above == SubSeq(d, 1, n - 1) IN
                above \in Dirs(tree) /\ d[n] \in 1 .. tree.subdirs[above]

ASSUME DisksAssumption == \A tree \in Disks : IsDisk(tree)
ASSUME MaxDepthsAssumption == MaxDepths \subseteq Nat
ASSUME MaxDirsAssumption == MaxDirs \subseteq Nat
ASSUME ResultAssumption ==
    Pending # None /\ \A tree \in Disks : {Pending, None} \cap Dirs(tree) = {}

VARIABLES
    disk,          \* what is below the root
    max_depth,     \* the limit to the depth
    max_dirs,      \* the limit to dirs_scanned
    stack,         \* directories to look into, the next one last
    dirs_scanned,  \* how many were looked into
    result         \* what the search returned

vars == <<disk, max_depth, max_dirs, stack, dirs_scanned, result>>

-----------------------------------------------------------------------------
Entry(d, depth) == [dir |-> d, depth |-> depth]

Init ==
    /\ disk \in Disks
    /\ max_depth \in MaxDepths
    /\ max_dirs \in MaxDirs
    /\ stack = <<Entry(<<>>, 0)>>
    /\ dirs_scanned = 0
    /\ result = Pending

Top == Last(stack)

\* The loop goes on after it has popped an entry.
Continue(newStack) ==
    /\ stack' = newStack
    /\ UNCHANGED <<disk, max_depth, max_dirs, result>>

Return(answer) ==
    /\ result' = answer
    /\ UNCHANGED <<disk, max_depth, max_dirs>>

Running == result = Pending /\ stack # <<>>

\* The entry is too deep: it is dropped and not counted.
TooDeep ==
    /\ Running
    /\ Top.depth > max_depth
    /\ Continue(Front(stack))
    /\ UNCHANGED dirs_scanned

\* The entry is counted, and looked into if the limit permits.
Scan ==
    /\ Running
    /\ Top.depth <= max_depth
    /\ dirs_scanned' = dirs_scanned + 1

\* Mutant: the directory that reaches the limit is not looked into.
LimitReachedEarly ==
    /\ Scan
    /\ dirs_scanned' >= max_dirs
    /\ stack' = Front(stack)
    /\ Return(None)

LimitReached ==
    /\ Scan
    /\ dirs_scanned' > max_dirs
    /\ stack' = Front(stack)
    /\ Return(None)

\* It cannot be listed.
Unreadable ==
    /\ Scan
    /\ dirs_scanned' <= max_dirs
    /\ Top.dir \in disk.locked
    /\ Continue(Front(stack))

LogFound ==
    /\ Scan
    /\ dirs_scanned' <= max_dirs
    /\ Top.dir \in disk.logs \ disk.locked
    /\ stack' = Front(stack)
    /\ Return(Top.dir)

\* Mutant: the subdirectories are pushed in their order.
PushedForward(top) ==
    [i \in 1 .. disk.subdirs[top.dir] |->
        Entry(Append(top.dir, i), top.depth + 1)]

\* Mutant: a subdirectory is pushed with the depth of its parent.
PushedSameDepth(top) ==
    [i \in 1 .. disk.subdirs[top.dir] |->
        Entry(Append(top.dir, disk.subdirs[top.dir] + 1 - i), top.depth)]

\* The subdirectories are pushed last one first, so that the first is next.
Pushed(top) ==
    [i \in 1 .. disk.subdirs[top.dir] |->
        Entry(Append(top.dir, disk.subdirs[top.dir] + 1 - i), top.depth + 1)]

Descend ==
    /\ Scan
    /\ dirs_scanned' <= max_dirs
    /\ Top.dir \notin disk.logs \cup disk.locked
    /\ Continue(Front(stack) \o Pushed(Top))

Exhausted ==
    /\ result = Pending
    /\ stack = <<>>
    /\ Return(None)
    /\ UNCHANGED <<stack, dirs_scanned>>

Next ==
    \/ TooDeep
    \/ LimitReached
    \/ Unreadable
    \/ LogFound
    \/ Descend
    \/ Exhausted

Spec == Init /\ [][Next]_vars

-----------------------------------------------------------------------------
(* What the search is to find *)

\* d is not too deep, and every directory above it can be listed.
Visible(d) ==
    /\ Len(d) <= max_depth
    /\ \A n \in 0 .. Len(d) - 1 : SubSeq(d, 1, n) \notin disk.locked

\* The directories that a complete search has to look into.
Shown == {d \in Dirs(disk) : Visible(d)}

\* Those of them it may return.
Candidates == (Shown \cap disk.logs) \ disk.locked

\* c and d part at some directory, and c goes to the earlier subdirectory.
LeftOf(c, d) ==
    \E n \in 1 .. Len(c) :
        n <= Len(d) /\ c[n] < d[n] /\ \A m \in 1 .. n - 1 : c[m] = d[m]

\* c is listed before d, as a file manager lists directories: each before
\* what is below it, and siblings with all below in their order.
Before(c, d) == IsStrictPrefix(c, d) \/ LeftOf(c, d)

\* How many directories a complete search looks into before d.
Preceding(d) == Cardinality({c \in Shown : Before(c, d)})

\* Every variable keeps its type; the depth of an entry is that of its
\* directory.
TypeOK ==
    /\ disk \in Disks
    /\ max_depth \in MaxDepths
    /\ max_dirs \in MaxDirs
    /\ stack \in Seq({Entry(d, Len(d)) : d \in Dirs(disk)})
    /\ dirs_scanned \in 0 .. max_dirs + 1
    /\ result \in Dirs(disk) \cup {Pending, None}

\* A search that returns a directory returns the first one with a log, in the
\* order of the listing, and fewer than max_dirs come before it; one that
\* returns None leaves out no directory with a log but those with max_dirs or
\* more before them.  So a directory that is too deep takes nothing from the
\* limit, and one that cannot be listed hides what is below it and no more.
SearchFindsFirst ==
    /\ result = None => \A d \in Candidates : Preceding(d) >= max_dirs
    /\ result \in Dirs(disk) =>
          /\ result \in Candidates
          /\ \A d \in Candidates \ {result} : Before(result, d)
          /\ Preceding(result) < max_dirs
=============================================================================
