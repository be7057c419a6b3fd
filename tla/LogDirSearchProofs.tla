------------------------- MODULE LogDirSearchProofs -------------------------
(***************************************************************************)
(* The search returns the first directory with a log, on every disk and    *)
(* for every pair of limits.  The order of the listing is the depth-first  *)
(* order of the paths; the invariant says that the stack cuts it in two:   *)
(* what was looked into comes before every entry of the stack, and what is *)
(* still to be looked into lies below one of them.                         *)
(***************************************************************************)
EXTENDS LogDirSearch, FiniteSetTheorems, SequenceTheorems, TLAPS

Paths == Seq(Nat)

-----------------------------------------------------------------------------
(* The order of the paths *)

LEMMA PathLen == \A d \in Paths : Len(d) \in Nat
  BY DEF Paths

\* A prefix, position by position.
LEMMA PrefixIs ==
    ASSUME NEW c \in Paths, NEW d \in Paths
    PROVE  IsPrefix(c, d) <=>
              Len(c) <= Len(d) /\ \A m \in 1 .. Len(c) : c[m] = d[m]
<1>1. CASE Len(c) <= Len(d)
  <2>1. SubSeq(c, 1, Len(c)) = c
    BY DEF Paths
  <2>2. /\ SubSeq(d, 1, Len(c)) \in Seq(Nat)
        /\ Len(SubSeq(d, 1, Len(c))) = Len(c)
        /\ \A m \in 1 .. Len(c) : SubSeq(d, 1, Len(c))[m] = d[m]
    BY <1>1 DEF Paths
  <2>3. c = SubSeq(d, 1, Len(c)) <=> \A m \in 1 .. Len(c) : c[m] = d[m]
    BY <2>2 DEF Paths
  <2> QED
    BY <1>1, <2>1, <2>3 DEF IsPrefix
<1>2. CASE ~(Len(c) <= Len(d))
  BY <1>2 DEF IsPrefix
<1> QED
  BY <1>1, <1>2

LEMMA PrefixOrder ==
    ASSUME NEW b \in Paths, NEW c \in Paths, NEW d \in Paths
    PROVE  /\ IsPrefix(c, c)
           /\ IsPrefix(b, c) /\ IsPrefix(c, d) => IsPrefix(b, d)
           /\ IsPrefix(c, d) /\ IsPrefix(d, c) => c = d
<1>1. IsPrefix(c, c)
  BY PrefixIs DEF Paths
<1>2. ASSUME IsPrefix(b, c), IsPrefix(c, d) PROVE IsPrefix(b, d)
  <2>1. /\ Len(b) <= Len(c) /\ \A m \in 1 .. Len(b) : b[m] = c[m]
        /\ Len(c) <= Len(d) /\ \A m \in 1 .. Len(c) : c[m] = d[m]
    BY <1>2, PrefixIs
  <2>2. Len(b) \in Nat /\ Len(c) \in Nat /\ Len(d) \in Nat
    BY DEF Paths
  <2>3. Len(b) <= Len(d) /\ \A m \in 1 .. Len(b) : b[m] = d[m]
    BY <2>1, <2>2
  <2> QED
    BY <2>3, PrefixIs
<1>3. ASSUME IsPrefix(c, d), IsPrefix(d, c) PROVE c = d
  <2>1. /\ Len(c) <= Len(d) /\ \A m \in 1 .. Len(c) : c[m] = d[m]
        /\ Len(d) <= Len(c)
    BY <1>3, PrefixIs
  <2>2. Len(c) = Len(d)
    BY <2>1 DEF Paths
  <2> QED
    BY <2>1, <2>2, SeqEqual DEF Paths
<1> QED
  BY <1>1, <1>2, <1>3

\* Paths that part do so with everything below them.
LEMMA LeftBelow ==
    ASSUME NEW a \in Paths, NEW b \in Paths, NEW c \in Paths, NEW d \in Paths,
           LeftOf(a, b), IsPrefix(a, c), IsPrefix(b, d)
    PROVE  LeftOf(c, d)
<1>1. PICK n \in 1 .. Len(a) :
         n <= Len(b) /\ a[n] < b[n] /\ \A m \in 1 .. n - 1 : a[m] = b[m]
  BY DEF LeftOf
<1>2. /\ Len(a) <= Len(c) /\ \A m \in 1 .. Len(a) : a[m] = c[m]
      /\ Len(b) <= Len(d) /\ \A m \in 1 .. Len(b) : b[m] = d[m]
  BY PrefixIs
<1>3. n \in 1 .. Len(c) /\ n <= Len(d) /\ n \in 1 .. Len(b)
  <2>1. /\ Len(a) \in Nat /\ Len(b) \in Nat
        /\ Len(c) \in Nat /\ Len(d) \in Nat
    BY PathLen
  <2> QED
    BY <1>1, <1>2, <2>1
<1>4. c[n] < d[n]
  BY <1>1, <1>2, <1>3
<1>5. ASSUME NEW m \in 1 .. n - 1 PROVE c[m] = d[m]
  <2>1. m \in 1 .. Len(a) /\ m \in 1 .. Len(b)
    BY <1>1, <1>3, PathLen
  <2> QED
    BY <1>1, <1>2, <2>1
<1> QED
  BY <1>3, <1>4, <1>5 DEF LeftOf

LEMMA LeftParts ==
    ASSUME NEW c \in Paths, NEW d \in Paths, LeftOf(c, d)
    PROVE  ~IsPrefix(c, d) /\ ~IsPrefix(d, c) /\ ~LeftOf(d, c)
<1>1. PICK n \in 1 .. Len(c) :
         n <= Len(d) /\ c[n] < d[n] /\ \A m \in 1 .. n - 1 : c[m] = d[m]
  BY DEF LeftOf
<1>2. c[n] \in Nat /\ d[n] \in Nat /\ n \in Nat /\ n \in 1 .. Len(d)
  BY <1>1 DEF Paths
<1>3. ~IsPrefix(c, d) /\ ~IsPrefix(d, c)
  BY <1>1, <1>2, PrefixIs DEF Paths
<1>4. ASSUME NEW k \in 1 .. Len(d),
             k <= Len(c), d[k] < c[k], \A m \in 1 .. k - 1 : d[m] = c[m]
      PROVE  FALSE
  <2>1. d[k] \in Nat /\ c[k] \in Nat /\ k \in 1 .. Len(c)
    BY <1>4 DEF Paths
  <2>2. CASE k < n
    BY <2>1, <2>2, <1>1, <1>4 DEF Paths
  <2>3. CASE n < k
    BY <2>3, <1>1, <1>2, <1>4 DEF Paths
  <2>4. CASE n = k
    BY <2>1, <2>4, <1>1, <1>2, <1>4
  <2> QED
    BY <2>2, <2>3, <2>4 DEF Paths
<1> QED
  BY <1>3, <1>4 DEF LeftOf

\* What comes before a directory comes before what is below it.
LEMMA BeforeBelow ==
    ASSUME NEW b \in Paths, NEW c \in Paths, NEW d \in Paths,
           Before(b, c), IsPrefix(c, d)
    PROVE  Before(b, d)
<1>1. CASE IsStrictPrefix(b, c)
  BY <1>1, PrefixOrder DEF Before, IsStrictPrefix
<1>2. CASE LeftOf(b, c)
  BY <1>2, PrefixOrder, LeftBelow DEF Before
<1> QED
  BY <1>1, <1>2 DEF Before

LEMMA BeforeIsStrict ==
    ASSUME NEW c \in Paths, NEW d \in Paths, Before(c, d)
    PROVE  ~IsPrefix(d, c) /\ ~LeftOf(d, c)
<1>1. CASE IsStrictPrefix(c, d)
  BY <1>1, PrefixOrder, LeftParts DEF IsStrictPrefix
<1>2. CASE LeftOf(c, d)
  BY <1>2, LeftParts
<1> QED
  BY <1>1, <1>2 DEF Before

-----------------------------------------------------------------------------
(* The tree and the stack *)

\* What the disk guarantees of the paths of its directories.
LEMMA DiskFacts ==
    ASSUME TypeOK
    PROVE  /\ IsFiniteSet(Dirs(disk))
           /\ Dirs(disk) \subseteq Paths
           /\ Pending # None /\ Pending \notin Dirs(disk) /\ None \notin Dirs(disk)
           /\ max_depth \in Nat /\ max_dirs \in Nat /\ dirs_scanned \in Nat
           /\ \A d \in Dirs(disk) :
                 /\ disk.subdirs[d] \in Nat
                 /\ \A i \in 1 .. disk.subdirs[d] : Append(d, i) \in Dirs(disk)
  BY DisksAssumption, MaxDepthsAssumption, MaxDirsAssumption, ResultAssumption
     DEF TypeOK, IsDisk, Paths

\* A directory below another is that one or below a subdirectory of it.
LEMMA BelowSubdir ==
    ASSUME TypeOK, NEW c \in Dirs(disk), NEW d \in Dirs(disk),
           IsPrefix(c, d), c # d
    PROVE  /\ SubSeq(d, 1, Len(c)) = c /\ Len(c) < Len(d)
           /\ \E i \in 1 .. disk.subdirs[c] : IsPrefix(Append(c, i), d)
<1>1. c \in Paths /\ d \in Paths /\ Len(c) \in Nat /\ Len(d) \in Nat
  BY DiskFacts DEF Paths
<1>2. Len(c) <= Len(d) /\ \A m \in 1 .. Len(c) : c[m] = d[m]
  BY <1>1, PrefixIs
<1>3. Len(c) < Len(d)
  BY <1>1, <1>2 DEF Paths
<1>4. SubSeq(d, 1, Len(c)) = c
  BY <1>1, <1>2 DEF Paths
<1>5. d[Len(c) + 1] \in 1 .. disk.subdirs[c]
  <2>1. Len(c) + 1 \in 1 .. Len(d) /\ Len(c) + 1 - 1 = Len(c)
    BY <1>1, <1>3
  <2>2. IsDisk(disk)
    BY DisksAssumption DEF TypeOK
  <2>3. d[Len(c) + 1] \in 1 .. disk.subdirs[SubSeq(d, 1, Len(c) + 1 - 1)]
    BY <2>1, <2>2 DEF IsDisk
  <2> QED
    BY <2>1, <2>3, <1>4
<1>6. IsPrefix(Append(c, d[Len(c) + 1]), d)
  <2>1. d[Len(c) + 1] \in Nat
    BY <1>1, <1>3 DEF Paths
  <2> DEFINE sub == Append(c, d[Len(c) + 1])
  <2>7. sub \in Paths
    BY <1>1, <2>1 DEF Paths
  <2>2. PICK e \in Paths : e = sub
    BY <2>7
  <2>3. \A m \in 1 .. Len(c) + 1 : e[m] = d[m]
    BY <1>1, <1>2, <2>1, <2>2 DEF Paths
  <2>4. Len(e) = Len(c) + 1
    BY <1>1, <2>1, <2>2 DEF Paths
  <2>5. Len(e) <= Len(d)
    BY <1>1, <1>3, <2>4
  <2>6. IsPrefix(e, d)
    BY <1>1, <2>3, <2>4, <2>5, PrefixIs
  <2> QED
    BY <2>2, <2>6
<1> QED
  BY <1>3, <1>4, <1>5, <1>6

\* The subdirectories of a directory part from each other at once, and lie
\* below it.
LEMMA Siblings ==
    ASSUME NEW c \in Paths, NEW i \in Nat, NEW j \in Nat
    PROVE  /\ Append(c, i) \in Paths
           /\ IsStrictPrefix(c, Append(c, i))
           /\ i < j => LeftOf(Append(c, i), Append(c, j))
<1>1. PICK x \in Paths, y \in Paths : x = Append(c, i) /\ y = Append(c, j)
  <2>1. Append(c, i) \in Paths /\ Append(c, j) \in Paths
    BY DEF Paths
  <2> QED
    BY <2>1
<1>2. /\ Len(x) = Len(c) + 1 /\ Len(y) = Len(c) + 1
      /\ x[Len(c) + 1] = i /\ y[Len(c) + 1] = j
      /\ \A m \in 1 .. Len(c) : x[m] = c[m] /\ y[m] = c[m]
  BY <1>1 DEF Paths
<1>3. Len(c) \in Nat
  BY PathLen
<1>4. IsPrefix(c, x) /\ c # x
  <2>1. c # x /\ Len(c) <= Len(x) /\ \A m \in 1 .. Len(c) : c[m] = x[m]
    BY <1>2, <1>3
  <2> QED
    BY <2>1, PrefixIs
<1>5. ASSUME i < j PROVE LeftOf(x, y)
  <2>1. /\ Len(c) + 1 \in 1 .. Len(x) /\ Len(c) + 1 <= Len(y)
        /\ \A m \in 1 .. Len(c) + 1 - 1 : x[m] = y[m]
    BY <1>2, <1>3
  <2>2. x[Len(c) + 1] < y[Len(c) + 1]
    BY <1>2, <1>5
  <2> QED
    BY <2>1, <2>2 DEF LeftOf
<1> QED
  BY <1>1, <1>4, <1>5 DEF IsStrictPrefix

\* A longer path has the prefixes of the shorter one.
LEMMA AppendKeepsPrefixes ==
    ASSUME NEW c \in Paths, NEW k \in Nat, NEW n \in 0 .. Len(c)
    PROVE  SubSeq(Append(c, k), 1, n) = SubSeq(c, 1, n)
<1>1. PICK e \in Paths : e = Append(c, k)
  <2>1. Append(c, k) \in Paths
    BY DEF Paths
  <2> QED
    BY <2>1
<1>2. Len(c) \in Nat /\ Len(e) = Len(c) + 1 /\ \A m \in 1 .. Len(c) : e[m] = c[m]
  BY <1>1 DEF Paths
<1>3. \A m \in 1 .. n : m \in 1 .. Len(c) /\ m \in 1 .. Len(e) /\ e[m] = c[m]
  BY <1>2
<1>4. /\ SubSeq(e, 1, n) \in Paths /\ SubSeq(c, 1, n) \in Paths
      /\ Len(SubSeq(e, 1, n)) = n /\ Len(SubSeq(c, 1, n)) = n
      /\ \A m \in 1 .. n : SubSeq(e, 1, n)[m] = e[m] /\ SubSeq(c, 1, n)[m] = c[m]
  BY <1>2 DEF Paths
<1> QED
  BY <1>1, <1>3, <1>4, SeqEqual DEF Paths

LEMMA FrontFacts ==
    ASSUME NEW S, NEW s \in Seq(S), s # <<>>
    PROVE  /\ Front(s) \in Seq(S)
           /\ Len(Front(s)) = Len(s) - 1
           /\ \A i \in 1 .. Len(s) - 1 : Front(s)[i] = s[i]
<1>1. Len(s) \in Nat \ {0} /\ \A i \in 1 .. Len(s) - 1 : s[i] \in S
  OBVIOUS
<1>2. /\ SubSeq(s, 1, Len(s) - 1) \in Seq(S)
      /\ Len(SubSeq(s, 1, Len(s) - 1)) =
            IF 1 <= Len(s) - 1 THEN Len(s) - 1 - 1 + 1 ELSE 0
      /\ \A i \in 1 .. Len(s) - 1 - 1 + 1 :
            SubSeq(s, 1, Len(s) - 1)[i] = s[1 + i - 1]
  BY <1>1, SubSeqProperties
<1>3. \A i \in 1 .. Len(s) - 1 : SubSeq(s, 1, Len(s) - 1)[i] = s[i]
  <2> SUFFICES ASSUME NEW i \in 1 .. Len(s) - 1
               PROVE  SubSeq(s, 1, Len(s) - 1)[i] = s[i]
    OBVIOUS
  <2>1. i \in 1 .. Len(s) - 1 - 1 + 1 /\ 1 + i - 1 = i
    BY <1>1
  <2> QED
    BY <1>2, <2>1
<1>4. Len(SubSeq(s, 1, Len(s) - 1)) = Len(s) - 1
  <2>1. \A n \in Nat \ {0} :
           (IF 1 <= n - 1 THEN n - 1 - 1 + 1 ELSE 0) = n - 1
    OBVIOUS
  <2>2. Len(s) \in Nat \ {0}
    BY <1>1
  <2> QED
    BY <1>2, <2>1, <2>2
<1> QED
  BY <1>2, <1>3, <1>4 DEF Front

Entries == {Entry(d, Len(d)) : d \in Dirs(disk)}

\* The entry on top, the stack without it, and the stack after the
\* subdirectories were pushed.
LEMMA StackFacts ==
    ASSUME TypeOK, stack # <<>>
    PROVE  /\ Len(stack) \in Nat \ {0} /\ Top = stack[Len(stack)]
           /\ Top \in Entries /\ Top.dir \in Dirs(disk) /\ Top.depth = Len(Top.dir)
           /\ Front(stack) \in Seq(Entries)
           /\ Len(Front(stack)) = Len(stack) - 1
           /\ \A i \in 1 .. Len(stack) - 1 : Front(stack)[i] = stack[i]
<1>1. stack \in Seq(Entries)
  BY DEF TypeOK, Entries
<1>2. Len(stack) \in Nat \ {0} /\ Top = stack[Len(stack)] /\ Top \in Entries
  BY <1>1 DEF Top, Last
<1>3. Top.dir \in Dirs(disk) /\ Top.depth = Len(Top.dir)
  BY <1>2 DEF Entries, Entry
<1>4. /\ Front(stack) \in Seq(Entries)
      /\ Len(Front(stack)) = Len(stack) - 1
      /\ \A i \in 1 .. Len(stack) - 1 : Front(stack)[i] = stack[i]
  BY <1>1, FrontFacts
<1> QED
  BY <1>2, <1>3, <1>4

LEMMA PushedFacts ==
    ASSUME TypeOK, stack # <<>>
    PROVE  LET new == Front(stack) \o Pushed(Top)
               old == Len(stack) - 1
           IN  /\ new \in Seq(Entries)
               /\ Len(new) = old + disk.subdirs[Top.dir]
               /\ \A i \in 1 .. old : new[i] = stack[i]
               /\ \A i \in 1 .. disk.subdirs[Top.dir] :
                     new[old + i].dir =
                        Append(Top.dir, disk.subdirs[Top.dir] + 1 - i)
<1> DEFINE kids == disk.subdirs[Top.dir]
           new == Front(stack) \o Pushed(Top)
<1>1. kids \in Nat /\ Top.dir \in Paths /\ Len(Top.dir) \in Nat
  BY StackFacts, DiskFacts DEF Paths
<1>2. ASSUME NEW i \in 1 .. kids
      PROVE  Pushed(Top)[i] \in Entries
             /\ Pushed(Top)[i].dir = Append(Top.dir, kids + 1 - i)
  <2>1. kids + 1 - i \in 1 .. kids /\ kids + 1 - i \in Nat
    BY <1>1
  <2>2. Append(Top.dir, kids + 1 - i) \in Dirs(disk)
    BY <2>1, StackFacts, DiskFacts
  <2>3. Len(Append(Top.dir, kids + 1 - i)) = Top.depth + 1
    BY <2>1, <1>1, StackFacts DEF Paths
  <2>4. Pushed(Top)[i] = Entry(Append(Top.dir, kids + 1 - i), Top.depth + 1)
    BY DEF Pushed
  <2>5. Pushed(Top)[i] = [dir |-> Append(Top.dir, kids + 1 - i),
                          depth |-> Len(Append(Top.dir, kids + 1 - i))]
    BY <2>3, <2>4 DEF Entry
  <2> HIDE DEF kids
  <2>6. PICK e \in Dirs(disk) : e = Append(Top.dir, kids + 1 - i)
    BY <2>2
  <2>7. Pushed(Top)[i] = Entry(e, Len(e))
    BY <2>5, <2>6 DEF Entry
  <2>8. Entry(e, Len(e)) \in Entries /\ Entry(e, Len(e)).dir = e
    BY DEF Entries, Entry
  <2> QED
    BY <2>6, <2>7, <2>8
<1>3. Pushed(Top) \in Seq(Entries) /\ Len(Pushed(Top)) = kids
  <2>1. Pushed(Top) = [i \in 1 .. kids |-> Pushed(Top)[i]]
    BY DEF Pushed
  <2> HIDE DEF kids
  <2>2. Pushed(Top) \in [1 .. kids -> Entries]
    BY <1>2, <2>1
  <2> QED
    BY <1>1, <2>2
<1> HIDE DEF kids
<1>4. /\ new \in Seq(Entries) /\ Len(new) = Len(stack) - 1 + kids
      /\ \A i \in 1 .. Len(stack) - 1 + kids :
            new[i] = IF i <= Len(stack) - 1 THEN Front(stack)[i]
                     ELSE Pushed(Top)[i - (Len(stack) - 1)]
  <2>1. PICK f \in Seq(Entries), g \in Seq(Entries) :
           f = Front(stack) /\ g = Pushed(Top)
    BY <1>3, StackFacts
  <2>2. Len(f) = Len(stack) - 1 /\ Len(g) = kids
    BY <1>3, <2>1, StackFacts
  <2>3. /\ f \o g \in Seq(Entries) /\ Len(f \o g) = Len(f) + Len(g)
        /\ \A i \in 1 .. Len(f) + Len(g) :
              (f \o g)[i] = IF i <= Len(f) THEN f[i] ELSE g[i - Len(f)]
    BY ConcatProperties
  <2> QED
    BY <2>1, <2>2, <2>3
<1>5. \A i \in 1 .. Len(stack) - 1 : new[i] = stack[i]
  BY <1>1, <1>4, StackFacts
<1>6. \A i \in 1 .. kids : new[Len(stack) - 1 + i] = Pushed(Top)[i]
  <2> SUFFICES ASSUME NEW i \in 1 .. kids
               PROVE  new[Len(stack) - 1 + i] = Pushed(Top)[i]
    OBVIOUS
  <2>1. /\ Len(stack) - 1 + i \in 1 .. Len(stack) - 1 + kids
        /\ ~(Len(stack) - 1 + i <= Len(stack) - 1)
        /\ Len(stack) - 1 + i - (Len(stack) - 1) = i
    BY <1>1, StackFacts
  <2> QED
    BY <1>4, <2>1
<1> QED
  BY <1>2, <1>4, <1>5, <1>6 DEF kids

-----------------------------------------------------------------------------
(* Type correctness *)

\* While the search runs, the limit has not been passed.
IType == TypeOK /\ (result = Pending => dirs_scanned <= max_dirs)

LEMMA TypeInit == Init => IType
<1> SUFFICES ASSUME Init PROVE IType
  OBVIOUS
<1>1. IsDisk(disk) /\ max_dirs \in Nat
  BY DisksAssumption, MaxDirsAssumption DEF Init
<1>2. <<>> \in Dirs(disk) /\ Len(<<>>) = 0
  BY <1>1 DEF IsDisk
<1>3. Entry(<<>>, 0) \in Entries
  BY <1>2 DEF Entries
<1>4. stack \in Seq(Entries)
  BY <1>3 DEF Init
<1> QED
  BY <1>1, <1>4 DEF Init, IType, TypeOK, Entries

LEMMA TypeStep == IType /\ [Next]_vars => IType'
<1> SUFFICES ASSUME IType, [Next]_vars PROVE IType'
  OBVIOUS
<1>1. /\ stack \in Seq(Entries) /\ dirs_scanned \in Nat /\ max_dirs \in Nat
      /\ Pending # None /\ Pending \notin Dirs(disk)
  BY DiskFacts DEF IType, TypeOK, Entries
<1>2. ASSUME Running
      PROVE  Front(stack) \in Seq(Entries) /\ Top.dir \in Dirs(disk)
  BY <1>2, StackFacts DEF Running, IType
<1>3. CASE TooDeep
  BY <1>1, <1>2, <1>3 DEF TooDeep, Continue, Running, IType, TypeOK, Entries
<1>4. CASE LimitReached
  BY <1>1, <1>2, <1>4
     DEF LimitReached, Scan, Return, Running, IType, TypeOK, Entries
<1>5. CASE Unreadable
  BY <1>1, <1>2, <1>5
     DEF Unreadable, Scan, Continue, Running, IType, TypeOK, Entries
<1>6. CASE LogFound
  BY <1>1, <1>2, <1>6
     DEF LogFound, Scan, Return, Running, IType, TypeOK, Entries
<1>7. CASE Descend
  <2>1. Front(stack) \o Pushed(Top) \in Seq(Entries)
    BY <1>7, PushedFacts DEF Descend, Scan, Running, IType
  <2> QED
    BY <1>1, <1>7, <2>1
       DEF Descend, Scan, Continue, Running, IType, TypeOK, Entries
<1>8. CASE Exhausted
  BY <1>1, <1>8 DEF Exhausted, Return, IType, TypeOK, Entries
<1>9. CASE UNCHANGED vars
  BY <1>9 DEF vars, IType, TypeOK
<1> QED
  BY <1>3, <1>4, <1>5, <1>6, <1>7, <1>8, <1>9 DEF Next

\* Every variable keeps its type, on every disk.
THEOREM SearchTypeCorrect == Spec => []TypeOK
<1>1. IType => TypeOK
  BY DEF IType
<1> QED
  BY <1>1, TypeInit, TypeStep, PTL DEF Spec

-----------------------------------------------------------------------------
(* The invariant *)

\* The directories still to be looked into lie below an entry of the stack.
Ahead == {d \in Shown : \E i \in 1 .. Len(stack) : IsPrefix(stack[i].dir, d)}

Looked == Shown \ Ahead

\* Nothing above an entry is locked, and an entry is listed before those
\* that were pushed earlier.
StackOrder ==
    /\ \A i \in 1 .. Len(stack) :
          \A n \in 0 .. Len(stack[i].dir) - 1 :
             SubSeq(stack[i].dir, 1, n) \notin disk.locked
    /\ \A i, j \in 1 .. Len(stack) :
          i < j => LeftOf(stack[j].dir, stack[i].dir)

\* What was looked into held no log, and is listed before all entries.
LookedFirst ==
    \A d \in Looked :
        /\ d \notin Candidates
        /\ \A i \in 1 .. Len(stack) : Before(d, stack[i].dir)

Cut == StackOrder /\ LookedFirst /\ dirs_scanned = Cardinality(Looked)

IInv == IType /\ (result = Pending => Cut) /\ SearchFindsFirst

LEMMA ShownFacts ==
    ASSUME TypeOK
    PROVE  /\ Shown \subseteq Dirs(disk) /\ Shown \subseteq Paths
           /\ IsFiniteSet(Shown)
           /\ \A T \in SUBSET Shown : IsFiniteSet(T) /\ Cardinality(T) \in Nat
  BY DiskFacts, FS_Subset, FS_CardinalityType DEF Shown

LEMMA EntryPaths ==
    ASSUME TypeOK
    PROVE  \A i \in 1 .. Len(stack) :
              stack[i].dir \in Dirs(disk) /\ stack[i].dir \in Paths
<1>1. stack \in Seq(Entries)
  BY DEF TypeOK, Entries
<1>2. \A i \in 1 .. Len(stack) : stack[i] \in Entries
  BY <1>1
<1> QED
  BY <1>2, DiskFacts DEF Entries, Entry

\* The entry on top is the next in the order of the listing: what was looked
\* into comes before it, and what is ahead is the entry or comes after it.
LEMMA TopIsNext ==
    ASSUME TypeOK, Cut, stack # <<>>
    PROVE  /\ Top.depth <= max_depth => Top.dir \in Shown
           /\ Top.dir \notin Looked
           /\ \A i \in 1 .. Len(stack) - 1 : LeftOf(Top.dir, stack[i].dir)
           /\ \A d \in Looked : Before(d, Top.dir)
           /\ \A d \in Shown \ Looked : d = Top.dir \/ Before(Top.dir, d)
<1>1. /\ Len(stack) \in 1 .. Len(stack) /\ Top.dir = stack[Len(stack)].dir
      /\ Top.dir \in Paths /\ Top.dir \in Dirs(disk)
      /\ Top.depth = Len(Top.dir)
  BY StackFacts, EntryPaths
<1>2. Top.depth <= max_depth => Top.dir \in Shown
  BY <1>1 DEF Cut, StackOrder, Shown, Visible
<1>3. \A i \in 1 .. Len(stack) - 1 : LeftOf(Top.dir, stack[i].dir)
  <2>1. \A i \in 1 .. Len(stack) - 1 : i \in 1 .. Len(stack) /\ i < Len(stack)
    BY <1>1
  <2> QED
    BY <1>1, <2>1 DEF Cut, StackOrder
<1>4. \A d \in Looked : Before(d, Top.dir)
  BY <1>1 DEF Cut, LookedFirst
<1>5. Top.dir \notin Looked
  BY <1>1, <1>4, BeforeIsStrict, PrefixOrder
<1>6. ASSUME NEW d \in Shown \ Looked, d # Top.dir
      PROVE  Before(Top.dir, d)
  <2>1. PICK i \in 1 .. Len(stack) : IsPrefix(stack[i].dir, d)
    BY <1>6 DEF Looked, Ahead
  <2>2. d \in Paths /\ stack[i].dir \in Paths
    BY ShownFacts, EntryPaths
  <2>3. CASE i = Len(stack)
    BY <1>1, <1>6, <2>1, <2>3 DEF Before, IsStrictPrefix
  <2>4. CASE i # Len(stack)
    <3>1. LeftOf(Top.dir, stack[i].dir)
      BY <1>1, <1>3, <2>4
    <3> QED
      BY <1>1, <2>1, <2>2, <3>1, LeftBelow, PrefixOrder DEF Before
  <2> QED
    BY <2>3, <2>4
<1> QED
  BY <1>2, <1>3, <1>4, <1>5, <1>6

\* So dirs_scanned is what a complete search looks into before the entry on
\* top, and at most what it looks into before any directory ahead.
LEMMA ScannedPrecede ==
    ASSUME TypeOK, Cut, stack # <<>>
    PROVE  /\ Preceding(Top.dir) = dirs_scanned
           /\ \A d \in Shown \ Looked : Preceding(d) >= dirs_scanned
<1>1. Top.dir \in Paths
  BY StackFacts, DiskFacts
<1>2. {c \in Shown : Before(c, Top.dir)} = Looked
  <2>1. ASSUME NEW c \in Shown \ Looked PROVE ~Before(c, Top.dir)
    <3>1. c \in Paths /\ (c = Top.dir \/ Before(Top.dir, c))
      BY TopIsNext, ShownFacts
    <3>2. CASE c = Top.dir
      BY <1>1, <3>2, BeforeIsStrict, PrefixOrder
    <3>3. CASE Before(Top.dir, c)
      BY <1>1, <3>1, <3>3, BeforeIsStrict DEF Before, IsStrictPrefix
    <3> QED
      BY <3>1, <3>2, <3>3
  <2> QED
    BY <2>1, TopIsNext DEF Looked
<1>3. ASSUME NEW d \in Shown \ Looked PROVE Preceding(d) >= dirs_scanned
  <2>1. PICK i \in 1 .. Len(stack) : IsPrefix(stack[i].dir, d)
    BY <1>3 DEF Looked, Ahead
  <2>2. d \in Paths /\ stack[i].dir \in Paths
    BY ShownFacts, EntryPaths
  <2>3. \A c \in Looked : c \in Paths /\ Before(c, stack[i].dir)
    BY ShownFacts DEF Cut, LookedFirst, Looked
  <2>4. Looked \subseteq {c \in Shown : Before(c, d)}
    BY <2>1, <2>2, <2>3, BeforeBelow DEF Looked
  <2>5. IsFiniteSet({c \in Shown : Before(c, d)})
    BY ShownFacts
  <2> QED
    BY <2>4, <2>5, FS_Subset DEF Cut, Preceding
<1> QED
  BY <1>2, <1>3 DEF Cut, Preceding

\* One entry of the stack is done with: it was looked into without finding a
\* log, and what can be seen below it is now below entries of its own.
LEMMA TopTaken ==
    ASSUME TypeOK, Cut, stack # <<>>, TypeOK', StackOrder',
           UNCHANGED <<disk, max_depth>>, dirs_scanned' = dirs_scanned + 1,
           Top.dir \in Shown \ Candidates,
           \A i \in 1 .. Len(stack) - 1 : \E j \in 1 .. Len(stack') :
              stack'[j] = stack[i],
           \A j \in 1 .. Len(stack') :
              \/ \E i \in 1 .. Len(stack) - 1 : stack'[j] = stack[i]
              \/ IsStrictPrefix(Top.dir, stack'[j].dir),
           \A d \in Shown \ {Top.dir} : IsPrefix(Top.dir, d) =>
              \E j \in 1 .. Len(stack') : IsPrefix(stack'[j].dir, d)
    PROVE  Cut'
<1>1. Shown' = Shown /\ Candidates' = Candidates
  BY DEF Shown, Visible, Candidates, Dirs
<1>2. /\ Top.dir \in Paths /\ Top.dir = stack[Len(stack)].dir
      /\ Len(stack) \in Nat \ {0}
  BY StackFacts, EntryPaths
<1>3. \A j \in 1 .. Len(stack') : stack'[j].dir \in Paths
  <2>1. stack' \in Seq(Entries')
    BY DEF TypeOK, Entries
  <2>2. \A j \in 1 .. Len(stack') : stack'[j] \in Entries'
    BY <2>1
  <2>3. \A e \in Entries' : e.dir \in Dirs(disk)
    BY DEF Entries, Entry
  <2> QED
    BY <2>2, <2>3, DiskFacts
<1>4. ASSUME NEW j \in 1 .. Len(stack') PROVE Before(Top.dir, stack'[j].dir)
  <2>1. CASE \E i \in 1 .. Len(stack) - 1 : stack'[j] = stack[i]
    BY <2>1, TopIsNext DEF Before
  <2>2. CASE IsStrictPrefix(Top.dir, stack'[j].dir)
    BY <2>2 DEF Before
  <2> QED
    BY <2>1, <2>2
<1>5. Top.dir \notin Ahead'
  <2>1. \A j \in 1 .. Len(stack') : ~IsPrefix(stack'[j].dir, Top.dir)
    BY <1>2, <1>3, <1>4, BeforeIsStrict
  <2> QED
    BY <2>1 DEF Ahead
<1>6. Ahead' \subseteq Ahead
  <2> SUFFICES ASSUME NEW d \in Shown, NEW j \in 1 .. Len(stack'),
                      IsPrefix(stack'[j].dir, d)
               PROVE  d \in Ahead
    BY <1>1 DEF Ahead
  <2>1. CASE \E i \in 1 .. Len(stack) - 1 : stack'[j] = stack[i]
    BY <1>2, <2>1 DEF Ahead
  <2>2. CASE IsStrictPrefix(Top.dir, stack'[j].dir)
    <3>1. IsPrefix(Top.dir, d)
      BY <1>2, <1>3, <2>2, PrefixOrder, ShownFacts DEF IsStrictPrefix
    <3> QED
      BY <1>2, <3>1 DEF Ahead
  <2> QED
    BY <2>1, <2>2
<1>7. Ahead \ {Top.dir} \subseteq Ahead'
  <2> SUFFICES ASSUME NEW d \in Shown \ {Top.dir}, NEW i \in 1 .. Len(stack),
                      IsPrefix(stack[i].dir, d)
               PROVE  \E j \in 1 .. Len(stack') : IsPrefix(stack'[j].dir, d)
    BY <1>1 DEF Ahead
  <2>1. CASE i = Len(stack)
    BY <1>2, <2>1
  <2>2. CASE i # Len(stack)
    <3>1. i \in 1 .. Len(stack) - 1
      BY <1>2, <2>2
    <3> QED
      BY <3>1
  <2> QED
    BY <2>1, <2>2
<1>8. Looked' = Looked \cup {Top.dir}
  BY <1>1, <1>5, <1>6, <1>7 DEF Looked
<1>9. dirs_scanned' = Cardinality(Looked')
  <2>1. Top.dir \notin Looked /\ IsFiniteSet(Looked)
    BY TopIsNext, ShownFacts DEF Looked
  <2> QED
    BY <1>8, <2>1, FS_AddElement DEF Cut
<1>10. LookedFirst'
  <2> SUFFICES ASSUME NEW d \in Looked \cup {Top.dir}
               PROVE  /\ d \notin Candidates
                      /\ \A j \in 1 .. Len(stack') : Before(d, stack'[j].dir)
    BY <1>1, <1>8 DEF LookedFirst
  <2>1. CASE d = Top.dir
    BY <1>4, <2>1
  <2>2. CASE d \in Looked
    <3>1. d \notin Candidates /\ d \in Paths /\ Before(d, Top.dir)
      BY <2>2, TopIsNext, ShownFacts DEF Cut, LookedFirst, Looked
    <3>2. \A i \in 1 .. Len(stack) - 1 : Before(d, stack[i].dir)
      BY <1>2, <2>2 DEF Cut, LookedFirst
    <3>3. ASSUME NEW j \in 1 .. Len(stack') PROVE Before(d, stack'[j].dir)
      <4>1. CASE \E i \in 1 .. Len(stack) - 1 : stack'[j] = stack[i]
        BY <3>2, <4>1
      <4>2. CASE IsStrictPrefix(Top.dir, stack'[j].dir)
        BY <1>2, <1>3, <3>1, <4>2, BeforeBelow DEF IsStrictPrefix
      <4> QED
        BY <4>1, <4>2
    <3> QED
      BY <3>1, <3>3
  <2> QED
    BY <2>1, <2>2
<1> QED
  BY <1>9, <1>10 DEF Cut

LEMMA CutInit == Init => IInv
<1> SUFFICES ASSUME Init PROVE IInv
  OBVIOUS
<1>1. IType
  BY TypeInit
<1>2. /\ Len(stack) = 1 /\ stack[1].dir = <<>> /\ Len(<<>>) = 0
      /\ <<>> \in Paths
  BY DEF Init, Entry, Paths
<1>3. StackOrder
  BY <1>2 DEF StackOrder
<1>4. Looked = {}
  <2>1. \A d \in Shown : IsPrefix(<<>>, d)
    BY <1>1, <1>2, PrefixIs, PathLen, ShownFacts DEF IType
  <2> QED
    BY <1>2, <2>1 DEF Looked, Ahead
<1>5. Cut
  BY <1>3, <1>4, FS_EmptySet DEF Cut, LookedFirst, Init
<1>6. SearchFindsFirst
  BY <1>1, DiskFacts, ResultAssumption DEF SearchFindsFirst, Init, IType
<1> QED
  BY <1>1, <1>5, <1>6 DEF IInv

\* What the search is to find depends on the disk and the limits only.
LEMMA PendingFinds ==
    ASSUME IType, result' = Pending, UNCHANGED disk
    PROVE  SearchFindsFirst'
  BY DiskFacts, ResultAssumption DEF SearchFindsFirst, IType, Dirs

LEMMA SameFinds ==
    ASSUME UNCHANGED <<disk, max_depth>>
    PROVE  /\ Shown' = Shown /\ Candidates' = Candidates
           /\ \A d : Preceding(d)' = Preceding(d)
  BY DEF Shown, Visible, Candidates, Dirs, Preceding

LEMMA DropTooDeep ==
    ASSUME IType, Cut, TooDeep
    PROVE  Cut'
<1>1. TypeOK /\ stack # <<>>
  BY DEF IType, TooDeep, Running
<1>2. /\ Len(stack) \in Nat \ {0} /\ Top = stack[Len(stack)]
      /\ Top.dir \in Paths /\ Top.depth = Len(Top.dir)
      /\ Len(stack') = Len(stack) - 1
      /\ \A i \in 1 .. Len(stack) - 1 : stack'[i] = stack[i]
  BY <1>1, StackFacts, DiskFacts DEF TooDeep, Continue
<1>3. Shown' = Shown /\ Candidates' = Candidates
  BY SameFinds DEF TooDeep, Continue
<1>4. \A d \in Shown : ~IsPrefix(Top.dir, d)
  <2> SUFFICES ASSUME NEW d \in Shown, IsPrefix(Top.dir, d) PROVE FALSE
    OBVIOUS
  <2>1. d \in Paths /\ Len(d) <= max_depth /\ max_depth \in Nat
    BY <1>1, ShownFacts, DiskFacts DEF Shown, Visible
  <2>2. Len(Top.dir) <= Len(d) /\ Len(Top.dir) > max_depth
    BY <1>2, <2>1, PrefixIs DEF TooDeep
  <2> QED
    BY <1>2, <2>1, <2>2, PathLen
<1>5. Looked' = Looked
  <2>1. \A i \in 1 .. Len(stack) : i = Len(stack) \/ i \in 1 .. Len(stack')
    BY <1>2
  <2>2. \A i \in 1 .. Len(stack') : i \in 1 .. Len(stack) /\ stack'[i] = stack[i]
    BY <1>2
  <2>3. Ahead' = Ahead
    BY <1>2, <1>3, <1>4, <2>1, <2>2 DEF Ahead
  <2> QED
    BY <1>3, <2>3 DEF Looked
<1>6. \A i \in 1 .. Len(stack') : i \in 1 .. Len(stack) /\ stack'[i] = stack[i]
  BY <1>2
<1>7. UNCHANGED <<disk, dirs_scanned>>
  BY DEF TooDeep, Continue
<1> QED
  BY <1>3, <1>5, <1>6, <1>7 DEF Cut, StackOrder, LookedFirst

LEMMA DropUnreadable ==
    ASSUME IType, Cut, Unreadable, TypeOK'
    PROVE  Cut'
<1>1. /\ TypeOK /\ stack # <<>> /\ Top.depth <= max_depth
      /\ UNCHANGED <<disk, max_depth>> /\ dirs_scanned' = dirs_scanned + 1
  BY DEF IType, Unreadable, Scan, Running, Continue
<1>2. /\ Len(stack) \in Nat \ {0} /\ Top.dir \in Dirs(disk)
      /\ Len(stack') = Len(stack) - 1
      /\ \A i \in 1 .. Len(stack) - 1 : stack'[i] = stack[i]
  BY <1>1, StackFacts DEF Unreadable, Continue
<1>3. \A i \in 1 .. Len(stack') : i \in 1 .. Len(stack) /\ stack'[i] = stack[i]
  BY <1>2
<1>4. StackOrder'
  BY <1>1, <1>3 DEF Cut, StackOrder
<1>5. Top.dir \in Shown \ Candidates
  BY <1>1, TopIsNext DEF Unreadable, Candidates
<1>6. \A d \in Shown \ {Top.dir} : ~IsPrefix(Top.dir, d)
  <2> SUFFICES ASSUME NEW d \in Shown \ {Top.dir}, IsPrefix(Top.dir, d)
               PROVE  FALSE
    OBVIOUS
  <2>1. d \in Dirs(disk) /\ Len(d) \in Nat /\ Len(Top.dir) \in Nat
    BY <1>1, <1>2, ShownFacts, DiskFacts, PathLen
  <2>2. SubSeq(d, 1, Len(Top.dir)) = Top.dir /\ Len(Top.dir) < Len(d)
    BY <1>1, <1>2, <2>1, BelowSubdir
  <2>3. Len(Top.dir) \in 0 .. Len(d) - 1
    BY <2>1, <2>2
  <2> QED
    BY <2>2, <2>3 DEF Shown, Visible, Unreadable
<1> QED
  BY <1>1, <1>2, <1>3, <1>4, <1>5, <1>6, TopTaken

LEMMA DescendInto ==
    ASSUME IType, Cut, Descend, TypeOK'
    PROVE  Cut'
<1> DEFINE old == Len(stack) - 1
           kids == disk.subdirs[Top.dir]
<1>1. /\ TypeOK /\ stack # <<>> /\ Top.depth <= max_depth
      /\ UNCHANGED <<disk, max_depth>> /\ dirs_scanned' = dirs_scanned + 1
      /\ stack' = Front(stack) \o Pushed(Top)
  BY DEF IType, Descend, Scan, Running, Continue
<1>2. /\ old \in Nat /\ kids \in Nat
      /\ Top.dir \in Dirs(disk) /\ Top.dir \in Paths
      /\ Top.dir = stack[Len(stack)].dir /\ Len(stack) \in 1 .. Len(stack)
  BY <1>1, StackFacts, DiskFacts
<1>3. /\ Len(stack') = old + kids
      /\ \A i \in 1 .. old : stack'[i] = stack[i]
      /\ \A i \in 1 .. kids :
            stack'[old + i].dir = Append(Top.dir, kids + 1 - i)
  BY <1>1, PushedFacts
<1>4. Top.dir \in Shown \ Candidates
  BY <1>1, TopIsNext DEF Descend, Candidates
<1>5. ASSUME NEW i \in 1 .. Len(stack')
      PROVE  \/ i \in 1 .. old /\ i \in 1 .. Len(stack) /\ stack'[i] = stack[i]
             \/ /\ i - old \in 1 .. kids /\ kids + 1 - (i - old) \in Nat
                /\ stack'[i].dir = Append(Top.dir, kids + 1 - (i - old))
                /\ ~(i <= old)
  <2> HIDE DEF old, kids
  <2>1. CASE i <= old
    <3>1. i \in 1 .. old
      BY <1>2, <1>3, <2>1
    <3>2. i \in 1 .. Len(stack)
      BY <1>2, <3>1, StackFacts, <1>1 DEF old
    <3> QED
      BY <1>3, <3>1, <3>2
  <2>2. CASE ~(i <= old)
    <3>1. /\ i - old \in 1 .. kids /\ old + (i - old) = i
          /\ kids + 1 - (i - old) \in Nat
      BY <1>2, <1>3, <2>2
    <3> QED
      BY <1>3, <2>2, <3>1
  <2> QED
    BY <2>1, <2>2
<1>6. \A j \in 1 .. Len(stack') :
         \/ \E i \in 1 .. old : stack'[j] = stack[i]
         \/ IsStrictPrefix(Top.dir, stack'[j].dir)
  BY <1>2, <1>5, Siblings
<1>7. \A i \in 1 .. old : i \in 1 .. Len(stack') /\ stack'[i] = stack[i]
  BY <1>2, <1>3
<1>8. ASSUME NEW d \in Shown \ {Top.dir}, IsPrefix(Top.dir, d)
      PROVE  \E j \in 1 .. Len(stack') : IsPrefix(stack'[j].dir, d)
  <2>1. d \in Dirs(disk)
    BY DEF Shown
  <2>2. PICK k \in 1 .. kids : IsPrefix(Append(Top.dir, k), d)
    BY <1>1, <1>2, <1>8, <2>1, BelowSubdir
  <2> HIDE DEF old, kids
  <2>3. /\ kids + 1 - k \in 1 .. kids /\ kids + 1 - (kids + 1 - k) = k
        /\ old + (kids + 1 - k) \in 1 .. Len(stack')
    BY <1>2, <1>3
  <2>4. stack'[old + (kids + 1 - k)].dir = Append(Top.dir, k)
    BY <1>3, <2>3
  <2> QED
    BY <2>2, <2>3, <2>4
<1>9. StackOrder'
  <2>1. ASSUME NEW i \in 1 .. Len(stack'),
               NEW n \in 0 .. Len(stack'[i].dir) - 1
        PROVE  SubSeq(stack'[i].dir, 1, n) \notin disk.locked
    <3>1. CASE i \in 1 .. Len(stack) /\ stack'[i] = stack[i]
      BY <3>1 DEF Cut, StackOrder
    <3>2. CASE i - old \in 1 .. kids /\ kids + 1 - (i - old) \in Nat
               /\ stack'[i].dir = Append(Top.dir, kids + 1 - (i - old))
      <4> DEFINE k == kids + 1 - (i - old)
                 len == Len(Top.dir)
      <4>1. k \in Nat /\ len \in Nat /\ stack'[i].dir = Append(Top.dir, k)
        BY <1>2, <3>2, PathLen
      <4> HIDE DEF k
      <4>2. Len(Append(Top.dir, k)) = len + 1
        BY <1>2, <4>1 DEF Paths
      <4>3. n \in 0 .. len
        BY <4>1, <4>2
      <4>4. SubSeq(Append(Top.dir, k), 1, n) = SubSeq(Top.dir, 1, n)
        BY <1>2, <4>1, <4>3, AppendKeepsPrefixes
      <4>5. CASE n = len
        <5>1. SubSeq(Top.dir, 1, n) = Top.dir
          BY <1>2, <4>5 DEF Paths
        <5> QED
          BY <4>1, <4>4, <5>1 DEF Descend
      <4>6. CASE n # len
        <5>1. n \in 0 .. Len(Top.dir) - 1
          BY <4>1, <4>3, <4>6
        <5> QED
          BY <1>2, <4>1, <4>4, <5>1 DEF Cut, StackOrder
      <4> QED
        BY <4>5, <4>6
    <3> QED
      BY <1>5, <3>1, <3>2
  <2>2. ASSUME NEW i \in 1 .. Len(stack'), NEW j \in 1 .. Len(stack'), i < j
        PROVE  LeftOf(stack'[j].dir, stack'[i].dir)
    <3>1. CASE i \in 1 .. old /\ j \in 1 .. old
      <4>1. /\ i \in 1 .. Len(stack) /\ j \in 1 .. Len(stack)
            /\ stack'[i] = stack[i] /\ stack'[j] = stack[j]
        BY <1>2, <1>5, <3>1
      <4> QED
        BY <2>2, <4>1 DEF Cut, StackOrder
    <3>2. CASE i \in 1 .. old /\ j \notin 1 .. old
      <4>1. LeftOf(Top.dir, stack[i].dir) /\ stack'[i] = stack[i]
        BY <1>1, <1>3, <3>2, TopIsNext
      <4>2. stack[i].dir \in Paths
        BY <1>1, <1>5, <3>2, EntryPaths
      <4>3. IsPrefix(Top.dir, stack'[j].dir) /\ stack'[j].dir \in Paths
        BY <1>2, <1>5, <3>2, Siblings DEF IsStrictPrefix
      <4> QED
        BY <1>2, <4>1, <4>2, <4>3, LeftBelow, PrefixOrder
    <3>3. CASE i \notin 1 .. old
      <4>1. j \notin 1 .. old
        BY <1>2, <2>2, <3>3
      <4>2. /\ kids + 1 - (i - old) \in Nat /\ kids + 1 - (j - old) \in Nat
            /\ stack'[i].dir = Append(Top.dir, kids + 1 - (i - old))
            /\ stack'[j].dir = Append(Top.dir, kids + 1 - (j - old))
        BY <1>5, <3>3, <4>1
      <4>3. kids + 1 - (j - old) < kids + 1 - (i - old)
        <5> HIDE DEF old, kids
        <5> QED
          BY <1>2, <2>2
      <4> QED
        BY <1>2, <4>2, <4>3, Siblings
    <3> QED
      BY <3>1, <3>2, <3>3
  <2> QED
    BY <1>1, <2>1, <2>2 DEF StackOrder
<1> QED
  BY <1>1, <1>4, <1>6, <1>7, <1>8, <1>9, TopTaken

LEMMA CutStep == IInv /\ [Next]_vars => IInv'
<1> SUFFICES ASSUME IInv, [Next]_vars PROVE IInv'
  OBVIOUS
<1>1. IType /\ IType' /\ TypeOK /\ TypeOK' /\ SearchFindsFirst
  BY TypeStep DEF IInv, IType
<1>2. /\ max_dirs \in Nat /\ dirs_scanned \in Nat
      /\ None \notin Dirs(disk) /\ None # Pending /\ Pending \notin Dirs(disk)
  BY <1>1, DiskFacts
<1>3. Running => Cut /\ stack # <<>> /\ result = Pending /\ dirs_scanned <= max_dirs
  BY DEF IInv, IType, Running
<1>4. CASE TooDeep
  BY <1>1, <1>3, <1>4, DropTooDeep, PendingFinds
     DEF IInv, TooDeep, Running, Continue
<1>5. CASE Unreadable
  BY <1>1, <1>3, <1>5, DropUnreadable, PendingFinds
     DEF IInv, Unreadable, Scan, Running, Continue
<1>6. CASE Descend
  BY <1>1, <1>3, <1>6, DescendInto, PendingFinds
     DEF IInv, Descend, Scan, Running, Continue
<1>7. CASE LimitReached
  <2>1. /\ Cut /\ stack # <<>> /\ dirs_scanned >= max_dirs
        /\ result' = None /\ UNCHANGED <<disk, max_depth, max_dirs>>
    BY <1>2, <1>3, <1>7 DEF LimitReached, Scan, Return
  <2>2. ASSUME NEW d \in Candidates PROVE Preceding(d) >= max_dirs
    <3>1. d \in Shown \ Looked
      BY <2>1 DEF Cut, LookedFirst, Candidates
    <3>2. Preceding(d) >= dirs_scanned /\ Preceding(d) \in Nat
      BY <1>1, <2>1, <3>1, ScannedPrecede, ShownFacts DEF Preceding
    <3> QED
      BY <1>2, <2>1, <3>2
  <2>3. SearchFindsFirst'
    BY <1>2, <2>1, <2>2, SameFinds DEF SearchFindsFirst, Dirs
  <2> QED
    BY <1>1, <1>2, <2>1, <2>3 DEF IInv
<1>8. CASE LogFound
  <2>1. /\ Cut /\ stack # <<>> /\ dirs_scanned + 1 <= max_dirs
        /\ Top.depth <= max_depth /\ Top.dir \in disk.logs \ disk.locked
        /\ result' = Top.dir /\ UNCHANGED <<disk, max_depth, max_dirs>>
    BY <1>3, <1>8 DEF LogFound, Scan, Return
  <2>2. Top.dir \in Candidates /\ Top.dir \in Dirs(disk)
    BY <1>1, <2>1, TopIsNext, StackFacts DEF Candidates
  <2>3. \A d \in Candidates \ {Top.dir} : Before(Top.dir, d)
    BY <1>1, <2>1, TopIsNext DEF Cut, LookedFirst, Candidates
  <2>4. Preceding(Top.dir) < max_dirs
    BY <1>1, <1>2, <2>1, ScannedPrecede
  <2>5. SearchFindsFirst'
    BY <1>2, <2>1, <2>2, <2>3, <2>4, SameFinds DEF SearchFindsFirst, Dirs
  <2> QED
    BY <1>1, <1>2, <2>1, <2>2, <2>5 DEF IInv
<1>9. CASE Exhausted
  <2>1. /\ Cut /\ stack = <<>> /\ result' = None
        /\ UNCHANGED <<disk, max_depth, max_dirs>>
    BY <1>9 DEF Exhausted, Return, IInv
  <2>2. Looked = Shown
    BY <2>1 DEF Looked, Ahead
  <2>3. Candidates = {}
    BY <2>1, <2>2 DEF Cut, LookedFirst, Candidates
  <2>4. SearchFindsFirst'
    BY <1>2, <2>1, <2>3, SameFinds DEF SearchFindsFirst, Dirs
  <2> QED
    BY <1>1, <1>2, <2>1, <2>4 DEF IInv
<1>10. CASE UNCHANGED vars
  <2>1. SearchFindsFirst'
    BY <1>1, <1>10, SameFinds DEF SearchFindsFirst, vars, Dirs
  <2>2. result' = Pending => Cut'
    BY <1>10, SameFinds
       DEF IInv, vars, Cut, StackOrder, LookedFirst, Looked, Ahead
  <2> QED
    BY <1>1, <2>1, <2>2 DEF IInv
<1> QED
  BY <1>4, <1>5, <1>6, <1>7, <1>8, <1>9, <1>10 DEF Next

\* On every disk and for every pair of limits, what detect_mtgo_log_dir
\* returns is the first directory with a log in the order of the listing, if
\* fewer than max_dirs come before it, and None otherwise (config.py 101-148).
THEOREM SearchIsFirst == Spec => []SearchFindsFirst
<1>1. IInv => SearchFindsFirst
  BY DEF IInv
<1> QED
  BY <1>1, CutInit, CutStep, PTL DEF Spec

-----------------------------------------------------------------------------
(* The search ends *)

\* A step ends the search, looks into one directory more while the limit
\* permits, or drops an entry from the stack.
Advances ==
    \/ result = Pending /\ result' # Pending
    \/ dirs_scanned' = dirs_scanned + 1 /\ dirs_scanned' <= max_dirs
    \/ dirs_scanned' = dirs_scanned /\ Len(stack') < Len(stack)

\* On every disk, and however wide its directories are, each step brings the
\* search nearer to its end, in the lexicographic order of the directories
\* that may still be looked into and the entries on the stack: the two caps of
\* config.py 127-131 leave no way to go on for ever.
THEOREM SearchAdvances == Spec => [][Advances]_vars
<1>1. ASSUME IType, Next PROVE Advances
  <2>1. Len(Front(stack)) < Len(stack) \/ stack = <<>>
    BY <1>1 DEF IType, TypeOK, Front
  <2>2. CASE TooDeep
    BY <2>1, <2>2 DEF TooDeep, Running, Continue, Advances
  <2>3. CASE LimitReached
    BY <1>1, <2>3, ResultAssumption
       DEF LimitReached, Scan, Running, Return, Advances
  <2>4. CASE Unreadable \/ Descend
    BY <2>4 DEF Unreadable, Descend, Scan, Advances
  <2>5. CASE LogFound
    BY <2>5 DEF LogFound, Scan, Advances
  <2>6. CASE Exhausted
    BY <2>6, ResultAssumption DEF Exhausted, Return, Advances
  <2> QED
    BY <1>1, <2>2, <2>3, <2>4, <2>5, <2>6 DEF Next
<1> QED
  BY <1>1, TypeInit, TypeStep, PTL DEF Spec
=============================================================================
