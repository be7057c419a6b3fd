-------------------------- MODULE MatchWatchProofs --------------------------
(***************************************************************************)
(* Theorems about MatchWatch, for any files, texts and bounds.             *)
(***************************************************************************)
EXTENDS MatchWatch, TLAPS

-----------------------------------------------------------------------------
(* Type correctness *)

Times == 0 .. MaxTime

\* Beyond its type, a handler at work has what its place implies.
HandlerOK ==
    /\ handler.at # "idle" => handler.path \in Paths /\ handler.mtime \in Times
    /\ handler.at \in {"match", "upload"} => handler.match \in Match

TypeInv == TypeOK /\ HandlerOK

LEMMA IdleType == Idle \in Handler /\ Idle.at = "idle"
BY DEF Idle, Handler

LEMMA ParseType == \A t \in Contents : Parse(t) # None => Parse(t) \in Match
BY ContentsAssumption DEF Parse, Match, Text

LEMMA PayloadType ==
    \A m \in Match : Payload(m) \in [result : {"win", "loss", "draw"},
                                     format : Names \cup {"unknown"},
                                     opponent : Names \cup {None}]
BY DEF Payload, Match

LEMMA TypeInvInit == Init => TypeInv
<1> SUFFICES ASSUME Init PROVE TypeInv
  OBVIOUS
<1>1. events \in Seq(Paths)
  BY DEF Init
<1>2. file \in [Paths -> Files \cup {None}]
  BY BoundsAssumption DEF Init, Files
<1>3. handler \in Handler /\ HandlerOK
  BY IdleType DEF Init, HandlerOK
<1>4. clock \in 0 .. MaxTime /\ writes \in 0 .. MaxWrites
  BY BoundsAssumption DEF Init
<1>5. reads \in [Paths -> Nat] /\ paused \in BOOLEAN /\ left \subseteq Paths
  BY DEF Init
<1>6. /\ lastSeen \in [Paths -> (0 .. MaxTime) \cup {None}]
      /\ read \in [Paths -> Contents \cup {None}]
      /\ told = [p \in Paths |-> None]
  BY DEF Init
<1> QED
  BY <1>1, <1>2, <1>3, <1>4, <1>5, <1>6 DEF TypeInv, TypeOK

\* What happens around the handler.
LEMMA WorldType ==
    TypeInv /\ (\/ Tick \/ PauseResume
                \/ \E p \in Paths : (\E c \in Contents : Write(p, c)) \/ Remove(p))
        => TypeInv'
<1> SUFFICES ASSUME TypeInv PROVE
        (\/ Tick \/ PauseResume
         \/ \E p \in Paths : (\E c \in Contents : Write(p, c)) \/ Remove(p)) => TypeInv'
  OBVIOUS
<1> USE BoundsAssumption DEF TypeInv, TypeOK, HandlerOK, handlerVars, gameVars
<1>1. CASE Tick
  BY <1>1 DEF Tick
<1>2. CASE PauseResume
  BY <1>2 DEF PauseResume
<1>3. ASSUME NEW p \in Paths, NEW c \in Contents, Write(p, c) PROVE TypeInv'
  <2>1. [text |-> c, mtime |-> clock] \in Files
    BY DEF Files
  <2>2. events' \in Seq(Paths) /\ writes' \in 0 .. MaxWrites
    BY <1>3 DEF Write
  <2> QED
    BY <1>3, <2>1, <2>2 DEF Write
<1>4. ASSUME NEW p \in Paths, Remove(p) PROVE TypeInv'
  <2>1. writes' \in 0 .. MaxWrites
    BY <1>4 DEF Remove
  <2> QED
    BY <1>4, <2>1 DEF Remove
<1> QED
  BY <1>1, <1>2, <1>3, <1>4

LEMMA HandleType == TypeInv /\ Handle => TypeInv'
<1> SUFFICES ASSUME TypeInv, Handle PROVE TypeInv'
  OBVIOUS
<1> USE IdleType DEF TypeInv, TypeOK, HandlerOK, aside, Return, Leave, Times
<1>1. CASE Dispatch
  <2>1. Head(events) \in Paths /\ events' \in Seq(Paths)
    BY <1>1 DEF Dispatch
  <2>2. CASE file[Head(events)] = None
    BY <1>1, <2>1, <2>2 DEF Dispatch
  <2>3. CASE file[Head(events)] # None
    <3> DEFINE h == [Idle EXCEPT !.at = "check", !.path = Head(events),
                                 !.mtime = file[Head(events)].mtime]
    <3>1. file[Head(events)].mtime \in 0 .. MaxTime
      BY <2>1, <2>3 DEF Files
    <3>2. h \in Handler /\ h.at = "check" /\ h.path \in Paths /\ h.mtime \in 0 .. MaxTime
      BY <2>1, <3>1 DEF Handler, Idle
    <3>3. handler' = h
      BY <1>1, <2>3 DEF Dispatch
    <3> HIDE DEF h
    <3> QED
      BY <1>1, <2>1, <3>2, <3>3 DEF Dispatch
  <2> QED
    BY <2>2, <2>3
<1>2. CASE Check
  <2>1. [handler EXCEPT !.at = "parse"] \in Handler
    BY DEF Handler
  <2> QED
    BY <1>2, <2>1 DEF Check, Handler
<1>3. CASE ParseFile
  <2>1. handler.path \in Paths
    BY <1>3 DEF ParseFile
  <2>2. CASE Here = None
    BY <1>3, <2>2 DEF ParseFile
  <2>3. CASE Here # None
    <3>1. Here.text \in Contents
      BY <2>1, <2>3 DEF Here, Files
    <3>2. reads' \in [Paths -> Nat] /\ read' \in [Paths -> Contents \cup {None}]
          /\ left' \subseteq Paths
      <4>1. reads[handler.path] + 1 \in Nat
        BY <2>1
      <4>2. /\ reads' = [reads EXCEPT ![handler.path] = reads[handler.path] + 1]
            /\ read' = [read EXCEPT ![handler.path] = Here.text]
            /\ left' = left \ {handler.path}
        BY <1>3, <2>3 DEF ParseFile
      <4>3. reads' \in [Paths -> Nat]
        BY <4>1, <4>2
      <4> QED
        BY <2>1, <3>1, <4>2, <4>3
    <3>3. handler' \in Handler /\ HandlerOK'
      BY <1>3, <2>3, <3>1, ParseType DEF ParseFile, Handler
    <3> QED
      BY <1>3, <3>2, <3>3 DEF ParseFile
  <2> QED
    BY <2>2, <2>3
<1>4. CASE ParseFails
  BY <1>4 DEF ParseFails
<1>5. CASE OnMatch
  <2>1. [handler EXCEPT !.at = "upload"] \in Handler
    BY DEF Handler
  <2> QED
    BY <1>5, <2>1 DEF OnMatch, Handler
<1>6. CASE Upload
  BY <1>6, PayloadType DEF Upload
<1>7. CASE UploadFails
  BY <1>7 DEF UploadFails
<1> QED
  BY <1>1, <1>2, <1>3, <1>4, <1>5, <1>6, <1>7 DEF Handle

LEMMA TypeInvStep == TypeInv /\ [Next]_vars => TypeInv'
<1>1. TypeInv /\ UNCHANGED vars => TypeInv'
  BY DEF vars, gameVars, handlerVars, TypeInv, TypeOK, HandlerOK
<1> QED
  BY <1>1, WorldType, HandleType DEF Next

\* Every variable keeps its type.
THEOREM TypeCorrect == Spec => []TypeOK
<1>1. TypeInv => TypeOK
  BY DEF TypeInv
<1> QED
  BY <1>1, TypeInvInit, TypeInvStep, PTL DEF Spec

-----------------------------------------------------------------------------
(* The file at rest is the file that was reported *)

Queued(p) == \E i \in 1 .. Len(events) : events[i] = p

At(places, p) == handler.at \in places /\ handler.path = p

\* What is to hold of a file that is left alone.
Known(p) ==
    file[p] # None /\ p \notin left =>
        /\ read[p] = file[p].text
        /\ \/ Parse(read[p]) = None
           \/ told[p] = Payload(Parse(read[p]))
           \/ At({"match", "upload"}, p)

\* What the handler noted is older than the debounce, hence than any change
\* to come.
Noted ==
    \A p \in Paths :
        /\ lastSeen[p] # None => lastSeen[p] + Debounce <= clock
        /\ file[p] # None => file[p].mtime <= clock

\* A path that waits for no event was handled.
Settled == \A p \in Paths : ~Queued(p) /\ ~At({"check", "parse"}, p) => Known(p)

\* So was one that the handler would skip.
Skipped ==
    \A p \in Paths :
        /\ file[p] # None /\ lastSeen[p] # None
        /\ file[p].mtime <= lastSeen[p]
        /\ ~At({"parse"}, p)
        => Known(p)

\* The mtime in hand is that of the file, or another event is on its way.
StatTrue ==
    handler.at = "check" /\ file[handler.path] # None /\ ~Queued(handler.path)
        => handler.mtime = file[handler.path].mtime

\* The match in hand is that of the text read.
MatchTrue ==
    handler.at \in {"match", "upload"} => handler.match = Parse(read[handler.path])

ReportInv ==
    TypeInv /\ Noted /\ Settled /\ Skipped /\ StatTrue /\ MatchTrue

LEMMA ReportInvInit == Init => ReportInv
<1> SUFFICES ASSUME Init PROVE ReportInv
  OBVIOUS
<1>1. handler.at = "idle"
  BY IdleType DEF Init
<1>2. \A p \in Paths : Known(p)
  BY DEF Init, Known
<1>3. Noted
  <2> SUFFICES ASSUME NEW p \in Paths
               PROVE  lastSeen[p] = None /\ (file[p] # None => file[p].mtime <= clock)
    BY DEF Noted
  <2>1. file[p] = None \/ file[p].mtime \in {0}
    BY DEF Init
  <2> QED
    BY <2>1 DEF Init
<1> QED
  BY <1>1, <1>2, <1>3, TypeInvInit
  DEF ReportInv, Settled, Skipped, StatTrue, MatchTrue

\* A step that leaves files, texts and reports alone leaves what is known.
LEMMA SameKnown ==
    ASSUME NEW p, file' = file, read' = read, told' = told,
           Known(p), p \notin left' => p \notin left,
           At({"match", "upload"}, p) => At({"match", "upload"}, p)'
    PROVE  Known(p)'
BY DEF Known

LEMMA WorldKeeps ==
    ReportInv /\ (\/ Tick \/ PauseResume
                 \/ \E p \in Paths : (\E c \in Contents : Write(p, c)) \/ Remove(p))
        => ReportInv'
<1> SUFFICES ASSUME ReportInv PROVE
        (\/ Tick \/ PauseResume
         \/ \E p \in Paths : (\E c \in Contents : Write(p, c)) \/ Remove(p)) => ReportInv'
  OBVIOUS
<1>1. TypeInv /\ Noted /\ Settled /\ Skipped /\ StatTrue /\ MatchTrue
  BY DEF ReportInv
<1>2. CASE Tick \/ PauseResume
  <2>1. TypeInv'
    BY <1>1, <1>2, WorldType
  <2>2. /\ UNCHANGED <<file, events, handlerVars>>
        /\ clock \in Nat /\ clock' \in Nat /\ clock <= clock'
    BY <1>1, <1>2, BoundsAssumption
    DEF Tick, PauseResume, gameVars, TypeInv, TypeOK
  <2>3. Noted'
    <3> SUFFICES ASSUME NEW p \in Paths
                 PROVE  /\ lastSeen[p] # None => lastSeen[p] + Debounce <= clock'
                        /\ file[p] # None => file[p].mtime <= clock'
      BY <2>2 DEF Noted, handlerVars
    <3>1. /\ lastSeen[p] # None => lastSeen[p] \in Nat
          /\ file[p] # None => file[p].mtime \in Nat
      BY <1>1, BoundsAssumption DEF TypeInv, TypeOK, Files
    <3> QED
      BY <1>1, <2>2, <3>1, BoundsAssumption DEF Noted
  <2>4. Settled' /\ Skipped' /\ StatTrue' /\ MatchTrue'
    BY <1>1, <2>2
    DEF handlerVars, Settled, Skipped, StatTrue, MatchTrue, Known, Queued, At
  <2> QED
    BY <2>1, <2>3, <2>4 DEF ReportInv
<1>3. ASSUME NEW p \in Paths, NEW f \in Files \cup {None},
             file' = [file EXCEPT ![p] = f],
             UNCHANGED <<clock, handlerVars>>, TypeInv',
             events \in Seq(Paths),
             \/ f # None /\ f.mtime = clock /\ events' = Append(events, p)
             \/ f = None /\ events' = events
      PROVE  ReportInv'
  <2>1. \A q \in Paths : Queued(q) => Queued(q)'
    <3> SUFFICES ASSUME NEW q \in Paths, NEW i \in 1 .. Len(events), events[i] = q
                 PROVE  \E j \in 1 .. Len(events') : events'[j] = q
      BY DEF Queued
    <3>1. CASE events' = events
      BY <3>1
    <3>2. CASE events' = Append(events, p)
      <4>1. i \in 1 .. Len(events') /\ events'[i] = events[i]
        BY <1>3, <3>2
      <4> QED
        BY <4>1
    <3> QED
      BY <1>3, <3>1, <3>2
  <2>2. f # None => Queued(p)'
    <3> SUFFICES ASSUME f # None PROVE \E j \in 1 .. Len(events') : events'[j] = p
      BY DEF Queued
    <3>1. Len(events) + 1 \in 1 .. Len(events') /\ events'[Len(events) + 1] = p
      BY <1>3
    <3> QED
      BY <3>1
  <2>3. /\ file'[p] = f
        /\ \A q \in Paths \ {p} : file'[q] = file[q]
    BY <1>1, <1>3 DEF TypeInv, TypeOK
  <2>4. \A q \in Paths \ {p} : Known(q) => Known(q)'
    BY <1>3, <2>3 DEF Known, At, handlerVars
  <2>5. f = None => Known(p)'
    BY <2>3 DEF Known
  <2>6. clock \in Nat /\ (f # None => f.mtime <= clock /\ f.mtime = clock)
    BY <1>1, <1>3, BoundsAssumption DEF TypeInv, TypeOK
  <2>7. Noted'
    BY <1>1, <1>3, <2>3, <2>6 DEF Noted, handlerVars
  <2>8. Settled'
    <3> SUFFICES ASSUME NEW q \in Paths, ~Queued(q)', ~At({"check", "parse"}, q)'
                 PROVE  Known(q)'
      BY DEF Settled
    <3>1. ~Queued(q) /\ ~At({"check", "parse"}, q)
      BY <1>3, <2>1 DEF At, handlerVars
    <3>2. Known(q)
      BY <1>1, <3>1 DEF Settled
    <3> QED
      BY <2>2, <2>4, <2>5, <3>2
  <2>9. Skipped'
    <3> SUFFICES ASSUME NEW q \in Paths, file'[q] # None, lastSeen'[q] # None,
                        file'[q].mtime <= lastSeen'[q], ~At({"parse"}, q)'
                 PROVE  Known(q)'
      BY DEF Skipped
    <3>1. CASE q = p
      <4>1. lastSeen[p] \in Nat /\ lastSeen[p] + Debounce <= clock
        BY <1>1, <1>3, <3>1, BoundsAssumption DEF Noted, TypeInv, TypeOK, handlerVars
      <4>2. f # None /\ f.mtime = clock /\ f.mtime <= lastSeen[p]
        BY <1>3, <2>3, <2>6, <3>1 DEF handlerVars
      <4> QED
        BY <2>6, <4>1, <4>2, BoundsAssumption
    <3>2. CASE q # p
      <4>1. file[q] # None /\ lastSeen[q] # None /\ file[q].mtime <= lastSeen[q]
            /\ ~At({"parse"}, q)
        BY <1>3, <2>3, <3>2 DEF At, handlerVars
      <4> QED
        BY <1>1, <2>4, <3>2, <4>1 DEF Skipped
    <3> QED
      BY <3>1, <3>2
  <2>10. StatTrue'
    <3> SUFFICES ASSUME handler'.at = "check", file'[handler'.path] # None,
                        ~Queued(handler.path)'
                 PROVE  handler'.mtime = file'[handler'.path].mtime
      BY DEF StatTrue
    <3>1. handler' = handler /\ handler.path \in Paths
      BY <1>1, <1>3 DEF handlerVars, TypeInv, HandlerOK
    <3> DEFINE h == handler.path
    <3>2. h # p /\ ~Queued(h)
      <4>1. \A q : Queued(q)' <=> \E i \in 1 .. Len(events') : events'[i] = q
        BY DEF Queued
      <4>2. ~\E i \in 1 .. Len(events') : events'[i] = h
        BY <3>1 DEF Queued
      <4> QED
        BY <2>1, <2>2, <2>3, <3>1, <4>1, <4>2
    <3> QED
      BY <1>1, <2>3, <3>1, <3>2 DEF StatTrue
  <2>11. MatchTrue'
    BY <1>1, <1>3 DEF MatchTrue, handlerVars
  <2> QED
    BY <1>3, <2>7, <2>8, <2>9, <2>10, <2>11 DEF ReportInv
<1>4. ASSUME NEW p \in Paths, NEW c \in Contents, Write(p, c) PROVE ReportInv'
  <2>1. TypeInv'
    BY <1>1, <1>4, WorldType
  <2>2. [text |-> c, mtime |-> clock] \in Files
    BY <1>1 DEF Files, TypeInv, TypeOK
  <2>3. [text |-> c, mtime |-> clock] # None /\ events \in Seq(Paths)
    BY <1>1, <2>2, NoneAssumption DEF TypeInv, TypeOK
  <2> QED
    BY <1>3, <1>4, <2>1, <2>2, <2>3 DEF Write
<1>5. ASSUME NEW p \in Paths, Remove(p) PROVE ReportInv'
  <2>1. TypeInv'
    BY <1>1, <1>5, WorldType
  <2> QED
    BY <1>1, <1>3, <1>5, <2>1 DEF Remove, TypeInv, TypeOK
<1> QED
  BY <1>2, <1>4, <1>5

\* The queue without its head.
LEMMA QueuedTail ==
    ASSUME TypeInv, events # <<>>, events' = Tail(events),
           NEW q, Queued(q), q # Head(events)
    PROVE  Queued(q)'
<1>1. PICK i \in 1 .. Len(events) : events[i] = q
  BY DEF Queued
<1>2. events \in Seq(Paths) /\ i # 1
  BY <1>1 DEF TypeInv, TypeOK
<1>3. i - 1 \in 1 .. Len(events') /\ events'[i - 1] = q
  BY <1>1, <1>2
<1> QED
  BY <1>3 DEF Queued

\* The handler would skip p.
Skippable(p) ==
    file[p] # None /\ lastSeen[p] # None /\ file[p].mtime <= lastSeen[p]

\* What is left to show of a step of the handler at work on path p.
LEMMA AtWorkKeeps ==
    ASSUME ReportInv, TypeInv', UNCHANGED <<clock, file, events>>,
           NEW p \in Paths, handler.path = p, handler.at # "idle",
           handler'.at # "check", handler'.at # "idle" => handler'.path = p,
           \A q \in Paths \ {p} :
               /\ lastSeen'[q] = lastSeen[q] /\ read'[q] = read[q]
               /\ told'[q] = told[q] /\ (q \in left <=> q \in left'),
           lastSeen'[p] # None => lastSeen'[p] + Debounce <= clock,
           \/ handler'.at = "parse"
           \/ Known(p)'
           \/ Queued(p) /\ (Skippable(p)' => Known(p)'),
           MatchTrue'
    PROVE  ReportInv'
<1>1. TypeInv /\ Noted /\ Settled /\ Skipped
  BY DEF ReportInv
<1>2. \A q \in Paths \ {p} : Known(q) => Known(q)'
  BY DEF Known, At
<1>3. Queued(p) => Queued(p)'
  BY DEF Queued
<1>4. Noted'
  BY <1>1 DEF Noted
<1>5. Settled'
  <2> SUFFICES ASSUME NEW q \in Paths, ~Queued(q)', ~At({"check", "parse"}, q)'
               PROVE  Known(q)'
    BY DEF Settled
  <2>1. CASE q = p
    <3>1. handler'.at # "parse"
      BY <2>1 DEF At
    <3> QED
      BY <1>3, <2>1, <3>1
  <2>2. CASE q # p
    <3>1. ~Queued(q) /\ ~At({"check", "parse"}, q)
      BY <2>2 DEF Queued, At
    <3> QED
      BY <1>1, <1>2, <2>2, <3>1 DEF Settled
  <2> QED
    BY <2>1, <2>2
<1>6. Skipped'
  <2> SUFFICES ASSUME NEW q \in Paths, Skippable(q)', ~At({"parse"}, q)'
               PROVE  Known(q)'
    BY DEF Skipped, Skippable
  <2>1. CASE q = p
    <3>1. handler'.at # "parse"
      BY <2>1 DEF At
    <3> QED
      BY <2>1, <3>1
  <2>2. CASE q # p
    <3>1. Skippable(q) /\ ~At({"parse"}, q)
      BY <2>2 DEF Skippable, At
    <3> QED
      BY <1>1, <1>2, <2>2, <3>1 DEF Skipped, Skippable
  <2> QED
    BY <2>1, <2>2
<1>7. StatTrue'
  BY DEF StatTrue
<1> QED
  BY <1>4, <1>5, <1>6, <1>7 DEF ReportInv

LEMMA DispatchKeeps == ReportInv /\ Dispatch => ReportInv'
<1> SUFFICES ASSUME ReportInv, Dispatch PROVE ReportInv'
  OBVIOUS
<1>1. TypeInv /\ Noted /\ Settled /\ Skipped
  BY DEF ReportInv
<1>2. TypeInv'
  BY <1>1, HandleType DEF Handle
<1>3. /\ handler.at = "idle" /\ events # <<>> /\ events' = Tail(events)
      /\ UNCHANGED <<clock, file, lastSeen, read, told, left>>
  BY DEF Dispatch, aside
<1> DEFINE p == Head(events)
<1>4. p \in Paths
  BY <1>1, <1>3 DEF TypeInv, TypeOK
<1>5. \/ file[p] = None /\ handler'.at = "idle"
      \/ /\ file[p] # None /\ handler'.at = "check" /\ handler'.path = p
         /\ handler'.mtime = file[p].mtime
  BY IdleType DEF Dispatch, Idle
<1>6. \A q \in Paths : Known(q) => Known(q)'
  BY <1>3 DEF Known, At
<1>7. Noted'
  BY <1>1, <1>3 DEF Noted
<1>8. Settled'
  <2> SUFFICES ASSUME NEW q \in Paths, ~Queued(q)', ~At({"check", "parse"}, q)'
               PROVE  Known(q)'
    BY DEF Settled
  <2>1. CASE q = p
    BY <1>3, <1>5, <2>1 DEF Known, At
  <2>2. CASE q # p
    <3>1. ~Queued(q)
      BY <1>1, <1>3, <2>2, QueuedTail
    <3> QED
      BY <1>1, <1>3, <1>6, <3>1 DEF Settled, At
  <2> QED
    BY <2>1, <2>2
<1>9. Skipped'
  BY <1>1, <1>3, <1>6 DEF Skipped, At
<1>10. StatTrue'
  BY <1>3, <1>5 DEF StatTrue
<1>11. MatchTrue'
  BY <1>5 DEF MatchTrue
<1> QED
  BY <1>2, <1>7, <1>8, <1>9, <1>10, <1>11 DEF ReportInv

\* A path the handler leaves is known to be left.
LEMMA LeftKeeps ==
    ASSUME ReportInv, TypeInv', handler.at # "idle", Leave,
           NEW p \in Paths, handler.path = p,
           UNCHANGED <<clock, file, events, lastSeen, read, told>>
    PROVE  ReportInv'
<1>1. handler'.at = "idle"
  BY IdleType DEF Leave, Return
<1>2. p \in left' /\ \A q \in Paths \ {p} : q \in left <=> q \in left'
  BY DEF Leave
<1>3. Known(p)'
  BY <1>2 DEF Known
<1>4. lastSeen'[p] # None => lastSeen'[p] + Debounce <= clock
  BY DEF ReportInv, Noted
<1>5. MatchTrue'
  BY <1>1 DEF MatchTrue
<1> QED
  BY <1>1, <1>2, <1>3, <1>4, <1>5, AtWorkKeeps

LEMMA HandleKeeps == ReportInv /\ Handle => ReportInv'
<1> SUFFICES ASSUME ReportInv, Handle PROVE ReportInv'
  OBVIOUS
<1>1. TypeInv /\ Noted /\ Settled /\ Skipped /\ StatTrue /\ MatchTrue
  BY DEF ReportInv
<1>2. TypeInv'
  BY <1>1, HandleType
<1>3. CASE Dispatch
  BY <1>3, DispatchKeeps
<1>4. ASSUME ~Dispatch PROVE ReportInv'
  <2>1. handler.at # "idle" /\ handler.path \in Paths
    BY <1>1, <1>4
    DEF Handle, Check, ParseFile, ParseFails, OnMatch, Upload, UploadFails, TypeInv, HandlerOK
  <2>2. PICK p \in Paths : p = handler.path
    BY <2>1
  <2>3. lastSeen[p] # None => lastSeen[p] + Debounce <= clock
    BY <1>1 DEF Noted
  <2>4. CASE Check
    <3>1. handler.at = "check" /\ UNCHANGED <<clock, file, events, read, told>>
      BY <2>4 DEF Check, aside
    <3>2. CASE TooFresh /\ Leave /\ UNCHANGED lastSeen
      BY <1>2, <2>1, <2>2, <3>1, <3>2, LeftKeeps
    <3>3. CASE ~TooFresh /\ Seen /\ Return /\ UNCHANGED <<lastSeen, left>>
      <4>1. handler'.at = "idle"
        BY <3>3, IdleType DEF Return
      <4>2. Known(p) => Known(p)'
        BY <3>1, <3>3 DEF Known, At
      <4>3. Skippable(p) => Known(p)
        BY <1>1, <3>1 DEF Skipped, Skippable, At
      <4>4. Skippable(p)' => Skippable(p)
        BY <3>1, <3>3 DEF Skippable
      <4>5. Known(p)' \/ Queued(p)
        <5>1. ASSUME ~Queued(p), file[p] # None PROVE Skippable(p)
          BY <1>1, <2>2, <3>1, <3>3, <5>1 DEF StatTrue, Seen, Skippable
        <5>2. file[p] = None => Known(p)'
          BY <3>1 DEF Known
        <5> QED
          BY <4>2, <4>3, <5>1, <5>2
      <4>6. MatchTrue'
        BY <4>1 DEF MatchTrue
      <4> QED
        BY <1>2, <2>1, <2>2, <2>3, <3>1, <3>3, <4>1, <4>2, <4>3, <4>4, <4>5, <4>6, AtWorkKeeps
    <3>4. CASE /\ ~TooFresh /\ UNCHANGED left
               /\ lastSeen' = [lastSeen EXCEPT ![handler.path] = handler.mtime]
               /\ handler' = [handler EXCEPT !.at = "parse"]
      <4>1. handler'.at = "parse" /\ handler'.path = p
        BY <1>1, <2>2, <3>4 DEF TypeInv, TypeOK, Handler
      <4>2. /\ lastSeen'[p] = handler.mtime
            /\ \A q \in Paths \ {p} : lastSeen'[q] = lastSeen[q]
        BY <1>1, <2>2, <3>4 DEF TypeInv, TypeOK
      <4>3. handler.mtime + Debounce <= clock
        BY <1>1, <2>1, <3>4, BoundsAssumption
        DEF TooFresh, TypeInv, TypeOK, HandlerOK, Times
      <4>4. MatchTrue'
        BY <4>1 DEF MatchTrue
      <4> QED
        BY <1>2, <2>1, <2>2, <3>1, <3>4, <4>1, <4>2, <4>3, <4>4, AtWorkKeeps
    <3> QED
      BY <2>4, <3>2, <3>3, <3>4 DEF Check
  <2>5. CASE ParseFile
    <3>1. /\ handler.at = "parse"
          /\ UNCHANGED <<clock, file, events, lastSeen, told>>
      BY <2>5 DEF ParseFile, aside
    <3>2. CASE Here = None
      <4>1. handler'.at = "idle" /\ UNCHANGED <<read, left>> /\ file[p] = None
        BY <2>2, <2>5, <3>2, IdleType DEF ParseFile, Return, Here
      <4>2. Known(p)' /\ MatchTrue'
        BY <3>1, <4>1 DEF Known, MatchTrue
      <4> QED
        BY <1>2, <2>1, <2>2, <2>3, <3>1, <4>1, <4>2, AtWorkKeeps
    <3>3. CASE Here # None
      <4>1. /\ read' = [read EXCEPT ![p] = file[p].text]
            /\ left' = left \ {p}
            /\ \/ Parse(file[p].text) = None /\ handler' = Idle
               \/ handler' = [handler EXCEPT !.at = "match", !.match = Parse(file[p].text)]
        BY <2>2, <2>5, <3>3 DEF ParseFile, Here, Return
      <4>2. /\ read'[p] = file[p].text
            /\ \A q \in Paths \ {p} : read'[q] = read[q]
        BY <1>1, <4>1 DEF TypeInv, TypeOK
      <4>3. \/ Parse(read'[p]) = None /\ handler'.at = "idle"
            \/ handler'.at = "match" /\ handler'.path = p /\ handler'.match = Parse(read'[p])
        BY <1>1, <2>2, <4>1, <4>2, IdleType DEF TypeInv, TypeOK, Handler
      <4>4. Known(p)' /\ MatchTrue'
        BY <3>1, <4>2, <4>3 DEF Known, MatchTrue, At
      <4> QED
        BY <1>2, <2>1, <2>2, <2>3, <3>1, <4>1, <4>2, <4>3, <4>4, AtWorkKeeps
    <3> QED
      BY <3>2, <3>3
  <2>6. CASE ParseFails
    BY <1>2, <2>1, <2>2, <2>6, LeftKeeps DEF ParseFails, aside
  <2>7. CASE UploadFails
    BY <1>2, <2>1, <2>2, <2>7, LeftKeeps DEF UploadFails, aside
  <2>8. handler.at \in {"match", "upload"} =>
             (Known(p) \/ Queued(p)) /\ (Skippable(p) => Known(p))
    BY <1>1 DEF Settled, Skipped, Skippable, At
  <2>9. CASE OnMatch
    <3>1. /\ handler.at = "match"
          /\ UNCHANGED <<clock, file, events, lastSeen, read, told>>
      BY <2>9 DEF OnMatch, aside
    <3>2. CASE Leave
      BY <1>2, <2>1, <2>2, <3>1, <3>2, LeftKeeps
    <3>3. CASE handler' = [handler EXCEPT !.at = "upload"] /\ left' = left
      <4>1. handler'.at = "upload" /\ handler'.path = p /\ handler'.match = handler.match
        BY <1>1, <2>2, <3>3 DEF TypeInv, TypeOK, Handler
      <4>2. Known(p) => Known(p)'
        BY <3>1, <3>3, <4>1 DEF Known, At
      <4>3. Skippable(p)' => Skippable(p)
        BY <3>1 DEF Skippable
      <4>4. MatchTrue'
        BY <1>1, <2>2, <3>1, <4>1 DEF MatchTrue
      <4> QED
        BY <1>2, <2>1, <2>2, <2>3, <2>8, <3>1, <3>3, <4>1, <4>2, <4>3, <4>4, AtWorkKeeps
    <3> QED
      BY <2>9, <3>2, <3>3 DEF OnMatch
  <2>10. CASE Upload
    <3>1. /\ handler.at = "upload" /\ handler'.at = "idle"
          /\ UNCHANGED <<clock, file, events, lastSeen, read, left>>
      BY <2>10, IdleType DEF Upload, aside, Return
    <3>2. /\ told'[p] = Payload(Parse(read[p]))
          /\ \A q \in Paths \ {p} : told'[q] = told[q]
      BY <1>1, <2>2, <2>10, <3>1 DEF Upload, MatchTrue, TypeInv, TypeOK
    <3>3. Known(p) => Known(p)'
      BY <3>1, <3>2 DEF Known
    <3>4. Skippable(p)' => Skippable(p)
      BY <3>1 DEF Skippable
    <3>5. MatchTrue'
      BY <3>1 DEF MatchTrue
    <3> QED
      BY <1>2, <2>1, <2>2, <2>3, <2>8, <3>1, <3>2, <3>3, <3>4, <3>5, AtWorkKeeps
  <2> QED
    BY <1>4, <2>4, <2>5, <2>6, <2>7, <2>9, <2>10 DEF Handle
<1> QED
  BY <1>3, <1>4

LEMMA ReportInvStep == ReportInv /\ [Next]_vars => ReportInv'
<1>1. ASSUME ReportInv, UNCHANGED vars PROVE ReportInv'
  BY <1>1
  DEF vars, gameVars, handlerVars, ReportInv, Noted, Settled, Skipped, StatTrue,
      MatchTrue, Known, Queued, At, TypeInv, TypeOK, HandlerOK
<1> QED
  BY <1>1, WorldKeeps, HandleKeeps DEF Next

LEMMA ReportInvHolds == Spec => []ReportInv
BY ReportInvInit, ReportInvStep, PTL DEF Spec

\* However writes, deletions, late events and failures interleave with the
\* handler, a file it has not left was read as it is and reported as read.
THEOREM RestIsReported == Spec => []QuietMeansReported
<1>1. ReportInv => QuietMeansReported
  <2> SUFFICES ASSUME ReportInv, Quiet, NEW p \in Paths, file[p] # None, p \notin left
               PROVE  /\ read[p] = file[p].text
                      /\ Parse(read[p]) # None => told[p] = Payload(Parse(read[p]))
    BY DEF QuietMeansReported
  <2>1. handler.at = "idle" /\ ~Queued(p)
    BY IdleType DEF Quiet, Queued
  <2>2. Known(p)
    BY <2>1 DEF ReportInv, Settled, At
  <2> QED
    BY <2>1, <2>2 DEF Known, At
<1> QED
  BY <1>1, ReportInvHolds, PTL

-----------------------------------------------------------------------------
(* A change is read at most twice *)

\* A text that was read before is only looked at again under its own mtime,
\* and not at all once it was read under that.
Twice(p) ==
    /\ file[p] = None => reads[p] = 0
    /\ At({"check", "parse"}, p) /\ file[p] # None =>
           /\ handler.mtime <= file[p].mtime
           /\ reads[p] # 0 => handler.mtime = file[p].mtime
    /\ At({"parse"}, p) => lastSeen[p] = handler.mtime /\ reads[p] <= 1
    /\ reads[p] <= 2
    /\ reads[p] = 2 => lastSeen[p] # None /\ file[p].mtime <= lastSeen[p]

ReadsInv ==
    /\ ReportInv
    /\ handler.at # "idle" => handler.mtime <= clock
    /\ \A p \in Paths : Twice(p)

LEMMA ReadsInvInit == Init => ReadsInv
<1> SUFFICES ASSUME Init PROVE ReadsInv
  OBVIOUS
<1>1. handler.at = "idle"
  BY IdleType DEF Init
<1>2. ASSUME NEW p \in Paths PROVE Twice(p)
  <2>1. reads[p] = 0 /\ ~At({"check", "parse"}, p) /\ ~At({"parse"}, p)
    BY <1>1 DEF Init, At
  <2> QED
    BY <2>1 DEF Twice
<1> QED
  BY <1>1, <1>2, ReportInvInit DEF ReadsInv

LEMMA ReadsInvStep == ReadsInv /\ [Next]_vars => ReadsInv'
<1> SUFFICES ASSUME ReadsInv, [Next]_vars PROVE ReadsInv'
  OBVIOUS
<1>1. ReportInv' /\ ReportInv
  BY ReportInvStep DEF ReadsInv
<1>2. TypeInv /\ Noted /\ TypeInv'
  BY <1>1 DEF ReportInv
<1> DEFINE Goal == /\ handler'.at # "idle" => handler'.mtime <= clock'
                   /\ \A p \in Paths : Twice(p)'
<1>3. \A p \in Paths : /\ reads[p] \in Nat
                       /\ file[p] # None => file[p].mtime \in Nat
                       /\ lastSeen[p] # None => lastSeen[p] \in Nat
  BY <1>2 DEF TypeInv, TypeOK, Files
<1>4. clock \in Nat /\ (handler.at # "idle" => handler.mtime \in Nat)
  BY <1>2 DEF TypeInv, TypeOK, HandlerOK, Times
<1>5. CASE Tick
  <2>1. /\ clock' = clock + 1
        /\ UNCHANGED <<file, reads, lastSeen, handler>>
    BY <1>5 DEF Tick, handlerVars
  <2> QED
    BY <1>1, <1>4, <2>1 DEF ReadsInv, Twice, At
<1>6. CASE PauseResume \/ UNCHANGED vars
  BY <1>1, <1>6 DEF PauseResume, vars, gameVars, handlerVars, ReadsInv, Twice, At
<1>7. ASSUME NEW p \in Paths, NEW f \in Files \cup {None},
             file' = [file EXCEPT ![p] = f], reads' = [reads EXCEPT ![p] = 0],
             UNCHANGED <<clock, handlerVars>>, f # None => f.mtime = clock
      PROVE  Goal
  <2>1. /\ file'[p] = f /\ reads'[p] = 0
        /\ \A q \in Paths \ {p} : file'[q] = file[q] /\ reads'[q] = reads[q]
    BY <1>2, <1>7 DEF TypeInv, TypeOK
  <2>2. UNCHANGED <<clock, handler, lastSeen>>
    BY <1>7 DEF handlerVars
  <2>3. Twice(p)'
    BY <1>7, <2>1, <2>2 DEF ReadsInv, Twice, At
  <2>4. ASSUME NEW q \in Paths \ {p} PROVE Twice(q)'
    BY <2>1, <2>2 DEF ReadsInv, Twice, At
  <2> QED
    BY <2>2, <2>3, <2>4 DEF ReadsInv
<1>8. ASSUME NEW p \in Paths, NEW c \in Contents, Write(p, c) PROVE Goal
  <2>1. [text |-> c, mtime |-> clock] \in Files
    BY <1>2 DEF Files, TypeInv, TypeOK
  <2> QED
    BY <1>7, <1>8, <2>1 DEF Write
<1>9. ASSUME NEW p \in Paths, Remove(p) PROVE Goal
  BY <1>7, <1>9 DEF Remove
<1>10. CASE Dispatch
  <2>1. /\ handler.at = "idle" /\ Head(events) \in Paths
        /\ UNCHANGED <<clock, file, reads, lastSeen>>
    BY <1>2, <1>10 DEF Dispatch, aside, TypeInv, TypeOK
  <2>2. \/ handler'.at = "idle"
        \/ /\ handler'.at = "check" /\ handler'.path = Head(events)
           /\ file[Head(events)] # None
           /\ handler'.mtime = file[Head(events)].mtime
    BY <1>10, IdleType DEF Dispatch, Idle
  <2>3. handler'.at # "idle" => handler'.mtime <= clock'
    BY <1>2, <2>1, <2>2 DEF Noted
  <2>4. ASSUME NEW p \in Paths PROVE Twice(p)'
    BY <1>3, <2>1, <2>2 DEF ReadsInv, Twice, At
  <2>5. Goal
    BY <2>3, <2>4
  <2> QED
    BY <1>1, <2>5 DEF ReadsInv
<1>11. ASSUME Check \/ ParseFile \/ ParseFails \/ OnMatch \/ Upload \/ UploadFails
       PROVE  Goal
  <2>1. UNCHANGED <<clock, file>> /\ handler.at # "idle"
    BY <1>11 DEF Check, ParseFile, ParseFails, OnMatch, Upload, UploadFails, aside
  <2>2. handler'.at = "idle" \/ /\ handler'.path = handler.path
                                /\ handler'.mtime = handler.mtime
                                /\ handler'.at # "check"
    BY <1>2, <1>11, IdleType
    DEF Check, ParseFile, ParseFails, OnMatch, Upload, UploadFails, Return, Leave,
        TypeInv, TypeOK, Handler
  <2>3. handler'.at # "idle" => handler'.mtime <= clock'
    BY <2>1, <2>2 DEF ReadsInv
  <2>4. PICK p \in Paths : p = handler.path
    BY <1>2, <2>1 DEF TypeInv, HandlerOK
  <2>5. Twice(p) /\ reads[p] \in Nat /\ handler.mtime \in Nat
    BY <1>3, <1>4, <2>1 DEF ReadsInv
  <2>6. CASE UNCHANGED <<reads, lastSeen>> /\ handler'.at # "parse"
    <3>1. ASSUME NEW q \in Paths PROVE Twice(q)'
      BY <2>1, <2>2, <2>6 DEF ReadsInv, Twice, At
    <3> QED
      BY <2>3, <3>1
  <2>7. CASE /\ handler.at = "check" /\ ~TooFresh /\ ~Seen /\ reads' = reads
             /\ lastSeen' = [lastSeen EXCEPT ![handler.path] = handler.mtime]
             /\ handler'.at = "parse" /\ handler'.path = p /\ handler'.mtime = handler.mtime
    <3>1. /\ lastSeen'[p] = handler.mtime
          /\ \A q \in Paths \ {p} : lastSeen'[q] = lastSeen[q]
      BY <1>2, <2>4, <2>7 DEF TypeInv, TypeOK
    <3>2. reads[p] # 2
      <4>1. ASSUME reads[p] = 2 PROVE FALSE
        <5>1. /\ lastSeen[p] # None /\ file[p] # None
              /\ file[p].mtime <= lastSeen[p] /\ handler.mtime = file[p].mtime
          BY <2>4, <2>5, <2>7, <4>1 DEF Twice, At
        <5> QED
          BY <2>4, <2>7, <5>1 DEF Seen
      <4> QED
        BY <4>1
    <3>3. Twice(p)'
      BY <2>1, <2>4, <2>5, <2>7, <3>1, <3>2 DEF Twice, At
    <3>4. ASSUME NEW q \in Paths \ {p} PROVE Twice(q)'
      BY <2>1, <2>4, <2>7, <3>1 DEF ReadsInv, Twice, At
    <3> QED
      BY <2>3, <3>3, <3>4
  <2>8. CASE /\ handler.at = "parse" /\ file[p] # None /\ handler'.at # "parse"
             /\ reads' = [reads EXCEPT ![p] = reads[p] + 1] /\ UNCHANGED lastSeen
    <3>1. /\ reads'[p] = reads[p] + 1
          /\ \A q \in Paths \ {p} : reads'[q] = reads[q]
      BY <1>2, <2>8 DEF TypeInv, TypeOK
    <3>2. /\ lastSeen[p] = handler.mtime /\ reads[p] <= 1
          /\ reads[p] # 0 => handler.mtime = file[p].mtime
      BY <2>4, <2>5, <2>8 DEF Twice, At
    <3>3. lastSeen[p] # None
      BY <2>5, <3>2, NoneAssumption
    <3>4. ~At({"check", "parse"}, p)' /\ ~At({"parse"}, p)'
      BY <2>2, <2>8 DEF At
    <3>5. Twice(p)'
      BY <2>1, <2>5, <2>8, <3>1, <3>2, <3>3, <3>4 DEF Twice
    <3>6. ASSUME NEW q \in Paths \ {p} PROVE Twice(q)'
      BY <2>1, <2>2, <2>4, <2>8, <3>1 DEF ReadsInv, Twice, At
    <3> QED
      BY <2>3, <3>5, <3>6
  <2>9. CASE Check
    <3>1. CASE handler' = [handler EXCEPT !.at = "parse"] /\ ~TooFresh /\ ~Seen
               /\ lastSeen' = [lastSeen EXCEPT ![handler.path] = handler.mtime]
      <4>1. handler'.at = "parse" /\ handler'.path = p /\ handler'.mtime = handler.mtime
        BY <1>2, <2>4, <3>1 DEF TypeInv, TypeOK, Handler
      <4> QED
        BY <2>7, <2>9, <3>1, <4>1 DEF Check
    <3>2. CASE Return /\ UNCHANGED lastSeen
      BY <2>6, <2>9, <3>2, IdleType DEF Check, Return
    <3> QED
      BY <2>9, <3>1, <3>2 DEF Check, Leave
  <2>10. CASE ParseFile
    <3>1. CASE Here = None
      BY <2>6, <2>10, <3>1, IdleType DEF ParseFile, Return
    <3>2. CASE Here # None
      <4>1. file[p] # None /\ handler.at = "parse" /\ UNCHANGED lastSeen
            /\ reads' = [reads EXCEPT ![p] = reads[p] + 1]
        BY <2>4, <2>10, <3>2 DEF ParseFile, Here
      <4>2. handler'.at # "parse"
        BY <1>2, <2>10, <3>2, IdleType DEF ParseFile, Return, TypeInv, TypeOK, Handler
      <4> QED
        BY <2>8, <4>1, <4>2
    <3> QED
      BY <3>1, <3>2
  <2>11. CASE ParseFails \/ OnMatch \/ Upload \/ UploadFails
    <3>1. UNCHANGED <<reads, lastSeen>>
      BY <2>11 DEF ParseFails, OnMatch, Upload, UploadFails
    <3>2. handler'.at # "parse"
      BY <1>2, <2>11, IdleType
      DEF ParseFails, OnMatch, Upload, UploadFails, Leave, Return, TypeInv, TypeOK, Handler
    <3> QED
      BY <2>6, <3>1, <3>2
  <2> QED
    BY <1>11, <2>9, <2>10, <2>11
<1> QED
  BY <1>1, <1>5, <1>6, <1>8, <1>9, <1>10, <1>11 DEF Next, Handle, ReadsInv

\* However its events bunch up, a change of a file is read twice at most.
THEOREM TwiceAtMost == Spec => []ReadAtMostTwice
<1>1. ReadsInv => ReadAtMostTwice
  BY DEF ReadsInv, Twice, ReadAtMostTwice
<1> QED
  BY <1>1, ReadsInvInit, ReadsInvStep, PTL DEF Spec
=============================================================================
