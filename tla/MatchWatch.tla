----------------------------- MODULE MatchWatch -----------------------------
(***************************************************************************)
(* The way of a match result to the server: the watcher of the log         *)
(* directory (agent/watcher.py), the parser of text logs                   *)
(* (agent/parser.py), and the upload by the tray (agent/tray.py) or by the *)
(* Windows service (agent/service.py) through the sender.                  *)
(*                                                                         *)
(* One thread of the observer handles one event after the other.  It looks *)
(* at a file three times, for its mtime, for its text and, in between, at  *)
(* the clock, while the game goes on writing.  The module is about one     *)
(* watcher from its start to its stop.  Time goes by in seconds, and the   *)
(* mtime of a file is the time it was written.                             *)
(***************************************************************************)
EXTENDS Naturals, Sequences

CONSTANTS
    Paths,      \* .dat and .log files under the watched directory
    Contents,   \* texts they may hold, of Text
    Names,      \* formats and opponents a text may name
    None,       \* Python's None: no file, no match, nothing found
    Debounce,   \* DEBOUNCE_SECONDS
    MaxTime,    \* bound: the clock
    MaxWrites   \* bound: changes the game makes to the directory

ASSUME BoundsAssumption == Debounce \in Nat \ {0} /\ MaxTime \in Nat /\ MaxWrites \in Nat

\* A text, by what the four patterns of the parser find in it.
Text == [wins : BOOLEAN, loses : BOOLEAN, format : Names \cup {None},
         opponent : Names \cup {None}]

ASSUME ContentsAssumption == Contents \subseteq Text
VARIABLES
    clock,     \* time.time()
    file,      \* what is at each path: its text and mtime, or None
    events,    \* the observer's queue
    lastSeen,  \* _last_seen
    handler,   \* where _handle is, and its locals
    paused,    \* the tray's _paused
    read,      \* history: the text last read from each path
    reads,     \* history: how often the present text was read
    told,      \* history: what the server last accepted about each path
    left,      \* history: paths the handler last left unread or unreported
    writes     \* how much of the bound is used

gameVars == <<clock, file, events, reads, writes>>
handlerVars == <<lastSeen, handler, read, told, left>>
vars == <<gameVars, handlerVars, paused>>

-----------------------------------------------------------------------------
(* The parser and the payload *)

Found(t) == {t.format, t.opponent} \ {None}

\* parse_text_log, which parse_file falls back to because parse_dat_file
\* finds nothing in any file.  The match id, new each time, is left out.
Parse(t) ==
    IF ~t.wins /\ ~t.loses /\ Found(t) = {} THEN None
    ELSE [result |-> IF t.wins THEN "win" ELSE IF t.loses THEN "loss" ELSE None,
          format |-> t.format, opponent |-> t.opponent]

\* Mutant: what was not found is sent as it is.
PayloadAsFound(m) == m

\* _build_upload_payload.
Payload(m) ==
    [result |-> IF m.result = None THEN "draw" ELSE m.result,
     format |-> IF m.format = None THEN "unknown" ELSE m.format,
     opponent |-> m.opponent]

Match == [result : {"win", "loss", None}, format : Names \cup {None},
          opponent : Names \cup {None}]

-----------------------------------------------------------------------------
Files == [text : Contents, mtime : 0 .. MaxTime]

ASSUME NoneAssumption ==
    None \notin Paths \cup Contents \cup Names \cup Nat \cup Files

Handler == [at : {"idle", "check", "parse", "match", "upload"},
            path : Paths \cup {None}, mtime : (0 .. MaxTime) \cup {None},
            match : Match \cup {None}]

Idle == [at |-> "idle", path |-> None, mtime |-> None, match |-> None]

\* The watcher starts on a directory as it finds it: there is no first scan.
Init ==
    /\ clock = 0
    /\ file \in [Paths -> {None} \cup [text : Contents, mtime : {0}]]
    /\ events = <<>>
    /\ lastSeen = [p \in Paths |-> None]
    /\ handler = Idle
    /\ paused = FALSE
    /\ read = [p \in Paths |-> None]
    /\ reads = [p \in Paths |-> 0]
    /\ told = [p \in Paths |-> None]
    /\ left = {p \in Paths : file[p] # None}
    /\ writes = 0

-----------------------------------------------------------------------------
(* The game, the clock and the user *)

Tick ==
    /\ clock < MaxTime
    /\ clock' = clock + 1
    /\ UNCHANGED <<file, events, reads, writes, handlerVars, paused>>

\* A file is created or written, with an event for it.
Write(p, c) ==
    /\ writes < MaxWrites
    /\ writes' = writes + 1
    /\ file' = [file EXCEPT ![p] = [text |-> c, mtime |-> clock]]
    /\ events' = Append(events, p)
    /\ reads' = [reads EXCEPT ![p] = 0]
    /\ UNCHANGED <<clock, handlerVars, paused>>

\* A file is deleted, which the handler does not listen to.
Remove(p) ==
    /\ writes < MaxWrites
    /\ file[p] # None
    /\ writes' = writes + 1
    /\ file' = [file EXCEPT ![p] = None]
    /\ reads' = [reads EXCEPT ![p] = 0]
    /\ UNCHANGED <<clock, events, handlerVars, paused>>

PauseResume ==
    /\ paused' = ~paused
    /\ UNCHANGED <<gameVars, handlerVars>>

-----------------------------------------------------------------------------
(* _handle *)

\* What the steps of the handler leave alone but for the text it reads.
aside == <<clock, file, writes, paused>>

Here == file[handler.path]

\* The handler is done with its event.
Return == handler' = Idle

\* It leaves the path as it is: unread, or its match unreported.
Leave ==
    /\ Return
    /\ left' = left \cup {handler.path}

\* on_created, on_modified: the next event, and the stat.
Dispatch ==
    /\ handler.at = "idle" /\ events # <<>>
    /\ events' = Tail(events)
    /\ LET p == Head(events) IN
       handler' = IF file[p] = None THEN Idle
                  ELSE [Idle EXCEPT !.at = "check", !.path = p, !.mtime = file[p].mtime]
    /\ UNCHANGED <<aside, lastSeen, read, reads, told, left>>

TooFresh == clock < handler.mtime + Debounce

Seen ==
    /\ lastSeen[handler.path] # None
    /\ handler.mtime <= lastSeen[handler.path]

\* Mutant: no debounce.
CheckSeenOnly ==
    /\ handler.at = "check"
    /\ \/ Seen /\ Return /\ UNCHANGED <<lastSeen, left>>
       \/ /\ ~Seen
          /\ lastSeen' = [lastSeen EXCEPT ![handler.path] = handler.mtime]
          /\ handler' = [handler EXCEPT !.at = "parse"]
          /\ UNCHANGED left
    /\ UNCHANGED <<aside, events, read, reads, told>>

\* Mutant: an mtime that was seen counts as new.
CheckFreshOnly ==
    /\ handler.at = "check"
    /\ \/ TooFresh /\ Leave /\ UNCHANGED lastSeen
       \/ /\ ~TooFresh
          /\ lastSeen' = [lastSeen EXCEPT ![handler.path] = handler.mtime]
          /\ handler' = [handler EXCEPT !.at = "parse"]
          /\ UNCHANGED left
    /\ UNCHANGED <<aside, events, read, reads, told>>

\* The debounce, then _last_seen under the lock.
Check ==
    /\ handler.at = "check"
    /\ \/ TooFresh /\ Leave /\ UNCHANGED lastSeen
       \/ ~TooFresh /\ Seen /\ Return /\ UNCHANGED <<lastSeen, left>>
       \/ /\ ~TooFresh /\ ~Seen
          /\ lastSeen' = [lastSeen EXCEPT ![handler.path] = handler.mtime]
          /\ handler' = [handler EXCEPT !.at = "parse"]
          /\ UNCHANGED left
    /\ UNCHANGED <<aside, events, read, reads, told>>

\* parse_file reads the text, unless the file is gone, and looks for a match.
ParseFile ==
    /\ handler.at = "parse"
    /\ \/ Here = None /\ Return /\ UNCHANGED <<read, reads, left>>
       \/ /\ Here # None
          /\ read' = [read EXCEPT ![handler.path] = Here.text]
          /\ reads' = [reads EXCEPT ![handler.path] = reads[handler.path] + 1]
          /\ left' = left \ {handler.path}
          /\ \/ Parse(Here.text) = None /\ Return
             \/ /\ Parse(Here.text) # None
                /\ handler' = [handler EXCEPT !.at = "match", !.match = Parse(Here.text)]
    /\ UNCHANGED <<aside, events, lastSeen, told>>

\* The file cannot be read.
ParseFails ==
    /\ handler.at = "parse"
    /\ Leave
    /\ UNCHANGED <<aside, events, lastSeen, read, reads, told>>

\* _on_match: a paused tray forgets the match.  (The service has no pause.)
OnMatch ==
    /\ handler.at = "match"
    /\ \/ paused /\ Leave
       \/ ~paused /\ handler' = [handler EXCEPT !.at = "upload"] /\ left' = left
    /\ UNCHANGED <<aside, events, lastSeen, read, reads, told>>

\* upload_match answers: it queues what it is told.
Upload ==
    /\ handler.at = "upload"
    /\ told' = [told EXCEPT ![handler.path] = Payload(handler.match)]
    /\ Return
    /\ UNCHANGED <<aside, events, lastSeen, read, reads, left>>

\* The upload is refused, fails or takes too long; there is no second try.
UploadFails ==
    /\ handler.at = "upload"
    /\ Leave
    /\ UNCHANGED <<aside, events, lastSeen, read, reads, told>>

Handle == Dispatch \/ Check \/ ParseFile \/ ParseFails \/ OnMatch \/ Upload \/ UploadFails

-----------------------------------------------------------------------------
Next ==
    \/ Tick
    \/ \E p \in Paths : (\E c \in Contents : Write(p, c)) \/ Remove(p)
    \/ PauseResume
    \/ Handle

Spec == Init /\ [][Next]_vars

\* The observer's thread runs, and an upload ends within its minute.
FairSpec == Spec /\ WF_vars(Tick) /\ WF_vars(Handle)

-----------------------------------------------------------------------------
(* Properties *)

\* Every variable keeps its type.
TypeOK ==
    /\ clock \in 0 .. MaxTime /\ writes \in 0 .. MaxWrites
    /\ file \in [Paths -> Files \cup {None}]
    /\ events \in Seq(Paths)
    /\ lastSeen \in [Paths -> (0 .. MaxTime) \cup {None}]
    /\ handler \in Handler
    /\ paused \in BOOLEAN
    /\ read \in [Paths -> Contents \cup {None}]
    /\ reads \in [Paths -> Nat]
    /\ told \in [Paths -> [result : {"win", "loss", "draw"},
                           format : Names \cup {"unknown"},
                           opponent : Names \cup {None}] \cup {None}]
    /\ left \subseteq Paths

\* Nothing is left to do.
Quiet == handler = Idle /\ events = <<>>

\* When nothing is left to do, the text last read from a file is the one it
\* has, and the server was last told of the match in it, unless the handler
\* left the file the last time: comparing mtimes misses no change, although
\* the file may be written between the stat and the read and within one
\* tick of its mtime.
QuietMeansReported ==
    Quiet => \A p \in Paths : file[p] # None /\ p \notin left =>
        /\ read[p] = file[p].text
        /\ Parse(read[p]) # None => told[p] = Payload(Parse(read[p]))

\* One change of a file is read, and so reported, at most twice, however its
\* events bunch up: once by a handler that had looked at the mtime before
\* the change, and once for the change itself.
ReadAtMostTwice == \A p \in Paths : reads[p] <= 2

\* What the head of watcher.py says: "On file create/modify for .dat or .log
\* files, parse the file" (agent/watcher.py 3-4).  A file with an event gets
\* parsed, unless it changes again, with an event of its own.
ChangeIsParsed ==
    \A p \in Paths, f \in Files :
        file[p] = f /\ (\E i \in 1 .. Len(events) : events[i] = p)
            ~> \/ file[p] # f
               \/ read[p] = f.text
               \/ handler.at = "parse" /\ handler.path = p
=============================================================================
